---------------------- MODULE PortAllocationCloudProofs ---------------------
(***************************************************************************)
(* What is registered in the SGs of a PA. AvailableIsEmpty, where a cloud   *)
(* call takes effect before it returns: a release leaves nothing behind.    *)
(* BoundIsRegistered, there and where calls take effect late: a server      *)
(* status of Bound is true.                                                 *)
(*                                                                          *)
(* Neither is inductive: a release skips the SGs whose status is empty in   *)
(* the worker's copy, and a binding skips those whose status is Bound, so   *)
(* both rest on what every copy of a status (in the PA, in the cache, in    *)
(* the worker) says of the SG. HeldInv, TrackInv and RegistersInv relate    *)
(* them. No step of another PA matters, so a step is first reduced to what  *)
(* it does to one PA r, its cached copy c, its worker w and its SGs b.      *)
(* Late calls bring in the Pods: LateInv says that no remove under way is   *)
(* for an address that a PA holds, and borrows the lock for it.             *)
(***************************************************************************)
EXTENDS PortAllocationLockProofs

-----------------------------------------------------------------------------
(* The life of one PA: what a step does to the PA r, its cached copy c, its *)
(* worker w and the contents b of its SGs.  r2 and w2 are the PA and the    *)
(* worker after the step; ok says that no fault has happened.               *)

\* Where a worker is before its PA is Binding.
Early == {"idle", "claimPod", "rollback", "setPodIP", "setBinding"}

\* The worker goes on where it is.
Keeps(w, w2) ==
    /\ w2.pc = w.pc /\ w2.mem = w.mem /\ w2.memOK = w.memOK
    /\ w2.i = w.i /\ w2.to = w.to /\ w2.clear = w.clear

\* The PA keeps what its status says of the SGs.
KeepsStatus(r, r2) == r2.ss = r.ss /\ r2.since = r.since

\* The reconcile ends.
Stops(r, w, r2, w2, ok) ==
    /\ r2 = r /\ w2 = Idle
    /\ ok => /\ w.to = "none"
             /\ \/ w.pc \in Early \cup {"bind", "disable"}
                \/ w.pc = "release" /\ w.clear = FALSE
                \/ w.pc = "clearSpec" /\ w.memOK = FALSE

\* The PA is reserved, or given back; the Pod is claimed, or not.
Claiming(r, c, w, r2, w2) ==
    /\ w.pc \in Early /\ w2.pc \in Early /\ w2.to = "none"
    /\ c.phase \in {"Available", "Binding"}
    /\ r2.phase = r.phase /\ KeepsStatus(r, r2)
    /\ r2.ip # r.ip => r.phase = "Available"

\* The end of handleAvailable.
TurnsBinding(r, w, r2, w2) ==
    /\ w.pc = "setBinding" /\ w.memOK = TRUE /\ w2 = Idle
    /\ r.phase = "Available" /\ r2.phase = "Binding"
    /\ r2.ip = r.ip /\ KeepsStatus(r, r2)

\* A handler that ends in one CAS on the status.
Turns(r, c, w, r2, w2) ==
    /\ w.pc = "idle" /\ Keeps(w, w2) /\ c = r
    /\ \/ r.phase \in {"Binding", "Bound", "Disabled"} /\ r2.phase = "Releasing"
       \/ r.phase = "Disabled" /\ r2.phase = "Binding"
    /\ r2.ip = r.ip /\ KeepsStatus(r, r2)

\* A loop starts.
Starts(r, c, w, r2, w2) ==
    /\ w.pc = "idle" /\ w2.i = 1 /\ w2.to = "none" /\ w2.clear = TRUE
    /\ \/ w2.pc = "bind" /\ c.phase = "Binding" /\ w2.mem = c /\ r2 = r
       \/ /\ w2.pc = "disable" /\ c.phase = "Bound" /\ w2.mem = c /\ r2 = r
          /\ "disabled" \in UserEdits
       \/ w2.pc = "release" /\ c.phase = "Releasing" /\ c.since = TRUE /\ w2.mem = c /\ r2 = r
       \/ /\ w2.pc = "release" /\ c.phase = "Releasing" /\ c.since = FALSE
          /\ r2.phase = r.phase /\ r2.ip = r.ip /\ r2.ss = r.ss /\ r2.since = TRUE
          /\ w2.mem = Decode(c, r2) /\ w2.memOK = TRUE

\* The worker is done with an SG ...
Passes(r, w, b, r2, w2, del, ok) ==
    /\ w.pc \in {"bind", "disable", "release"} /\ w.to = "none" /\ w.i \in SGs
    /\ r2 = r
    /\ w2.pc = w.pc /\ w2.mem = w.mem /\ w2.memOK = w.memOK
    /\ w2.to = "none" /\ w2.i = w.i + 1
    /\ \/ /\ w.mem.ss[w.i] = Goal(w.pc)
          /\ w2.clear = w.clear
          /\ \A i \in SGs : del[i] = {}
       \/ /\ w2.clear = FALSE
          /\ ok => b[w.i] # {}
          /\ \A i \in SGs : (i = w.i /\ w.pc = "release") \/ del[i] = {}

\* ... or is about to patch its status ...
Polls(r, w, b, r2, w2, add, del) ==
    /\ w.to = "none" /\ w.i \in SGs
    /\ r2 = r
    /\ w2.pc = w.pc /\ w2.mem = w.mem /\ w2.memOK = w.memOK
    /\ w2.i = w.i /\ w2.clear = w.clear
    /\ \A i \in SGs : i = w.i \/ del[i] = {}
    /\ add = TRUE => w.pc = "bind" /\ w2.to = "Adding"
    /\ \/ /\ w.pc = "bind" /\ w.mem.ss[w.i] = "Adding"
          /\ w2.to = (IF w.mem.ip \in b[w.i] THEN "Bound" ELSE "")
          /\ del[w.i] = {}
       \/ /\ w.pc = "bind" /\ w.mem.ss[w.i] \in {"", "Removing"}
          /\ w2.to = "Adding"
          /\ add = FALSE => w.mem.ip \in b[w.i]
          /\ del[w.i] = {}
       \/ /\ w.pc = "disable" /\ w.mem.ip \notin b[w.i]
          /\ w2.to = ""
          /\ del[w.i] = {}
       \/ /\ w.pc = "disable" /\ w.mem.ip \in b[w.i]
          /\ w2.to = "Removing"
          /\ del[w.i] = {w.mem.ip}
       \/ /\ w.pc = "release" /\ b[w.i] = {}
          /\ w2.to = ""
          /\ del[w.i] = {}

\* ... or patches it.
Patches(r, w, r2, w2) ==
    /\ w.pc \in {"bind", "disable", "release"} /\ w.to # "none" /\ w.i \in SGs
    /\ r2.phase = r.phase /\ r2.ip = r.ip /\ r2.since = r.since
    /\ \A i \in SGs : r2.ss[i] = IF i = w.i THEN w.to ELSE r.ss[i]
    /\ w2.pc = w.pc /\ w2.memOK = TRUE /\ w2.to = "none" /\ w2.i = w.i + 1
    /\ w2.clear = TRUE <=> (w.clear = TRUE /\ w.to = Goal(w.pc))
    /\ w2.mem.ip = IF r.ip = Null THEN w.mem.ip ELSE r.ip
    /\ \A i \in SGs :
         w2.mem.ss[i] = IF i = w.i THEN w.to
                                   ELSE IF r.ss[i] = "" THEN w.mem.ss[i] ELSE r.ss[i]

\* The CAS at the end of a loop.
Ends(r, w, r2, w2) ==
    /\ w.to = "none" /\ w.i > NumSG /\ w.clear = TRUE /\ w.memOK = TRUE
    /\ \/ w.pc = "bind" /\ r2.phase = "Bound"
       \/ w.pc = "disable" /\ r2.phase = "Disabled"
    /\ r2.ip = r.ip /\ r2.since = r.since /\ r2.ss = w.mem.ss
    /\ w2 = Idle

\* From one step of a release to the next.
GoesOn(r, w, b, r2, w2, del, ok) ==
    /\ r2 = r
    /\ w2.mem = w.mem /\ w2.memOK = w.memOK /\ w2.to = "none"
    /\ w.pc # "removeServers" => \A i \in SGs : del[i] = {}
    /\ \/ /\ w.pc = "release" /\ w.i > NumSG /\ w.clear = TRUE
          /\ w2.pc = "clearPodClaim"
       \/ /\ w.pc \in {"clearPodClaim", "patchPodClaim"}
          /\ w2.pc \in {"patchPodClaim", "removeServers"}
       \/ /\ w.pc = "removeServers"
          /\ w2.pc = "clearPodClaimAgain"
          /\ ok => \A i \in SGs : w.mem.ip \in b[i] => del[i] = {w.mem.ip}
          /\ ~ok => \E i \in SGs : b[i] # {}
       \/ /\ w.pc \in {"clearPodClaimAgain", "patchPodClaimAgain"}
          /\ w2.pc \in {"patchPodClaimAgain", "clearSpec"}

\* resetToAvailable.
Resets(r, w, r2, w2) ==
    \/ /\ w.pc = "clearSpec" /\ w2.pc = "setAvailable"
       /\ r2.phase = r.phase /\ r2.ip = Null /\ r2.ss = r.ss /\ r2.since = FALSE
       /\ w2.mem = w.mem /\ w2.memOK = w.memOK /\ w2.to = "none"
    \/ /\ w.pc = "setAvailable" /\ w2 = Idle
       /\ r2.phase = "Available" /\ r2.ip = r.ip /\ Clean(r2) /\ r2.since = r.since

\* Every step of a worker.
Moves(r, c, w, b, r2, w2, add, del, ok) ==
    \/ Passes(r, w, b, r2, w2, del, ok) /\ add = FALSE
    \/ Polls(r, w, b, r2, w2, add, del)
    \/ GoesOn(r, w, b, r2, w2, del, ok) /\ add = FALSE
    \/ /\ add = FALSE
       /\ \A i \in SGs : del[i] = {}
       /\ \/ Stops(r, w, r2, w2, ok)
          \/ Claiming(r, c, w, r2, w2)
          \/ TurnsBinding(r, w, r2, w2)
          \/ Turns(r, c, w, r2, w2)
          \/ Starts(r, c, w, r2, w2)
          \/ Patches(r, w, r2, w2)
          \/ Ends(r, w, r2, w2)
          \/ Resets(r, w, r2, w2)

\* What worker p tells the cloud, and what the cloud does about it.
Calls(p, add, del) ==
    \A i \in SGs :
        LET new == IF add = TRUE /\ i = worker[p].i THEN {worker[p].mem.ip} ELSE {}
        IN  IF CloudAsync
              THEN /\ backends'[p][i] = backends[p][i]
                   /\ jobs'[p][i] = jobs[p][i] \cup ({"add"} \X new) \cup ({"remove"} \X del[i])
              ELSE /\ backends'[p][i] = (backends[p][i] \cup new) \ del[i]
                   /\ jobs'[p][i] = jobs[p][i]

\* A step of the worker of p.
WorkerMoves(p) ==
    /\ paCache'[p] = paCache[p]
    /\ \E add \in BOOLEAN, del \in [SGs -> SUBSET IPs] :
         /\ Moves(pa[p], paCache[p], worker[p], backends[p], pa'[p], worker'[p], add, del,
                  faults' = faults)
         /\ Calls(p, add, del)

\* A step that does not concern p, except that its cache may catch up.
Stays(p) ==
    /\ pa'[p] = pa[p]
    /\ paCache'[p] \in {paCache[p], pa[p]}
    /\ Keeps(worker[p], worker'[p])
    /\ backends'[p] = backends[p] /\ jobs'[p] = jobs[p]

\* A job of p ends.
JobEnds(p) ==
    /\ pa'[p] = pa[p] /\ paCache'[p] = paCache[p] /\ worker'[p] = worker[p]
    /\ \E i \in SGs : \E j \in jobs[p][i] : JobDone(p, i, j) \/ JobFails(p, i, j)

-----------------------------------------------------------------------------
(* The annotation that disables the network of a Pod is set by users only.  *)

\* A Pod is disabled, in the API server or in the cache, only if users do that.
EditedInv ==
    \A d \in Pods :
        /\ pod[d] # Null /\ pod[d].disabled => "disabled" \in UserEdits
        /\ podCache[d] # Null /\ podCache[d].disabled => "disabled" \in UserEdits

\* Workers read the caches and never write them.
LEMMA CachesStay ==
  ASSUME NEW p \in PAs, WorkerStep(p) \/ WorkerFails(p)
  PROVE  UNCHANGED cacheVars
BY DEF WorkerStep, WorkerFails, HandleAvailable, ClaimPod, RollBack, SetBinding,
   ResumeConfirmed, ResumeClaim, ResumeClear, SetPodIP, SkipSG, PatchServerStatus,
   HandleBinding, AbortBinding, PollAdding, AddServers, FinishBinding, HandleBound,
   HandleDisable, PollRemoving, RemoveServer, FinishDisable, DisabledPodGone, ReEnable,
   HandleReleasing, ListAndRemove, FinishReleasing, ClearPodClaim, RemoveServers,
   ClearPodClaimAgain, ClearSpec, SetAvailable, Abort, ClaimPodFails, ResumeClaimFails,
   Throttled, PatchPodClaimFails, MovePhase, EndLoop, ReadPodClaim, PatchPodClaim

\* Every write of a Pod by a worker keeps the annotation.
LEMMA WorkerEdits ==
  ASSUME TypeInv, NEW p \in PAs, WorkerStep(p) \/ WorkerFails(p), NEW d \in Pods
  PROVE  /\ podCache' = podCache
         /\ pod'[d] # Null => pod[d] # Null /\ pod'[d].disabled = pod[d].disabled
<1>1. CASE ClaimPod(p) \/ ResumeClaim(p)
  <2>1. PICK e, r :
          /\ e \in Pods /\ pod[e] # Null /\ r = [pod[e] EXCEPT !.claim = p]
          /\ pod' = [pod EXCEPT ![e] = r]
    <3>1. PICK e, w : SetsClaim(p, e, w)
      BY <1>1, ClaimSetters
    <3> QED
      BY <3>1 DEF SetsClaim, SetClaim, WritePod
  <2>2. r.disabled = pod[e].disabled
    BY <2>1 DEF TypeInv, PodInv, PodRecords
  <2> QED
    BY <1>1, <2>1, <2>2 DEF ClaimPod, ResumeClaim, TypeInv, PodInv, cacheVars
<1>2. CASE \/ PatchPodClaim(p, "patchPodClaim", "removeServers")
           \/ PatchPodClaim(p, "patchPodClaimAgain", "clearSpec")
  <2>1. PICK e, r :
          /\ r = IF pod[e] = Null THEN Null ELSE [pod[e] EXCEPT !.claim = Null]
          /\ pod' = [pod EXCEPT ![e] = r] /\ UNCHANGED cacheVars
    BY <1>2 DEF PatchPodClaim, WritePod
  <2>2. e \in Pods /\ pod[e] # Null => r.disabled = pod[e].disabled
    BY <2>1 DEF TypeInv, PodInv, PodRecords
  <2> QED
    BY <2>1, <2>2 DEF TypeInv, PodInv, cacheVars
<1>3. CASE UNCHANGED podVars
  <2>1. UNCHANGED cacheVars
    BY CachesStay
  <2> QED
    BY <1>3, <2>1 DEF podVars, cacheVars
<1> QED
  BY <1>1, <1>2, <1>3, PodWriters

\* Every step.
LEMMA EditedStep ==
  ASSUME TypeInv, EditedInv, [Next]_vars
  PROVE  EditedInv'
<1>1. ASSUME NEW p \in PAs, WorkerStep(p) \/ WorkerFails(p) PROVE EditedInv'
  BY <1>1, WorkerEdits DEF EditedInv
<1>2. ASSUME NEW p \in PAs, CloudStep(p) \/ CloudFails(p) \/ SyncPA(p) PROVE EditedInv'
  BY <1>2 DEF CloudStep, CloudFails, SyncPA, JobDone, JobFails, EditedInv, podVars, cacheVars
<1>3. ASSUME NEW d \in Pods, SyncPod(d) PROVE EditedInv'
  BY <1>3 DEF SyncPod, EditedInv, TypeInv, PodInv
<1>4. ASSUME NEW d \in Pods, PodStep(d) PROVE EditedInv'
  <2>1. PICK r :
          /\ pod' = [pod EXCEPT ![d] = r] /\ UNCHANGED podCache
          /\ r # Null /\ r.disabled => "disabled" \in UserEdits
    <3>1. CASE PodCreate(d)
      <4>1. PICK r : r = [uid |-> incarnation[d] + 1, hasIP |-> FALSE, claim |-> Null,
                          inPool |-> TRUE, disabled |-> FALSE]
        OBVIOUS
      <4>2. pod' = [pod EXCEPT ![d] = r] /\ UNCHANGED podCache
        BY <3>1, <4>1 DEF PodCreate, PodChange, WritePod, cacheVars
      <4>3. r.disabled = FALSE
        BY <4>1
      <4> QED
        BY <4>2, <4>3
    <3>2. CASE PodDelete(d)
      BY <3>2 DEF PodDelete, PodChange, WritePod, cacheVars
    <3>3. CASE EditDisabled(d)
      BY <3>3 DEF EditDisabled, PodChange, WritePod, cacheVars
    <3>4. CASE PodGetsIP(d) \/ EditPool(d)
      <4>1. PICK r : /\ \/ r = [pod[d] EXCEPT !.hasIP = TRUE]
                        \/ r = [pod[d] EXCEPT !.inPool = ~@]
                     /\ pod[d] # Null
                     /\ pod' = [pod EXCEPT ![d] = r] /\ UNCHANGED podCache
        BY <3>4 DEF PodGetsIP, EditPool, PodChange, WritePod, cacheVars
      <4>2. r.disabled = pod[d].disabled
        BY <4>1 DEF TypeInv, PodInv, PodRecords
      <4> QED
        BY <4>1, <4>2 DEF EditedInv
    <3> QED
      BY <1>4, <3>1, <3>2, <3>3, <3>4 DEF PodStep
  <2> QED
    BY <2>1 DEF EditedInv, TypeInv, PodInv
<1>5. CASE UNCHANGED vars
  BY <1>5 DEF vars, EditedInv
<1> QED
  BY <1>1, <1>2, <1>3, <1>4, <1>5 DEF Next

-----------------------------------------------------------------------------
(* Every step of the system is one of these.                                *)

\* Keeping still.
LEMMA KeepsSelf ==
  ASSUME TypeInv, NEW q \in PAs, worker'[q] \in {worker[q], [worker[q] EXCEPT !.podOK = FALSE]}
  PROVE  Keeps(worker[q], worker'[q])
BY WorkerSteps DEF Keeps, Workers

\* What a step of worker p leaves to the others.
LEMMA OthersStay ==
  ASSUME TypeInv, NEW p \in PAs,
         UNCHANGED pa \/ \E r : WritePA(p, r),
         UNCHANGED paCache,
         \/ UNCHANGED worker
         \/ \E w : Goto(p, w)
         \/ \E d, r, w : worker' = [Overtaken(d, r) EXCEPT ![p] = w],
         \/ UNCHANGED cloudVars
         \/ \E i, ip : CloudAdd(p, i, ip)
         \/ \E gone : CloudRemove(p, gone),
         NEW q \in PAs \ {p}
  PROVE  Stays(q)
<1>1. pa'[q] = pa[q] /\ paCache'[q] = paCache[q]
  BY DEF WritePA, TypeInv, PAInv
<1>2. worker'[q] \in {worker[q], [worker[q] EXCEPT !.podOK = FALSE]}
  <2>1. CASE \E d, r, w : worker' = [Overtaken(d, r) EXCEPT ![p] = w]
    <3>1. PICK d, r, w : worker' = [Overtaken(d, r) EXCEPT ![p] = w]
      BY <2>1
    <3>2. worker'[q] = Overtaken(d, r)[q]
      BY <3>1 DEF Overtaken
    <3> QED
      BY <3>2 DEF Overtaken
  <2>2. CASE UNCHANGED worker \/ \E w : Goto(p, w)
    BY <2>2 DEF Goto, TypeInv, WorkerInv
  <2> QED
    BY <2>1, <2>2
<1>3. backends'[q] = backends[q] /\ jobs'[q] = jobs[q]
  BY DEF CloudAdd, CloudRemove, cloudVars, TypeInv, CloudInv
<1> QED
  BY <1>1, <1>2, <1>3, KeepsSelf DEF Stays

\* The cloud, as the worker addresses it.
LEMMA NoCall ==
  ASSUME TypeInv, NEW p \in PAs, UNCHANGED cloudVars
  PROVE  \E del \in [SGs -> SUBSET IPs] :
           (\A i \in SGs : del[i] = {}) /\ Calls(p, FALSE, del)
<1> WITNESS [i \in SGs |-> {}] \in [SGs -> SUBSET IPs]
<1> QED
  BY DEF Calls, cloudVars, TypeInv, CloudInv

\* An accepted RemoveServers.
LEMMA RemoveCall ==
  ASSUME TypeInv, NEW p \in PAs, NEW gone \in [SGs -> SUBSET IPs], CloudRemove(p, gone)
  PROVE  Calls(p, FALSE, gone)
BY DEF Calls, CloudRemove, TypeInv, CloudInv

\* An accepted AddServers.
LEMMA AddCall ==
  ASSUME TypeInv, NEW p \in PAs, worker[p].i \in SGs,
         CloudAdd(p, worker[p].i, worker[p].mem.ip)
  PROVE  \E del \in [SGs -> SUBSET IPs] :
           (\A i \in SGs : del[i] = {}) /\ Calls(p, TRUE, del)
<1> WITNESS [i \in SGs |-> {}] \in [SGs -> SUBSET IPs]
<1> QED
  BY DEF Calls, CloudAdd, TypeInv, CloudInv

\* A step of the worker that calls nobody.
LEMMA QuietMoves ==
  ASSUME TypeInv, NEW p \in PAs, UNCHANGED cloudVars, UNCHANGED paCache,
         \/ Stops(pa[p], worker[p], pa'[p], worker'[p], faults' = faults)
         \/ Claiming(pa[p], paCache[p], worker[p], pa'[p], worker'[p])
         \/ TurnsBinding(pa[p], worker[p], pa'[p], worker'[p])
         \/ Turns(pa[p], paCache[p], worker[p], pa'[p], worker'[p])
         \/ Starts(pa[p], paCache[p], worker[p], pa'[p], worker'[p])
         \/ Patches(pa[p], worker[p], pa'[p], worker'[p])
         \/ Ends(pa[p], worker[p], pa'[p], worker'[p])
         \/ Resets(pa[p], worker[p], pa'[p], worker'[p])
  PROVE  WorkerMoves(p)
BY NoCall DEF WorkerMoves, Moves

\* The record of a PA, its fields, and the worker p.
LEMMA FieldsOf ==
  ASSUME TypeInv, NEW p \in PAs
  PROVE  /\ pa[p] \in PARecords /\ paCache[p] \in PARecords
         /\ worker[p] \in Workers /\ worker[p].mem \in PARecords
         /\ Idle.pc = "idle" /\ Idle.to = "none"
BY WorkerSteps DEF TypeInv, PAInv, Workers, Idle

\* The reconcile ends, and nothing else changes.
LEMMA GotoIdle ==
  ASSUME TypeInv, NEW p \in PAs, Goto(p, Idle), UNCHANGED <<paVars, cacheVars, cloudVars>>,
         faults' = faults =>
           /\ worker[p].to = "none"
           /\ \/ worker[p].pc \in Early \cup {"bind", "disable"}
              \/ worker[p].pc = "release" /\ worker[p].clear = FALSE
              \/ worker[p].pc = "clearSpec" /\ worker[p].memOK = FALSE
  PROVE  WorkerMoves(p)
<1>1. Stops(pa[p], worker[p], pa'[p], worker'[p], faults' = faults)
  BY DEF Stops, Goto, TypeInv, WorkerInv, paVars
<1> QED
  BY <1>1, QuietMoves DEF cacheVars

\* The steps of handleAvailable.
LEMMA ClaimMoves ==
  ASSUME TypeInv, ReservedInv, NEW p \in PAs,
         \/ \E d \in Pods : HandleAvailable(p, d)
         \/ ClaimPod(p) \/ ClaimPodFails(p) \/ RollBack(p) \/ SetBinding(p)
  PROVE  WorkerMoves(p)
<1>1. /\ pa[p] \in PARecords /\ paCache[p] \in PARecords
      /\ worker[p] \in Workers /\ worker[p].mem \in PARecords
      /\ Idle.pc = "idle" /\ Idle.to = "none"
  BY FieldsOf
<1>2. Copied(p, pa[p], paCache[p]) /\ Working(p, pa[p], paCache[p], worker[p])
  BY DEF ReservedInv, Reserved
<1>3. ASSUME NEW d \in Pods, HandleAvailable(p, d) PROVE WorkerMoves(p)
  <2>1. PICK r, w : /\ r = [pa[p] EXCEPT !.pod = d, !.ip = <<d, podCache[d].uid>>]
                    /\ w = [Idle EXCEPT !.pc = "claimPod", !.mem = r, !.memOK = TRUE,
                                        !.podOK = podSynced[d]]
    OBVIOUS
  <2>2. /\ pa' = [pa EXCEPT ![p] = r] /\ worker' = [worker EXCEPT ![p] = w]
        /\ UNCHANGED <<paCache, cloudVars>> /\ worker[p].pc = "idle"
        /\ paCache[p].phase = "Available" /\ paSynced[p]
    BY <1>3, <2>1 DEF HandleAvailable, WritePA, Goto, Reconcile, At, cacheVars
  <2>3. pa[p].phase = "Available"
    BY <2>2 DEF TypeInv, PAInv
  <2>4. pa'[p] = r /\ worker'[p] = w
    BY <2>2 DEF TypeInv, PAInv, WorkerInv
  <2>5. r.phase = pa[p].phase /\ r.ss = pa[p].ss /\ r.since = pa[p].since
    BY <1>1, <2>1 DEF PARecords
  <2>6. w.pc = "claimPod" /\ w.to = "none"
    BY <2>1 DEF Idle
  <2>7. Claiming(pa[p], paCache[p], worker[p], pa'[p], worker'[p])
    BY <2>2, <2>3, <2>4, <2>5, <2>6 DEF Claiming, KeepsStatus, Early
  <2> QED
    BY <2>2, <2>7, QuietMoves
<1>4. CASE ClaimPod(p) \/ ClaimPodFails(p)
  <2>0. PICK l \in {"setBinding", "rollback"} :
          worker'[p] = [worker[p] EXCEPT !.pc = l, !.podOK = FALSE]
    BY <1>4 DEF ClaimPod, ClaimPodFails, Goto, SetClaim, Overtaken, TypeInv, WorkerInv
  <2>1. PICK w : w = [worker[p] EXCEPT !.pc = l, !.podOK = FALSE] /\ worker'[p] = w
    BY <2>0
  <2>2. worker[p].pc = "claimPod" /\ worker[p].to = "none"
    BY <1>4, WorkerSteps DEF ClaimPod, ClaimPodFails, At, Consistent
  <2>3. w.pc = l /\ w.to = "none"
    BY <1>1, <2>1, <2>2 DEF Workers
  <2>4. UNCHANGED <<pa, paCache, cloudVars>>
    BY <1>4 DEF ClaimPod, ClaimPodFails, paVars, cacheVars
  <2>5. paCache[p].phase = "Available"
    BY <1>2, <2>2 DEF Working, Claims
  <2>6. Claiming(pa[p], paCache[p], worker[p], pa'[p], worker'[p])
    BY <2>1, <2>2, <2>3, <2>4, <2>5 DEF Claiming, KeepsStatus, Early
  <2> QED
    BY <2>4, <2>6, QuietMoves
<1>5. CASE RollBack(p)
  <2>1. PICK r : r = Unreserved(p)
    OBVIOUS
  <2>2. r.phase = pa[p].phase /\ r.ss = pa[p].ss /\ r.since = pa[p].since
    BY <1>1, <2>1 DEF Unreserved, PARecords
  <2>3. /\ pa'[p] = r /\ worker'[p] = Idle /\ worker[p].pc = "rollback"
        /\ UNCHANGED <<paCache, cloudVars>>
    BY <1>5, <2>1 DEF RollBack, WritePA, Goto, At, TypeInv, PAInv, WorkerInv, cacheVars
  <2>4. pa[p].phase = "Available" /\ paCache[p].phase = "Available"
    BY <1>2, <2>3 DEF Working, Claims
  <2>5. Claiming(pa[p], paCache[p], worker[p], pa'[p], worker'[p])
    BY <1>1, <2>2, <2>3, <2>4 DEF Claiming, KeepsStatus, Early
  <2> QED
    BY <2>3, <2>5, QuietMoves
<1>6. CASE SetBinding(p)
  <2>1. CASE ~CurrentPA(p)
    BY <1>6, <2>1, GotoIdle, WorkerSteps DEF SetBinding, At, Early, Consistent
  <2>2. CASE CurrentPA(p)
    <3>1. PICK r : r = [pa[p] EXCEPT !.phase = "Binding"]
      OBVIOUS
    <3>2. /\ r.phase = "Binding" /\ r.ip = pa[p].ip /\ r.ss = pa[p].ss
          /\ r.since = pa[p].since
      BY <1>1, <3>1 DEF PARecords
    <3>3. /\ pa'[p] = r /\ worker'[p] = Idle /\ worker[p].pc = "setBinding"
          /\ UNCHANGED <<paCache, cloudVars>>
      BY <1>6, <2>2, <3>1
      DEF SetBinding, WritePA, Goto, At, TypeInv, PAInv, WorkerInv, cacheVars
    <3>4. pa[p].phase = "Available"
      BY <1>2, <2>2, <3>3 DEF Working, Claims, CurrentPA
    <3>5. TurnsBinding(pa[p], worker[p], pa'[p], worker'[p])
      BY <1>1, <2>2, <3>2, <3>3, <3>4 DEF TurnsBinding, KeepsStatus, CurrentPA, Workers
    <3> QED
      BY <3>3, <3>5, QuietMoves
  <2> QED
    BY <2>1, <2>2
<1> QED
  BY <1>3, <1>4, <1>5, <1>6

\* The actions of availableResumeBind.
LEMMA ResumeMoves ==
  ASSUME TypeInv, ReservedInv, NEW p \in PAs,
         \/ ResumeConfirmed(p) \/ ResumeClaim(p) \/ ResumeClear(p) \/ ResumeClaimFails(p)
         \/ SetPodIP(p)
  PROVE  WorkerMoves(p)
<1>1. /\ pa[p] \in PARecords /\ paCache[p] \in PARecords
      /\ worker[p] \in Workers /\ worker[p].mem \in PARecords
      /\ Idle.pc = "idle" /\ Idle.to = "none"
  BY FieldsOf
<1>2. Copied(p, pa[p], paCache[p]) /\ Working(p, pa[p], paCache[p], worker[p])
  BY DEF ReservedInv, Reserved
<1>3. CASE ResumeConfirmed(p) \/ ResumeClaim(p)
  <2>1. PICK ip, w : w \in {ResumeWith(p, ip), Idle} /\ worker'[p] = w
    BY <1>3 DEF ResumeConfirmed, ResumeClaim, Goto, SetClaim, Overtaken, TypeInv, WorkerInv
  <2>2. w.pc \in Early /\ w.to = "none"
    BY <1>1, <2>1 DEF ResumeWith, Idle, Early
  <2>3. /\ worker[p].pc = "idle" /\ UNCHANGED <<pa, paCache, cloudVars>>
        /\ paCache[p].phase = "Available"
    BY <1>3 DEF ResumeConfirmed, ResumeClaim, Resume, Reconcile, At, paVars, cacheVars
  <2>4. Claiming(pa[p], paCache[p], worker[p], pa'[p], worker'[p])
    BY <2>1, <2>2, <2>3 DEF Claiming, KeepsStatus, Early
  <2> QED
    BY <2>3, <2>4, QuietMoves
<1>4. CASE ResumeClear(p) \/ ResumeClaimFails(p)
  <2>1. PICK r : r = Unreserved(p)
    OBVIOUS
  <2>2. r.phase = pa[p].phase /\ r.ss = pa[p].ss /\ r.since = pa[p].since
    BY <1>1, <2>1 DEF Unreserved, PARecords
  <2>3. /\ pa'[p] = r /\ worker' = worker /\ worker[p].pc = "idle"
        /\ UNCHANGED <<paCache, cloudVars>> /\ paSynced[p] /\ paCache[p].phase = "Available"
    BY <1>4, <2>1
    DEF ResumeClear, ResumeClaimFails, Resume, Reconcile, WritePA, At, TypeInv, PAInv, cacheVars
  <2>4. pa[p].phase = "Available" /\ worker[p].to = "none"
    BY <2>3, WorkerSteps DEF TypeInv, PAInv, Consistent
  <2>5. Claiming(pa[p], paCache[p], worker[p], pa'[p], worker'[p])
    BY <2>2, <2>3, <2>4 DEF Claiming, KeepsStatus, Early
  <2> QED
    BY <2>3, <2>5, QuietMoves
<1>5. CASE SetPodIP(p)
  <2>1. CASE ~CurrentPA(p)
    BY <1>5, <2>1, GotoIdle, WorkerSteps DEF SetPodIP, At, Early, Consistent
  <2>2. CASE CurrentPA(p)
    <3>1. PICK r, w : /\ r = [pa[p] EXCEPT !.ip = worker[p].mem.ip]
                      /\ w = [worker[p] EXCEPT !.pc = "setBinding"]
      OBVIOUS
    <3>2. r.phase = pa[p].phase /\ r.ss = pa[p].ss /\ r.since = pa[p].since
      BY <1>1, <3>1 DEF PARecords
    <3>3. /\ pa'[p] = r /\ worker'[p] = w /\ worker[p].pc = "setPodIP"
          /\ UNCHANGED <<paCache, cloudVars>>
      BY <1>5, <2>2, <3>1
      DEF SetPodIP, WritePA, Goto, At, TypeInv, PAInv, WorkerInv, cacheVars
    <3>4. /\ pa[p].phase = "Available" /\ worker[p].to = "none"
          /\ paCache[p].phase \in {"Available", "Binding"}
      BY <1>2, <2>2, <3>3, WorkerSteps DEF Working, Claims, CurrentPA, Consistent
    <3>5. w.pc = "setBinding" /\ w.to = "none"
      BY <1>1, <3>1, <3>4 DEF Workers
    <3>6. Claiming(pa[p], paCache[p], worker[p], pa'[p], worker'[p])
      BY <3>2, <3>3, <3>4, <3>5 DEF Claiming, KeepsStatus, Early
    <3> QED
      BY <3>3, <3>6, QuietMoves
  <2> QED
    BY <2>1, <2>2
<1> QED
  BY <1>3, <1>4, <1>5

\* The handlers that end in one CAS on the status.
LEMMA TurnMoves ==
  ASSUME TypeInv, NEW p \in PAs,
         AbortBinding(p) \/ HandleBound(p) \/ DisabledPodGone(p) \/ ReEnable(p)
  PROVE  WorkerMoves(p)
<1>1. PICK phase \in Phases :
        /\ MovePhase(p, phase) /\ worker[p].pc = "idle"
        /\ \/ paCache[p].phase \in {"Binding", "Bound", "Disabled"} /\ phase = "Releasing"
           \/ paCache[p].phase = "Disabled" /\ phase = "Binding"
  BY DEF AbortBinding, HandleBound, DisabledPodGone, ReEnable, Reconcile, At, Phases
<1>2. PICK r : r = [pa[p] EXCEPT !.phase = phase]
  OBVIOUS
<1>3. /\ r.phase = phase /\ r.ip = pa[p].ip /\ r.ss = pa[p].ss /\ r.since = pa[p].since
  BY <1>2, FieldsOf DEF PARecords
<1>4. /\ pa'[p] = r /\ UNCHANGED <<worker, paCache, cloudVars>> /\ paSynced[p]
  BY <1>1, <1>2 DEF MovePhase, WritePA, TypeInv, PAInv, cacheVars
<1>5. paCache[p] = pa[p]
  BY <1>4 DEF TypeInv, PAInv
<1>6. Turns(pa[p], paCache[p], worker[p], pa'[p], worker'[p])
  BY <1>1, <1>3, <1>4, <1>5 DEF Turns, KeepsStatus, Keeps
<1> QED
  BY <1>4, <1>6, QuietMoves

\* The three loops start.
LEMMA StartMoves ==
  ASSUME TypeInv, EditedInv, NEW p \in PAs,
         HandleBinding(p) \/ HandleDisable(p) \/ HandleReleasing(p)
  PROVE  WorkerMoves(p)
<1>1. /\ pa[p] \in PARecords /\ paCache[p] \in PARecords
      /\ worker[p].pc = "idle" /\ UNCHANGED <<paCache, cloudVars>>
  BY FieldsOf DEF HandleBinding, HandleDisable, HandleReleasing, Reconcile, At, cacheVars
<1>2. ASSUME NEW l, NEW m, NEW ok, StartLoop(p, l, m, ok)
      PROVE  /\ worker'[p].pc = l /\ worker'[p].mem = m /\ worker'[p].memOK = ok
             /\ worker'[p].i = 1 /\ worker'[p].to = "none" /\ worker'[p].clear = TRUE
  <2>1. PICK w : w = [Idle EXCEPT !.pc = l, !.mem = m, !.memOK = ok]
    OBVIOUS
  <2>2. worker'[p] = w
    BY <1>2, <2>1 DEF StartLoop, Goto, TypeInv, WorkerInv
  <2> QED
    BY <2>1, <2>2 DEF Idle
<1>3. CASE HandleBinding(p) \/ HandleDisable(p)
  <2>1. PICK l : /\ \/ l = "bind" /\ paCache[p].phase = "Binding"
                    \/ /\ l = "disable" /\ paCache[p].phase = "Bound"
                       /\ "disabled" \in UserEdits
                 /\ StartLoop(p, l, paCache[p], paSynced[p]) /\ UNCHANGED pa
    <3>1. CASE HandleBinding(p)
      BY <3>1 DEF HandleBinding, Reconcile, paVars
    <3>2. CASE HandleDisable(p)
      <4>1. CachedPod(p) # Null /\ CachedPod(p).disabled
        BY <3>2 DEF HandleDisable, BoundPodDisabled, BoundPodGone
      <4>2. PICK d \in Pods : CachedPod(p) = podCache[d]
        BY <1>1, <4>1 DEF CachedPod, PARecords
      <4>3. "disabled" \in UserEdits
        BY <4>1, <4>2 DEF EditedInv
      <4> QED
        BY <3>2, <4>3 DEF HandleDisable, Reconcile, paVars
    <3> QED
      BY <1>3, <3>1, <3>2
  <2>2. Starts(pa[p], paCache[p], worker[p], pa'[p], worker'[p])
    BY <1>1, <1>2, <2>1 DEF Starts
  <2> QED
    BY <1>1, <2>2, QuietMoves
<1>4. CASE HandleReleasing(p)
  <2>1. CASE paCache[p].since
    <3>1. /\ StartLoop(p, "release", paCache[p], paSynced[p]) /\ UNCHANGED pa
          /\ paCache[p].phase = "Releasing" /\ paCache[p].since = TRUE
      BY <1>1, <1>4, <2>1 DEF HandleReleasing, Reconcile, paVars, PARecords
    <3>2. Starts(pa[p], paCache[p], worker[p], pa'[p], worker'[p])
      BY <1>1, <1>2, <3>1 DEF Starts
    <3> QED
      BY <1>1, <3>2, QuietMoves
  <2>2. CASE ~paCache[p].since
    <3>1. PICK r : r = [pa[p] EXCEPT !.since = TRUE]
      OBVIOUS
    <3>2. r.phase = pa[p].phase /\ r.ip = pa[p].ip /\ r.ss = pa[p].ss /\ r.since = TRUE
      BY <1>1, <3>1 DEF PARecords
    <3>3. /\ StartLoop(p, "release", Decode(paCache[p], r), TRUE) /\ pa'[p] = r
          /\ paCache[p].phase = "Releasing" /\ paCache[p].since = FALSE
      BY <1>1, <1>4, <2>2, <3>1
      DEF HandleReleasing, Reconcile, WritePA, TypeInv, PAInv, PARecords
    <3>4. /\ worker'[p].pc = "release" /\ worker'[p].mem = Decode(paCache[p], r)
          /\ worker'[p].memOK = TRUE /\ worker'[p].i = 1 /\ worker'[p].to = "none"
          /\ worker'[p].clear = TRUE
      BY <1>2, <3>3
    <3>5. Starts(pa[p], paCache[p], worker[p], pa'[p], worker'[p])
      BY <1>1, <3>2, <3>3, <3>4 DEF Starts
    <3> QED
      BY <1>1, <3>5, QuietMoves
  <2> QED
    BY <2>1, <2>2
<1> QED
  BY <1>3, <1>4

\* The fields of a worker that goes on to the next SG, or to a patch.
LEMMA NextFields ==
  ASSUME TypeInv, NEW p \in PAs, worker[p].i \in SGs
  PROVE  /\ \A clear \in BOOLEAN : NextSG(p, clear) =>
              /\ worker'[p].pc = worker[p].pc /\ worker'[p].mem = worker[p].mem
              /\ worker'[p].memOK = worker[p].memOK /\ worker'[p].to = worker[p].to
              /\ worker'[p].i = worker[p].i + 1
              /\ clear = TRUE => worker'[p].clear = worker[p].clear
              /\ clear = FALSE => worker'[p].clear = FALSE
         /\ \A status : PatchNext(p, status) =>
              /\ worker'[p].pc = worker[p].pc /\ worker'[p].mem = worker[p].mem
              /\ worker'[p].memOK = worker[p].memOK /\ worker'[p].to = status
              /\ worker'[p].i = worker[p].i /\ worker'[p].clear = worker[p].clear
<1>1. worker[p] \in Workers
  BY FieldsOf
<1>2. ASSUME NEW clear \in BOOLEAN, NextSG(p, clear)
      PROVE  /\ worker'[p].pc = worker[p].pc /\ worker'[p].mem = worker[p].mem
             /\ worker'[p].memOK = worker[p].memOK /\ worker'[p].to = worker[p].to
             /\ worker'[p].i = worker[p].i + 1
             /\ clear = TRUE => worker'[p].clear = worker[p].clear
             /\ clear = FALSE => worker'[p].clear = FALSE
  <2>1. PICK w : w = [worker[p] EXCEPT !.i = @ + 1, !.clear = @ /\ clear]
    OBVIOUS
  <2>2. worker'[p] = w
    BY <1>2, <2>1 DEF NextSG, Goto, TypeInv, WorkerInv
  <2>3. w.clear = (worker[p].clear /\ clear)
    BY <1>1, <2>1 DEF Workers
  <2>4. worker[p].clear \in BOOLEAN
    BY <1>1 DEF Workers
  <2>5. clear = TRUE => w.clear = worker[p].clear
    BY <2>3, <2>4
  <2>6. clear = FALSE => w.clear = FALSE
    BY <2>3, <2>4
  <2> QED
    BY <1>1, <2>1, <2>2, <2>5, <2>6 DEF Workers
<1>3. ASSUME NEW status, PatchNext(p, status)
      PROVE  /\ worker'[p].pc = worker[p].pc /\ worker'[p].mem = worker[p].mem
             /\ worker'[p].memOK = worker[p].memOK /\ worker'[p].to = status
             /\ worker'[p].i = worker[p].i /\ worker'[p].clear = worker[p].clear
  <2>1. PICK w : w = [worker[p] EXCEPT !.to = status]
    OBVIOUS
  <2>2. worker'[p] = w
    BY <1>3, <2>1 DEF PatchNext, Goto, TypeInv, WorkerInv
  <2> QED
    BY <1>1, <2>1, <2>2 DEF Workers
<1> QED
  BY <1>2, <1>3

\* The steps that the three loops share.
LEMMA LoopMoves ==
  ASSUME TypeInv, ReservedInv, NEW p \in PAs,
         SkipSG(p) \/ Throttled(p) \/ PatchServerStatus(p)
  PROVE  WorkerMoves(p)
<1>1. ASSUME SkipSG(p) \/ Throttled(p) PROVE WorkerMoves(p)
  <2>1. PICK label \in {"bind", "disable", "release"}, clear \in BOOLEAN :
          /\ InLoop(p, label) /\ NextSG(p, clear)
          /\ \/ clear = TRUE /\ AtSG(p, label, Goal(label))
             \/ clear = FALSE /\ faults' # faults
    <3>1. CASE SkipSG(p)
      BY <3>1 DEF SkipSG, AtSG
    <3>2. CASE Throttled(p)
      <4>1. faults' # faults
        BY <3>2 DEF Throttled, Fault, TypeInv
      <4> QED
        BY <3>2, <4>1 DEF Throttled
    <3> QED
      BY <1>1, <3>1, <3>2
  <2>2. worker[p].i \in SGs /\ worker[p].to = "none" /\ worker[p].pc = label
    BY <2>1, InLoopType
  <2>3. UNCHANGED <<pa, paCache, cloudVars>>
    BY <1>1 DEF SkipSG, Throttled, paVars, cacheVars
  <2>4. PICK del \in [SGs -> SUBSET IPs] : (\A i \in SGs : del[i] = {}) /\ Calls(p, FALSE, del)
    BY <2>3, NoCall
  <2>5. Passes(pa[p], worker[p], backends[p], pa'[p], worker'[p], del, faults' = faults)
    BY <2>1, <2>2, <2>3, <2>4, NextFields DEF Passes, AtSG
  <2> QED
    BY <2>3, <2>4, <2>5 DEF WorkerMoves, Moves
<1>2. CASE PatchServerStatus(p)
  <2> DEFINE v == worker[p]
  <2>1. PICK r, dec, mem, clear, w :
           /\ r = [pa[p] EXCEPT !.ss[v.i] = v.to]
           /\ dec = Decode(v.mem, r)
           /\ mem = [dec EXCEPT !.ss[v.i] = v.to]
           /\ clear = (v.clear /\ v.to = Goal(v.pc))
           /\ w = [v EXCEPT !.mem = mem, !.memOK = TRUE, !.to = "none", !.i = @ + 1,
                            !.clear = clear]
    OBVIOUS
  <2>2. /\ pa'[p] = r /\ worker'[p] = w
        /\ UNCHANGED <<paCache, cloudVars>> /\ v.to # "none"
    BY <1>2, <2>1
    DEF PatchServerStatus, WritePA, Goto, TypeInv, PAInv, WorkerInv, cacheVars
  <2>3. /\ v \in Workers /\ v.mem \in PARecords /\ pa[p] \in PARecords
        /\ v.pc \in {"bind", "disable", "release"} /\ v.i \in SGs /\ v.to \in ServerStatus
    BY <2>2, WorkerSteps, FieldsOf DEF Consistent, Workers
  <2>4. /\ r.phase = pa[p].phase /\ r.ip = pa[p].ip /\ r.since = pa[p].since
        /\ \A i \in SGs : r.ss[i] = IF i = v.i THEN v.to ELSE pa[p].ss[i]
    BY <2>1, <2>3 DEF PARecords
  <2>5. /\ dec.ip = IF r.ip = Null THEN v.mem.ip ELSE r.ip
        /\ \A i \in SGs : dec.ss[i] = IF r.ss[i] = "" THEN v.mem.ss[i] ELSE r.ss[i]
    BY <2>1 DEF Decode
  <2>6. dec \in PARecords
    BY <2>1, <2>3, PAUpdates, DecodeType
  <2>7. /\ mem.ip = dec.ip
        /\ \A i \in SGs : mem.ss[i] = IF i = v.i THEN v.to ELSE dec.ss[i]
    BY <2>1, <2>3, <2>6 DEF PARecords
  <2>8. /\ w.pc = v.pc /\ w.mem = mem /\ w.memOK = TRUE /\ w.to = "none" /\ w.i = v.i + 1
        /\ w.clear = clear
    BY <2>1, <2>3 DEF Workers
  <2>9. w.clear = TRUE <=> (v.clear = TRUE /\ v.to = Goal(v.pc))
    BY <2>1, <2>3, <2>8 DEF Workers
  <2>10. /\ w.mem.ip = (IF r.ip = Null THEN v.mem.ip ELSE r.ip)
         /\ \A i \in SGs : w.mem.ss[i] = IF i = v.i THEN v.to
                                           ELSE IF r.ss[i] = "" THEN v.mem.ss[i] ELSE r.ss[i]
    <3>1. w.mem = mem
      BY <2>8
    <3>2. w.mem.ip = (IF r.ip = Null THEN v.mem.ip ELSE r.ip)
      BY <2>5, <2>7, <3>1
    <3>3. ASSUME NEW i \in SGs
          PROVE  w.mem.ss[i] = IF i = v.i THEN v.to
                                 ELSE IF r.ss[i] = "" THEN v.mem.ss[i] ELSE r.ss[i]
      BY <2>5, <2>7, <3>1
    <3> QED
      BY <3>2, <3>3
  <2>11. \A i \in SGs : w.mem.ss[i] = IF i = v.i THEN v.to
                              ELSE IF pa[p].ss[i] = "" THEN v.mem.ss[i] ELSE pa[p].ss[i]
    BY <2>4, <2>10
  <2> HIDE DEF v
  <2>12. v.to # "none"
    BY <2>2
  <2>13. Patches(pa[p], v, r, w)
    BY <2>3, <2>4, <2>8, <2>9, <2>10, <2>11, <2>12 DEF Patches
  <2> USE DEF v
  <2> QED
    BY <2>2, <2>13, QuietMoves
<1> QED
  BY <1>1, <1>2

\* The ends of the loops.
LEMMA EndMoves ==
  ASSUME TypeInv, NEW p \in PAs,
         \/ FinishBinding(p) \/ FinishDisable(p) \/ FinishReleasing(p)
  PROVE  WorkerMoves(p)
<1>1. pa[p] \in PARecords /\ worker[p] \in Workers /\ worker[p].mem \in PARecords
  BY FieldsOf
<1>2. CASE FinishBinding(p) \/ FinishDisable(p)
  <2>1. PICK label, phase :
          /\ \/ label = "bind" /\ phase = "Bound"
             \/ label = "disable" /\ phase = "Disabled"
          /\ EndLoop(p, label, phase)
    BY <1>2 DEF FinishBinding, FinishDisable
  <2>2. /\ worker[p].pc = label /\ worker[p].to = "none" /\ worker[p].i > NumSG
        /\ Goto(p, Idle) /\ UNCHANGED <<cacheVars, cloudVars>>
    BY <2>1 DEF EndLoop, LoopDone, At
  <2>3. CASE ~(worker[p].clear /\ CurrentPA(p))
    BY <2>1, <2>2, <2>3, GotoIdle DEF EndLoop
  <2>4. CASE worker[p].clear /\ CurrentPA(p)
    <3>1. PICK r : r = [pa[p] EXCEPT !.phase = phase, !.ss = worker[p].mem.ss]
      OBVIOUS
    <3>2. /\ r.phase = phase /\ r.ip = pa[p].ip /\ r.since = pa[p].since
          /\ r.ss = worker[p].mem.ss
      BY <1>1, <3>1 DEF PARecords
    <3>3. pa'[p] = r /\ worker'[p] = Idle
      BY <2>1, <2>2, <2>4, <3>1 DEF EndLoop, WritePA, Goto, TypeInv, PAInv, WorkerInv
    <3>4. worker[p].clear = TRUE /\ worker[p].memOK = TRUE
      BY <1>1, <2>4 DEF CurrentPA, Workers
    <3>5. Ends(pa[p], worker[p], pa'[p], worker'[p])
      BY <2>1, <2>2, <3>2, <3>3, <3>4 DEF Ends
    <3> QED
      BY <2>2, <3>5, QuietMoves DEF cacheVars
  <2> QED
    BY <2>3, <2>4
<1>3. CASE FinishReleasing(p)
  <2>1. /\ worker[p].pc = "release" /\ worker[p].to = "none" /\ worker[p].i > NumSG
        /\ UNCHANGED <<paVars, cacheVars, cloudVars>>
    BY <1>3 DEF FinishReleasing, LoopDone, At
  <2>2. CASE ~worker[p].clear
    <3>1. worker[p].clear = FALSE
      BY <1>1, <2>2 DEF Workers
    <3> QED
      BY <1>3, <2>1, <2>2, <3>1, GotoIdle DEF FinishReleasing
  <2>3. CASE worker[p].clear
    <3>1. PICK w : w = [worker[p] EXCEPT !.pc = "clearPodClaim"]
      OBVIOUS
    <3>2. worker'[p] = w /\ worker[p].clear = TRUE
      BY <1>1, <1>3, <2>3, <3>1 DEF FinishReleasing, Goto, TypeInv, WorkerInv, Workers
    <3>3. /\ w.pc = "clearPodClaim" /\ w.mem = worker[p].mem /\ w.memOK = worker[p].memOK
          /\ w.to = "none"
      BY <1>1, <2>1, <3>1 DEF Workers
    <3>4. PICK del \in [SGs -> SUBSET IPs] :
            (\A i \in SGs : del[i] = {}) /\ Calls(p, FALSE, del)
      BY <2>1, NoCall
    <3>5. GoesOn(pa[p], worker[p], backends[p], pa'[p], worker'[p], del, faults' = faults)
      BY <2>1, <3>2, <3>3, <3>4 DEF GoesOn, paVars
    <3> QED
      BY <2>1, <3>4, <3>5 DEF WorkerMoves, Moves, cacheVars
  <2> QED
    BY <2>2, <2>3
<1> QED
  BY <1>2, <1>3

\* The calls of the loops.
LEMMA CallMoves ==
  ASSUME TypeInv, NEW p \in PAs,
         \/ PollAdding(p) \/ AddServers(p) \/ PollRemoving(p) \/ RemoveServer(p)
         \/ ListAndRemove(p)
  PROVE  WorkerMoves(p)
<1>1. /\ worker[p] \in Workers /\ worker[p].mem \in PARecords
      /\ backends[p] \in [SGs -> SUBSET IPs]
  BY FieldsOf DEF TypeInv, CloudInv
<1>2. PICK label \in {"bind", "disable", "release"} : InLoop(p, label)
  BY DEF PollAdding, AddServers, PollRemoving, RemoveServer, ListAndRemove, AtSG
<1>3. worker[p].i \in SGs /\ worker[p].to = "none" /\ worker[p].pc = label
  BY <1>2, InLoopType
<1>4. UNCHANGED <<pa, paCache>>
  BY DEF PollAdding, AddServers, PollRemoving, RemoveServer, ListAndRemove, paVars, cacheVars
<1>5. CASE PollAdding(p)
  <2>1. PICK del \in [SGs -> SUBSET IPs] : (\A i \in SGs : del[i] = {}) /\ Calls(p, FALSE, del)
    BY <1>5, NoCall DEF PollAdding
  <2>2. Polls(pa[p], worker[p], backends[p], pa'[p], worker'[p], FALSE, del)
    BY <1>3, <1>4, <1>5, <2>1, NextFields DEF Polls, PollAdding, AtSG, InLoop, At, Registered
  <2> QED
    BY <1>4, <2>1, <2>2 DEF WorkerMoves, Moves
<1>6. CASE AddServers(p)
  <2>1. PICK add \in BOOLEAN, del \in [SGs -> SUBSET IPs] :
           /\ \A i \in SGs : del[i] = {}
           /\ add = FALSE => Registered(p)
           /\ Calls(p, add, del)
    BY <1>3, <1>6, NoCall, AddCall DEF AddServers
  <2>2. Polls(pa[p], worker[p], backends[p], pa'[p], worker'[p], add, del)
    BY <1>3, <1>4, <1>6, <2>1, NextFields DEF Polls, AddServers, AtSG, InLoop, At, Registered
  <2> QED
    BY <1>4, <2>1, <2>2 DEF WorkerMoves, Moves
<1>7. CASE PollRemoving(p)
  <2>1. PICK del \in [SGs -> SUBSET IPs] : (\A i \in SGs : del[i] = {}) /\ Calls(p, FALSE, del)
    BY <1>7, NoCall DEF PollRemoving
  <2>2. CASE Registered(p)
    <3>1. Passes(pa[p], worker[p], backends[p], pa'[p], worker'[p], del, faults' = faults)
      BY <1>3, <1>4, <1>7, <2>1, <2>2, NextFields DEF Passes, PollRemoving, Registered
    <3> QED
      BY <1>4, <2>1, <3>1 DEF WorkerMoves, Moves
  <2>3. CASE ~Registered(p)
    <3>1. Polls(pa[p], worker[p], backends[p], pa'[p], worker'[p], FALSE, del)
      BY <1>3, <1>4, <1>7, <2>1, <2>3, NextFields
      DEF Polls, PollRemoving, AtSG, InLoop, At, Registered
    <3> QED
      BY <1>4, <2>1, <3>1 DEF WorkerMoves, Moves
  <2> QED
    BY <2>2, <2>3
<1>8. CASE RemoveServer(p)
  <2>0. worker[p].pc = "disable"
    BY <1>8 DEF RemoveServer, AtSG, InLoop, At
  <2>1. CASE CloudRemove(p, JustHere(p, {worker[p].mem.ip})) /\ Registered(p)
             /\ PatchNext(p, "Removing")
    <3>1. PICK del : del = JustHere(p, {worker[p].mem.ip})
      OBVIOUS
    <3>2. worker[p].mem.ip \in IPs
      BY <1>1, <1>3, <2>1 DEF Registered
    <3>3. del \in [SGs -> SUBSET IPs]
      BY <3>1, <3>2, JustHereType
    <3>4. \A i \in SGs : del[i] = IF i = worker[p].i THEN {worker[p].mem.ip} ELSE {}
      BY <3>1 DEF JustHere
    <3>5. Calls(p, FALSE, del)
      BY <2>1, <3>1, <3>3, RemoveCall
    <3>6. /\ worker'[p].pc = worker[p].pc /\ worker'[p].mem = worker[p].mem
           /\ worker'[p].memOK = worker[p].memOK /\ worker'[p].i = worker[p].i
           /\ worker'[p].clear = worker[p].clear /\ worker'[p].to = "Removing"
      BY <1>3, <2>1, NextFields
    <3>7. Polls(pa[p], worker[p], backends[p], pa'[p], worker'[p], FALSE, del)
      BY <1>3, <1>4, <2>0, <2>1, <3>4, <3>6 DEF Polls, Registered
    <3> QED
      BY <1>4, <3>3, <3>5, <3>7 DEF WorkerMoves, Moves
  <2>2. CASE ~Registered(p) /\ PatchNext(p, "") /\ UNCHANGED cloudVars
    <3>1. PICK del \in [SGs -> SUBSET IPs] :
            (\A i \in SGs : del[i] = {}) /\ Calls(p, FALSE, del)
      BY <2>2, NoCall
    <3>2. /\ worker'[p].pc = worker[p].pc /\ worker'[p].mem = worker[p].mem
           /\ worker'[p].memOK = worker[p].memOK /\ worker'[p].i = worker[p].i
           /\ worker'[p].clear = worker[p].clear /\ worker'[p].to = ""
      BY <1>3, <2>2, NextFields
    <3>3. Polls(pa[p], worker[p], backends[p], pa'[p], worker'[p], FALSE, del)
      BY <1>3, <1>4, <2>0, <2>2, <3>1, <3>2 DEF Polls, Registered
    <3> QED
      BY <1>4, <3>1, <3>3 DEF WorkerMoves, Moves
  <2>3. CASE Goto(p, Idle) /\ UNCHANGED cloudVars
    BY <1>3, <1>8, <2>0, <2>3, GotoIdle DEF RemoveServer
  <2> QED
    BY <1>8, <2>1, <2>2, <2>3 DEF RemoveServer
<1>9. CASE ListAndRemove(p)
  <2>0. worker[p].pc = "release"
    BY <1>9 DEF ListAndRemove, AtSG, InLoop, At
  <2>1. CASE backends[p][worker[p].i] = {} /\ PatchNext(p, "") /\ UNCHANGED cloudVars
    <3>1. PICK del \in [SGs -> SUBSET IPs] :
            (\A i \in SGs : del[i] = {}) /\ Calls(p, FALSE, del)
      BY <2>1, NoCall
    <3>2. /\ worker'[p].pc = worker[p].pc /\ worker'[p].mem = worker[p].mem
           /\ worker'[p].memOK = worker[p].memOK /\ worker'[p].i = worker[p].i
           /\ worker'[p].clear = worker[p].clear /\ worker'[p].to = ""
      BY <1>3, <2>1, NextFields
    <3>3. Polls(pa[p], worker[p], backends[p], pa'[p], worker'[p], FALSE, del)
      BY <1>3, <1>4, <2>0, <2>1, <3>1, <3>2 DEF Polls
    <3> QED
      BY <1>4, <3>1, <3>3 DEF WorkerMoves, Moves
  <2>2. ASSUME backends[p][worker[p].i] # {}, NextSG(p, FALSE),
               NEW missed \in SUBSET backends[p][worker[p].i],
               CloudRemove(p, JustHere(p, backends[p][worker[p].i] \ missed))
        PROVE  WorkerMoves(p)
    <3>1. PICK del : del = JustHere(p, backends[p][worker[p].i] \ missed)
      OBVIOUS
    <3>2. del \in [SGs -> SUBSET IPs]
      BY <1>1, <1>3, <3>1, JustHereType
    <3>3. \A i \in SGs : i # worker[p].i => del[i] = {}
      BY <3>1 DEF JustHere
    <3>4. Calls(p, FALSE, del)
      BY <2>2, <3>1, <3>2, RemoveCall
    <3>5. Passes(pa[p], worker[p], backends[p], pa'[p], worker'[p], del, faults' = faults)
      BY <1>3, <1>4, <2>0, <2>2, <3>3, NextFields DEF Passes
    <3> QED
      BY <1>4, <3>2, <3>4, <3>5 DEF WorkerMoves, Moves
  <2> QED
    BY <1>9, <2>1, <2>2 DEF ListAndRemove
<1> QED
  BY <1>5, <1>6, <1>7, <1>8, <1>9

\* The fields of a worker that goes on with the release.
LEMMA LabelFields ==
  ASSUME TypeInv, NEW p \in PAs, NEW l,
         LET w == [worker[p] EXCEPT !.pc = l]
         IN  Goto(p, w) \/ \E d, r : worker' = [Overtaken(d, r) EXCEPT ![p] = w]
  PROVE  /\ worker'[p].pc = l /\ worker'[p].mem = worker[p].mem
         /\ worker'[p].memOK = worker[p].memOK /\ worker'[p].to = worker[p].to
<1>1. PICK w : w = [worker[p] EXCEPT !.pc = l]
  OBVIOUS
<1>2. worker'[p] = w
  BY <1>1 DEF Goto, Overtaken, TypeInv, WorkerInv
<1> QED
  BY <1>1, <1>2, FieldsOf DEF Workers

\* The steps of a release after its loop.
LEMMA ReleaseMoves ==
  ASSUME TypeInv, NEW p \in PAs,
         \/ ClearPodClaim(p) \/ ClearPodClaimAgain(p) \/ PatchPodClaimFails(p)
         \/ RemoveServers(p) \/ ClearSpec(p) \/ SetAvailable(p)
  PROVE  WorkerMoves(p)
<1>1. /\ worker[p] \in Workers /\ worker[p].mem \in PARecords /\ pa[p] \in PARecords
      /\ backends[p] \in [SGs -> SUBSET IPs] /\ UNCHANGED paCache
  BY FieldsOf
  DEF TypeInv, CloudInv, ClearPodClaim, ClearPodClaimAgain, PatchPodClaimFails,
      RemoveServers, ClearSpec, SetAvailable, ReadPodClaim, PatchPodClaim, cacheVars
<1>2. worker[p].to = "none"
  BY WorkerSteps
  DEF Consistent, ClearPodClaim, ClearPodClaimAgain, PatchPodClaimFails, RemoveServers,
      ClearSpec, SetAvailable, ReadPodClaim, PatchPodClaim, At
<1>3. CASE ClearPodClaim(p) \/ ClearPodClaimAgain(p) \/ PatchPodClaimFails(p)
  <2>1. PICK l :
          /\ \/ /\ worker[p].pc \in {"clearPodClaim", "patchPodClaim"}
                /\ l \in {"patchPodClaim", "removeServers"}
             \/ /\ worker[p].pc \in {"clearPodClaimAgain", "patchPodClaimAgain"}
                /\ l \in {"patchPodClaimAgain", "clearSpec"}
          /\ LET w == [worker[p] EXCEPT !.pc = l]
             IN  Goto(p, w) \/ \E d, r : worker' = [Overtaken(d, r) EXCEPT ![p] = w]
    <3>1. CASE PatchPodClaimFails(p)
      BY <1>1, <3>1 DEF PatchPodClaimFails, At, Workers
    <3>2. CASE ClearPodClaim(p)
      BY <3>2 DEF ClearPodClaim, ReadPodClaim, PatchPodClaim, At
    <3>3. CASE ClearPodClaimAgain(p)
      BY <3>3 DEF ClearPodClaimAgain, ReadPodClaim, PatchPodClaim, At
    <3> QED
      BY <1>3, <3>1, <3>2, <3>3
  <2>2. UNCHANGED <<paVars, cloudVars>>
    BY <1>3
    DEF ClearPodClaim, ClearPodClaimAgain, PatchPodClaimFails, ReadPodClaim, PatchPodClaim
  <2>3. PICK del \in [SGs -> SUBSET IPs] : (\A i \in SGs : del[i] = {}) /\ Calls(p, FALSE, del)
    BY <2>2, NoCall
  <2>4. /\ worker'[p].pc = l /\ worker'[p].mem = worker[p].mem
        /\ worker'[p].memOK = worker[p].memOK /\ worker'[p].to = "none"
    BY <1>2, <2>1, LabelFields
  <2>5. GoesOn(pa[p], worker[p], backends[p], pa'[p], worker'[p], del, faults' = faults)
    BY <2>1, <2>2, <2>3, <2>4 DEF GoesOn, paVars
  <2> QED
    BY <1>1, <2>3, <2>5 DEF WorkerMoves, Moves
<1>4. CASE RemoveServers(p)
  <2>1. PICK present, ip :
          present = {i \in SGs : ip \in backends[p][i]} /\ ip = worker[p].mem.ip
    OBVIOUS
  <2>2. PICK missed \in SUBSET present :
          /\ IF missed = {} THEN UNCHANGED faults ELSE Fault
          /\ CloudRemove(p, [i \in SGs |-> IF i \in present \ missed THEN {ip} ELSE {}])
    BY <1>4, <2>1 DEF RemoveServers
  <2>3. PICK del : del = [i \in SGs |-> IF i \in present \ missed THEN {ip} ELSE {}]
    OBVIOUS
  <2>4. del \in [SGs -> SUBSET IPs]
    BY <1>1, <2>1, <2>3
  <2>5. Calls(p, FALSE, del)
    BY <2>2, <2>3, <2>4, RemoveCall
  <2>6. (faults' = faults) => missed = {}
    BY <2>2 DEF Fault, TypeInv
  <2>7. ~(faults' = faults) => missed # {}
    BY <2>2
  <2>8. /\ worker'[p].pc = "clearPodClaimAgain" /\ worker'[p].mem = worker[p].mem
        /\ worker'[p].memOK = worker[p].memOK /\ worker'[p].to = "none"
    BY <1>2, <1>4, LabelFields DEF RemoveServers
  <2>9. worker[p].pc = "removeServers" /\ pa' = pa
    BY <1>4 DEF RemoveServers, At, paVars
  <2>10. (faults' = faults) => \A i \in SGs : ip \in backends[p][i] => del[i] = {ip}
    BY <2>1, <2>3, <2>6
  <2>11. ~(faults' = faults) => \E i \in SGs : backends[p][i] # {}
    BY <2>1, <2>7
  <2>12. GoesOn(pa[p], worker[p], backends[p], pa'[p], worker'[p], del, faults' = faults)
    BY <2>1, <2>8, <2>9, <2>10, <2>11 DEF GoesOn
  <2> QED
    BY <1>1, <2>4, <2>5, <2>12 DEF WorkerMoves, Moves
<1>5. CASE ClearSpec(p)
  <2>1. CASE ~CurrentPA(p)
    <3>1. worker[p].memOK = FALSE
      BY <1>1, <2>1 DEF CurrentPA, Workers
    <3> QED
      BY <1>2, <1>5, <2>1, <3>1, GotoIdle DEF ClearSpec, At
  <2>2. CASE CurrentPA(p)
    <3>1. PICK r : r = [pa[p] EXCEPT !.pod = Null, !.ip = Null, !.since = FALSE]
      OBVIOUS
    <3>2. /\ r.phase = pa[p].phase /\ r.ip = Null /\ r.ss = pa[p].ss /\ r.since = FALSE
      BY <1>1, <3>1 DEF PARecords
    <3>3. pa'[p] = r /\ worker[p].pc = "clearSpec" /\ UNCHANGED cloudVars
      BY <1>5, <2>2, <3>1 DEF ClearSpec, WritePA, At, TypeInv, PAInv
    <3>4. /\ worker'[p].pc = "setAvailable" /\ worker'[p].mem = worker[p].mem
          /\ worker'[p].memOK = worker[p].memOK /\ worker'[p].to = "none"
      BY <1>2, <1>5, <2>2, LabelFields DEF ClearSpec
    <3>5. Resets(pa[p], worker[p], pa'[p], worker'[p])
      BY <3>2, <3>3, <3>4 DEF Resets
    <3> QED
      BY <1>1, <3>3, <3>5, QuietMoves
  <2> QED
    BY <2>1, <2>2
<1>6. CASE SetAvailable(p)
  <2>1. PICK r : r = [pa[p] EXCEPT !.phase = "Available", !.ss = [i \in SGs |-> ""]]
    OBVIOUS
  <2>2. /\ r.phase = "Available" /\ r.ip = pa[p].ip /\ r.ss = [i \in SGs |-> ""]
        /\ r.since = pa[p].since
    BY <1>1, <2>1 DEF PARecords
  <2>3. pa'[p] = r /\ worker'[p] = Idle /\ worker[p].pc = "setAvailable" /\ UNCHANGED cloudVars
    BY <1>6, <2>1 DEF SetAvailable, WritePA, Goto, At, TypeInv, PAInv, WorkerInv
  <2>4. Resets(pa[p], worker[p], pa'[p], worker'[p])
    BY <2>2, <2>3 DEF Resets, Clean
  <2> QED
    BY <1>1, <2>3, <2>4, QuietMoves
<1> QED
  BY <1>3, <1>4, <1>5, <1>6

\* Every step, as PA p sees it.
LEMMA LocalSteps ==
  ASSUME TypeInv, ReservedInv, EditedInv, [Next]_vars, NEW p \in PAs
  PROVE  \/ WorkerMoves(p) /\ (WorkerStep(p) \/ WorkerFails(p))
         \/ Stays(p) \/ JobEnds(p)
<1>1. Keeps(worker[p], worker[p])
  BY DEF Keeps
<1>2. ASSUME WorkerStep(p) \/ WorkerFails(p)
      PROVE  WorkerMoves(p)
  <2>1. CASE Abort(p)
    <3>1. faults' # faults
      BY <2>1 DEF Abort, Fault, TypeInv
    <3> QED
      BY <2>1, <3>1, GotoIdle DEF Abort
  <2> QED
    BY <1>2, <2>1, ClaimMoves, ResumeMoves, TurnMoves, StartMoves, LoopMoves, EndMoves,
       CallMoves, ReleaseMoves
    DEF WorkerStep, WorkerFails
<1>3. ASSUME NEW q \in PAs, q # p, WorkerStep(q) \/ WorkerFails(q)
      PROVE  Stays(p)
  <2>1. p \in PAs \ {q}
    BY <1>3
  <2>2. UNCHANGED paCache
    BY <1>3, CachesStay DEF cacheVars
  <2>3. UNCHANGED pa \/ \E r : WritePA(q, r)
    <3>1. CASE \/ ClaimPod(q) \/ ResumeConfirmed(q) \/ ResumeClaim(q) \/ SkipSG(q)
               \/ HandleBinding(q) \/ PollAdding(q) \/ AddServers(q) \/ HandleDisable(q)
               \/ PollRemoving(q) \/ RemoveServer(q) \/ ListAndRemove(q) \/ FinishReleasing(q)
               \/ ClearPodClaim(q) \/ RemoveServers(q) \/ ClearPodClaimAgain(q)
               \/ Abort(q) \/ ClaimPodFails(q) \/ Throttled(q) \/ PatchPodClaimFails(q)
      BY <3>1
      DEF ClaimPod, ResumeConfirmed, ResumeClaim, SkipSG, HandleBinding, PollAdding, AddServers,
          HandleDisable, PollRemoving, RemoveServer, ListAndRemove, FinishReleasing,
          ClearPodClaim, RemoveServers, ClearPodClaimAgain, Abort, ClaimPodFails, Throttled,
          PatchPodClaimFails, ReadPodClaim, PatchPodClaim, paVars
    <3>2. CASE \/ \E d \in Pods : HandleAvailable(q, d)
               \/ RollBack(q) \/ SetBinding(q) \/ ResumeClear(q) \/ SetPodIP(q)
               \/ PatchServerStatus(q) \/ AbortBinding(q) \/ FinishBinding(q) \/ HandleBound(q)
               \/ ResumeClaimFails(q)
      BY <3>2
      DEF HandleAvailable, RollBack, SetBinding, ResumeClear, SetPodIP, PatchServerStatus,
          AbortBinding, FinishBinding, HandleBound, ResumeClaimFails, MovePhase, EndLoop, paVars
    <3>3. CASE \/ FinishDisable(q) \/ DisabledPodGone(q) \/ ReEnable(q) \/ HandleReleasing(q)
               \/ ClearSpec(q) \/ SetAvailable(q)
      BY <3>3
      DEF FinishDisable, DisabledPodGone, ReEnable, HandleReleasing, ClearSpec, SetAvailable,
          MovePhase, EndLoop, paVars
    <3> QED
      BY <1>3, <3>1, <3>2, <3>3 DEF WorkerStep, WorkerFails
  <2>4. \/ UNCHANGED worker
        \/ \E w : Goto(q, w)
        \/ \E d, r, w : worker' = [Overtaken(d, r) EXCEPT ![q] = w]
    <3>1. CASE ClaimPod(q) \/ ResumeClaim(q)
      BY <3>1 DEF ClaimPod, ResumeClaim, SetClaim
    <3>2. CASE ClearPodClaim(q) \/ ClearPodClaimAgain(q)
      BY <3>2 DEF ClearPodClaim, ClearPodClaimAgain, ReadPodClaim, PatchPodClaim
    <3>3. CASE (\E d \in Pods : HandleAvailable(q, d)) \/ SetPodIP(q) \/ ResumeConfirmed(q)
      BY <3>3 DEF HandleAvailable, SetPodIP, ResumeConfirmed
    <3>4. CASE \/ SkipSG(q) \/ PatchServerStatus(q) \/ HandleBinding(q) \/ PollAdding(q)
               \/ AddServers(q) \/ HandleDisable(q) \/ PollRemoving(q) \/ RemoveServer(q)
               \/ HandleReleasing(q) \/ ListAndRemove(q) \/ Throttled(q)
      BY <3>4
      DEF SkipSG, PatchServerStatus, HandleBinding, PollAdding, AddServers, HandleDisable,
          PollRemoving, RemoveServer, HandleReleasing, ListAndRemove, Throttled,
          NextSG, PatchNext, StartLoop
    <3>5. CASE \/ RollBack(q) \/ SetBinding(q) \/ ResumeClear(q) \/ AbortBinding(q)
               \/ FinishBinding(q) \/ HandleBound(q) \/ FinishDisable(q)
               \/ DisabledPodGone(q) \/ ReEnable(q) \/ FinishReleasing(q)
      BY <3>5
      DEF RollBack, SetBinding, ResumeClear, AbortBinding, FinishBinding, HandleBound,
          FinishDisable, DisabledPodGone, ReEnable, FinishReleasing, MovePhase, EndLoop
    <3>6. CASE \/ RemoveServers(q) \/ ClearSpec(q) \/ SetAvailable(q) \/ WorkerFails(q)
      BY <3>6
      DEF RemoveServers, ClearSpec, SetAvailable, WorkerFails, Abort, ClaimPodFails,
          ResumeClaimFails, Throttled, PatchPodClaimFails, NextSG
    <3> QED
      BY <1>3, <3>1, <3>2, <3>3, <3>4, <3>5, <3>6 DEF WorkerStep
  <2>5. \/ UNCHANGED cloudVars
        \/ \E i, ip : CloudAdd(q, i, ip)
        \/ \E gone : CloudRemove(q, gone)
    BY <1>3
    DEF WorkerStep, WorkerFails, HandleAvailable, ClaimPod, RollBack, SetBinding,
        ResumeConfirmed, ResumeClaim, ResumeClear, SetPodIP, SkipSG, PatchServerStatus,
        HandleBinding, AbortBinding, PollAdding, AddServers, FinishBinding, HandleBound,
        HandleDisable, PollRemoving, RemoveServer, FinishDisable, DisabledPodGone, ReEnable,
        HandleReleasing, ListAndRemove, FinishReleasing, ClearPodClaim, RemoveServers,
        ClearPodClaimAgain, ClearSpec, SetAvailable, Abort, ClaimPodFails, ResumeClaimFails,
        Throttled, PatchPodClaimFails, MovePhase, EndLoop, ReadPodClaim, PatchPodClaim
  <2> QED
    BY <2>1, <2>2, <2>3, <2>4, <2>5, OthersStay
<1>4. ASSUME NEW q \in PAs, CloudStep(q) \/ CloudFails(q)
      PROVE  Stays(p) \/ JobEnds(p)
  <2>1. PICK i \in SGs : \E j \in jobs[q][i] : JobDone(q, i, j) \/ JobFails(q, i, j)
    BY <1>4 DEF CloudStep, CloudFails
  <2>2. UNCHANGED <<pa, paCache, worker>>
    BY <2>1 DEF JobDone, JobFails, paVars, cacheVars
  <2>3. CASE q = p
    BY <2>1, <2>2, <2>3 DEF JobEnds
  <2>4. CASE q # p
    <3>1. backends'[p] = backends[p] /\ jobs'[p] = jobs[p]
      BY <2>1, <2>4 DEF JobDone, JobFails, TypeInv, CloudInv
    <3> QED
      BY <1>1, <2>2, <3>1 DEF Stays
  <2> QED
    BY <2>3, <2>4
<1>5. ASSUME NEW q \in PAs, SyncPA(q)
      PROVE  Stays(p)
  BY <1>1, <1>5 DEF SyncPA, Stays, TypeInv, PAInv, cloudVars
<1>6. ASSUME NEW d \in Pods, PodStep(d) \/ SyncPod(d)
      PROVE  Stays(p)
  <2>1. UNCHANGED <<pa, paCache, cloudVars>>
    BY <1>6
    DEF PodStep, SyncPod, PodCreate, PodGetsIP, PodDelete, EditDisabled, EditPool, PodChange,
        paVars, cacheVars
  <2>2. UNCHANGED worker \/ \E r : worker' = Overtaken(d, r)
    BY <1>6
    DEF PodStep, SyncPod, PodCreate, PodGetsIP, PodDelete, EditDisabled, EditPool, PodChange
  <2>3. worker'[p] \in {worker[p], [worker[p] EXCEPT !.podOK = FALSE]}
    BY <2>2 DEF Overtaken
  <2> QED
    BY <2>1, <2>3, KeepsSelf DEF Stays, cloudVars
<1>7. CASE UNCHANGED vars
  BY <1>1, <1>7 DEF vars, Stays
<1> QED
  BY <1>2, <1>3, <1>4, <1>5, <1>6, <1>7 DEF Next

-----------------------------------------------------------------------------
(* Where the address is.                                                    *)

\* The address of a PA does not change while it serves a Pod: an old copy, in the
\* cache or in the worker, has the same one.
SameAddress(r, c, w) ==
    /\ c.phase \in {"Binding", "Bound"} => c.ip = r.ip
    /\ w.pc \in {"bind", "disable"} => w.mem.ip = r.ip
    /\ w.pc = "bind" => c.ip = r.ip

\* Every PA.
AddressInv == \A p \in PAs : SameAddress(pa[p], paCache[p], worker[p])

\* Init.
LEMMA InitAddress == Init => AddressInv
<1> SUFFICES ASSUME Init, NEW p \in PAs PROVE SameAddress(pa[p], paCache[p], worker[p])
  BY DEF AddressInv
<1>1. pa[p] = EmptyPA /\ paCache[p] = EmptyPA /\ worker[p] = Idle
  BY DEF Init
<1>2. EmptyPA.phase = "Available" /\ Idle.pc = "idle"
  BY DEF EmptyPA, Idle
<1> QED
  BY <1>1, <1>2 DEF SameAddress

\* A step of the worker either meets no fault, or does.
LEMMA FaultOrNot ==
  ASSUME NEW p \in PAs, WorkerMoves(p)
  PROVE  /\ paCache'[p] = paCache[p]
         /\ \E add \in BOOLEAN, del \in [SGs -> SUBSET IPs], ok \in BOOLEAN :
              /\ Moves(pa[p], paCache[p], worker[p], backends[p], pa'[p], worker'[p],
                       add, del, ok)
              /\ Calls(p, add, del)
              /\ ok = TRUE <=> faults' = faults
<1>1. PICK add \in BOOLEAN, del \in [SGs -> SUBSET IPs] :
        /\ Moves(pa[p], paCache[p], worker[p], backends[p], pa'[p], worker'[p],
                 add, del, faults' = faults)
        /\ Calls(p, add, del)
  BY DEF WorkerMoves
<1>2. CASE faults' = faults
  <2>1. Moves(pa[p], paCache[p], worker[p], backends[p], pa'[p], worker'[p],
              add, del, TRUE)
    BY <1>1, <1>2 DEF Moves, Passes, GoesOn, Stops
  <2> QED
    BY <1>1, <1>2, <2>1 DEF WorkerMoves
<1>3. CASE faults' # faults
  <2>1. Moves(pa[p], paCache[p], worker[p], backends[p], pa'[p], worker'[p],
              add, del, FALSE)
    BY <1>1, <1>3 DEF Moves, Passes, GoesOn, Stops
  <2> QED
    BY <1>1, <1>3, <2>1 DEF WorkerMoves
<1> QED
  BY <1>2, <1>3

\* A step of the worker.
LEMMA AddressMoves ==
  ASSUME NEW r, NEW c, NEW w, NEW b, NEW r2, NEW w2, NEW add \in BOOLEAN, NEW del,
         NEW ok \in BOOLEAN,
         Behind(r, c), Releases(r, c, w),
         SameAddress(r, c, w), Moves(r, c, w, b, r2, w2, add, del, ok)
  PROVE  SameAddress(r2, c, w2)
<1>1. Idle.pc = "idle"
  BY DEF Idle
<1>2. CASE Passes(r, w, b, r2, w2, del, ok)
  BY <1>2 DEF Passes, SameAddress
<1>3. CASE Polls(r, w, b, r2, w2, add, del)
  BY <1>3 DEF Polls, SameAddress
<1>4. CASE GoesOn(r, w, b, r2, w2, del, ok)
  BY <1>4 DEF GoesOn, SameAddress
<1>5. CASE Claiming(r, c, w, r2, w2)
  BY <1>5 DEF Claiming, SameAddress, Behind, Early
<1>6. CASE Starts(r, c, w, r2, w2)
  BY <1>6 DEF Starts, SameAddress
<1>7. CASE Patches(r, w, r2, w2)
  BY <1>7 DEF Patches, SameAddress
<1>8. CASE Stops(r, w, r2, w2, ok) \/ TurnsBinding(r, w, r2, w2)
  BY <1>1, <1>8 DEF Stops, TurnsBinding, SameAddress
<1>9. CASE Turns(r, c, w, r2, w2)
  BY <1>9 DEF Turns, Keeps, SameAddress
<1>10. CASE Ends(r, w, r2, w2)
  BY <1>1, <1>10 DEF Ends, SameAddress
<1>11. CASE Resets(r, w, r2, w2)
  BY <1>1, <1>11 DEF Resets, SameAddress, Releases, Closing
<1> QED
  BY <1>2, <1>3, <1>4, <1>5, <1>6, <1>7, <1>8, <1>9, <1>10, <1>11 DEF Moves

\* Every step.
LEMMA AddressStep ==
  ASSUME TypeInv, ReservedInv, EditedInv, AddressInv, [Next]_vars
  PROVE  AddressInv'
<1> SUFFICES ASSUME NEW p \in PAs PROVE SameAddress(pa'[p], paCache'[p], worker'[p])
  BY DEF AddressInv
<1>1. /\ SameAddress(pa[p], paCache[p], worker[p]) /\ Behind(pa[p], paCache[p])
      /\ Releases(pa[p], paCache[p], worker[p])
  BY DEF AddressInv, ReservedInv, Reserved, Copied, Working
<1>2. CASE WorkerMoves(p)
  <2>1. PICK add \in BOOLEAN, del \in [SGs -> SUBSET IPs], ok \in BOOLEAN :
          Moves(pa[p], paCache[p], worker[p], backends[p], pa'[p], worker'[p], add, del, ok)
    BY <1>2, FaultOrNot
  <2>2. SameAddress(pa'[p], paCache[p], worker'[p])
    BY <1>1, <2>1, AddressMoves
  <2> QED
    BY <1>2, <2>2 DEF WorkerMoves
<1>3. CASE Stays(p)
  BY <1>1, <1>3 DEF Stays, Keeps, SameAddress
<1>4. CASE JobEnds(p)
  BY <1>1, <1>4 DEF JobEnds
<1> QED
  BY <1>2, <1>3, <1>4, LocalSteps

-----------------------------------------------------------------------------
(* What is left when a PA is given back, where a cloud call takes effect     *)
(* before it returns.                                                        *)

\* No SG has an address.
Emptied(b) == \A i \in SGs : b[i] = {}

\* What the cloud makes of a call.
After(w, b, add, del, b2) ==
    \A i \in SGs :
        b2[i] = (b[i] \cup (IF add = TRUE /\ i = w.i THEN {w.mem.ip} ELSE {})) \ del[i]

\* The release is past the last call.
PastCalls == {"clearPodClaimAgain", "patchPodClaimAgain", "clearSpec", "setAvailable"}

\* The release is before it.
BeforeCalls == {"release", "clearPodClaim", "patchPodClaim", "removeServers"}

\* The SGs hold no address but the one of the PA; the copies that a release reads
\* it from agree, or there is nothing to remove.
Held(r, c, w, b) ==
    /\ \A i \in SGs : b[i] \subseteq {r.ip}
    /\ r.phase = "Available" \/ w.pc \in PastCalls => Emptied(b)
    /\ c.phase \in {"Releasing", "Disabled"} => c.ip = r.ip \/ Emptied(b)
    /\ w.pc \in BeforeCalls => w.mem.ip = r.ip \/ Emptied(b)

\* A step of the worker.  The last call may fail if nothing is left to remove.
LEMMA HeldMoves ==
  ASSUME NEW r, NEW c, NEW w, NEW b, NEW r2, NEW w2, NEW b2,
         NEW add \in BOOLEAN, NEW del, NEW ok \in BOOLEAN,
         SameAddress(r, c, w), Behind(r, c),
         Claims(r, c, w), Releases(r, c, w),
         w.pc = "bind" => r.phase \in {"Binding", "Bound", "Releasing"},
         ok \/ (w.pc = "removeServers" => Emptied(b)),
         Held(r, c, w, b), Moves(r, c, w, b, r2, w2, add, del, ok), After(w, b, add, del, b2)
  PROVE  Held(r2, c, w2, b2)
<1>1. add = FALSE => /\ \A i \in SGs : b2[i] \subseteq b[i]
                     /\ Emptied(b) => Emptied(b2)
  BY DEF After, Emptied
<1>2. Idle.pc = "idle"
  BY DEF Idle
<1>3. CASE Passes(r, w, b, r2, w2, del, ok) /\ add = FALSE
  BY <1>1, <1>3 DEF Passes, Held, PastCalls, BeforeCalls
<1>4. CASE Polls(r, w, b, r2, w2, add, del)
  <2>1. CASE add = FALSE
    BY <1>1, <1>4, <2>1 DEF Polls, Held, PastCalls, BeforeCalls
  <2>2. CASE add = TRUE
    <3>1. /\ w.pc = "bind" /\ w2.pc = "bind" /\ r2 = r
          /\ w.mem.ip = r.ip /\ c.ip = r.ip /\ r.phase # "Available"
      BY <1>4, <2>2 DEF Polls, SameAddress
    <3>2. \A i \in SGs : b2[i] \subseteq {r.ip}
      BY <3>1 DEF After, Held
    <3> QED
      BY <3>1, <3>2 DEF Held, PastCalls, BeforeCalls
  <2> QED
    BY <2>1, <2>2
<1>5. CASE GoesOn(r, w, b, r2, w2, del, ok) /\ add = FALSE
  <2>1. w.pc = "removeServers" => Emptied(b2)
    <3>1. CASE Emptied(b)
      BY <1>1, <1>5, <3>1
    <3>2. CASE ~Emptied(b) /\ w.pc = "removeServers"
      <4>1. /\ \A i \in SGs : w.mem.ip \in b[i] => del[i] = {w.mem.ip}
            /\ w.mem.ip = r.ip
        BY <1>5, <3>2 DEF GoesOn, Held, BeforeCalls, Emptied
      <4> QED
        BY <1>5, <4>1 DEF After, Emptied, Held
    <3> QED
      BY <3>1, <3>2
  <2> QED
    BY <1>1, <1>5, <2>1 DEF GoesOn, Held, PastCalls, BeforeCalls
<1>6. CASE add = FALSE /\ Claiming(r, c, w, r2, w2)
  BY <1>1, <1>6 DEF Claiming, Held, PastCalls, BeforeCalls, Early, Emptied, Behind
<1>7. CASE add = FALSE /\ (Stops(r, w, r2, w2, ok) \/ TurnsBinding(r, w, r2, w2))
  BY <1>1, <1>2, <1>7 DEF Stops, TurnsBinding, Held, PastCalls, BeforeCalls
<1>8. CASE add = FALSE /\ Turns(r, c, w, r2, w2)
  BY <1>1, <1>8 DEF Turns, Keeps, Held, PastCalls, BeforeCalls
<1>9. CASE add = FALSE /\ Starts(r, c, w, r2, w2)
  <2>1. Decode(c, r2).ip = IF r2.ip = Null THEN c.ip ELSE r2.ip
    BY DEF Decode
  <2>2. w2.pc = "release" => w2.mem.ip \in {c.ip, r.ip}
    BY <1>9, <2>1 DEF Starts
  <2> QED
    BY <1>1, <1>9, <2>2 DEF Starts, Held, PastCalls, BeforeCalls
<1>10. CASE add = FALSE /\ Patches(r, w, r2, w2)
  BY <1>1, <1>10 DEF Patches, Held, PastCalls, BeforeCalls
<1>11. CASE add = FALSE /\ Ends(r, w, r2, w2)
  BY <1>1, <1>2, <1>11 DEF Ends, Held, PastCalls, BeforeCalls
<1>12. CASE add = FALSE /\ Resets(r, w, r2, w2)
  BY <1>1, <1>2, <1>12 DEF Resets, Held, PastCalls, BeforeCalls, Emptied
<1> QED
  BY <1>3, <1>4, <1>5, <1>6, <1>7, <1>8, <1>9, <1>10, <1>11, <1>12 DEF Moves

-----------------------------------------------------------------------------
(* What the server statuses say of the SGs as long as no fault happens.      *)

\* The version v of a PA promises nothing that is not there.
Serves(v, b) == \A i \in SGs : v.ss[i] \in {"Adding", "Bound"} => b[i] # {}

\* An SG that is not empty has a status, or is about to get one.
Tracked(r, w, b) ==
    \A i \in SGs : b[i] # {} =>
        r.ss[i] # "" \/ (w.pc = "bind" /\ w.to = "Adding" /\ i = w.i)

\* While a PA is made Bound, every copy of a status that promises a backend is true.
Promises(r, c, w, b) ==
    /\ r.phase = "Binding" \/ c.phase = "Binding" \/ w.pc = "bind" => Serves(r, b)
    /\ c.phase = "Binding" => Serves(c, b)
    /\ w.pc = "bind" =>
         Serves(w.mem, b) /\ w.to # "" /\ (w.to # "none" => b[w.i] # {})

\* A PA that is Bound while a copy of it is Binding has a status for every SG.
Complete(r, c, w) ==
    /\ r.phase = "Bound" /\ (w.pc = "bind" \/ c.phase = "Binding") =>
         \A i \in SGs : r.ss[i] # ""
    /\ w.pc = "bind" /\ c.phase = "Bound" => \A i \in SGs : c.ss[i] # ""
    /\ w.pc = "bind" /\ w.clear = TRUE => \A j \in SGs : j < w.i => w.mem.ss[j] # ""

\* An empty status in a copy of a Bound PA is true.
BoundCopy(r, c, b) ==
    c.phase = "Bound" => \A i \in SGs : c.ss[i] = "" => r.ss[i] = "" /\ b[i] = {}

\* An empty status in the hands of a loop that removes backends is true.
Removes(r, w, b) ==
    w.pc \in {"disable", "release"} =>
        /\ \A j \in SGs : w.mem.ss[j] = "" => b[j] = {} /\ (w.pc = "disable" => r.ss[j] = "")
        /\ w.to # "none" => b[w.i] = {}
        /\ w.to = "Removing" => r.ss[w.i] # ""
        /\ w.clear = TRUE =>
             \A j \in SGs : j < w.i => b[j] = {} /\ (w.pc = "disable" => w.mem.ss[j] = "")

\* A Disabled PA has nothing left.
Off(r, b) == r.phase = "Disabled" => Clean(r) /\ Emptied(b)

\* A release that has begun is the only one, and goes on to the end.
Cycle(r, c, w) ==
    /\ r.since = TRUE /\ w.pc \notin Closing =>
         w.pc = "idle" /\ r.phase = "Releasing" /\ c.phase = "Releasing"
    /\ w.pc \in Closing =>
         /\ r.phase = "Releasing" => c.phase = "Releasing"
         /\ r.since = TRUE /\ r.phase # "Releasing" =>
              w.memOK = TRUE /\ (w.pc = "release" => w.clear = TRUE)
         /\ w.pc = "setAvailable" => r.since = FALSE

\* An empty status in a copy that a release may start from is true.
CycleCopy(c, w, b) ==
    c.phase = "Releasing" /\ c.since = TRUE =>
        /\ w.pc \in Closing \cup {"idle"}
        /\ \A i \in SGs : c.ss[i] = "" => b[i] = {}

\* A release whose loop is over has nothing left to remove.
Last(w, b) ==
    w.pc \in {"clearPodClaim", "patchPodClaim", "removeServers"} => Emptied(b)

\* All of it.
Track(r, c, w, b) ==
    /\ Tracked(r, w, b) /\ Promises(r, c, w, b) /\ Complete(r, c, w) /\ BoundCopy(r, c, b)
    /\ Removes(r, w, b) /\ Off(r, b) /\ Cycle(r, c, w) /\ CycleCopy(c, w, b) /\ Last(w, b)

\* What is known of a PA, its copy, its worker and its SGs before a step.
Known(p, r, c, w, b) ==
    /\ Copied(p, r, c) /\ Working(p, r, c, w) /\ SameAddress(r, c, w)
    /\ Held(r, c, w, b) /\ Track(r, c, w, b)
    /\ w.i \in 1..(NumSG + 1) /\ r.since \in BOOLEAN /\ w.clear \in BOOLEAN
    /\ w.to = "none" \/ w.pc \in {"bind", "disable", "release"}

\* The worker that starts afresh.  (Then one lemma for each part of Track.)
LEMMA IdleFields == Idle.pc = "idle" /\ Idle.to = "none" /\ Idle.i = 1 /\ Idle.clear = TRUE
BY DEF Idle

\* What a step does to the SGs: nothing is added but by a binding worker, and nothing
\* removed but by a worker that removes.
Changes(w, b, w2, b2) ==
    \A i \in SGs :
        /\ b[i] = {} /\ b2[i] # {} =>
             w.pc = "bind" /\ w2.pc = "bind" /\ w2.to = "Adding" /\ i = w.i /\ w2.i = w.i
        /\ b[i] # {} /\ b2[i] = {} =>
             w.pc = "removeServers" \/ (w.pc = w2.pc /\ w.pc \in {"disable", "release"})

\* Every step changes the SGs like that.
LEMMA AfterCall ==
  ASSUME NEW r, NEW c, NEW w, NEW b, NEW r2, NEW w2, NEW b2, NEW add \in BOOLEAN, NEW del,
         NEW ok \in BOOLEAN, Moves(r, c, w, b, r2, w2, add, del, ok),
         After(w, b, add, del, b2)
  PROVE  Changes(w, b, w2, b2)
<1> USE DEF Changes
<1>1. CASE Polls(r, w, b, r2, w2, add, del)
  <2>1. /\ add = TRUE => w.pc = "bind" /\ w2.pc = "bind" /\ w2.to = "Adding" /\ w2.i = w.i
        /\ w.pc = w2.pc
        /\ \A i \in SGs : del[i] # {} => w.pc = "disable"
    BY <1>1 DEF Polls
  <2> QED
    BY <2>1 DEF After
<1>2. CASE Passes(r, w, b, r2, w2, del, ok) /\ add = FALSE
  <2>1. w.pc = w2.pc /\ \A i \in SGs : del[i] # {} => w.pc = "release"
    BY <1>2 DEF Passes
  <2> QED
    BY <1>2, <2>1 DEF After
<1>3. CASE GoesOn(r, w, b, r2, w2, del, ok) /\ add = FALSE
  <2>1. \A i \in SGs : del[i] # {} => w.pc = "removeServers"
    BY <1>3 DEF GoesOn
  <2> QED
    BY <1>3, <2>1 DEF After
<1>4. CASE add = FALSE /\ \A i \in SGs : del[i] = {}
  BY <1>4 DEF After
<1> QED
  BY <1>1, <1>2, <1>3, <1>4 DEF Moves

\* The SGs and the PA agree.
LEMMA TrackedMoves ==
  ASSUME NEW p, NEW r, NEW c, NEW w, NEW b, NEW r2, NEW w2, NEW b2,
         NEW add \in BOOLEAN, NEW del,
         Known(p, r, c, w, b),
         Moves(r, c, w, b, r2, w2, add, del, TRUE), After(w, b, add, del, b2)
  PROVE  Tracked(r2, w2, b2)
<1> SUFFICES ASSUME NEW i \in SGs, b2[i] # {}
             PROVE  r2.ss[i] # "" \/ (w2.pc = "bind" /\ w2.to = "Adding" /\ i = w2.i)
  BY DEF Tracked
<1>1. CASE b[i] = {}
  <2>1. Changes(w, b, w2, b2)
    BY AfterCall
  <2> QED
    BY <1>1, <2>1 DEF Changes
<1>2. CASE b[i] # {}
  <2>1. r.ss[i] # "" \/ (w.pc = "bind" /\ w.to = "Adding" /\ i = w.i)
    BY <1>2 DEF Known, Track, Tracked
  <2>2. CASE Passes(r, w, b, r2, w2, del, TRUE) \/ GoesOn(r, w, b, r2, w2, del, TRUE)
    BY <2>1, <2>2 DEF Passes, GoesOn, Known
  <2>3. CASE Polls(r, w, b, r2, w2, add, del)
    BY <2>1, <2>3 DEF Polls
  <2>4. CASE Stops(r, w, r2, w2, TRUE)
    BY <2>1, <2>4 DEF Stops
  <2>5. CASE Claiming(r, c, w, r2, w2)
    BY <2>1, <2>5 DEF Claiming, KeepsStatus, Early
  <2>6. CASE TurnsBinding(r, w, r2, w2)
    BY <2>1, <2>6 DEF TurnsBinding, KeepsStatus
  <2>7. CASE Turns(r, c, w, r2, w2)
    BY <2>1, <2>7 DEF Turns, KeepsStatus
  <2>8. CASE Starts(r, c, w, r2, w2)
    BY <2>1, <2>8 DEF Starts
  <2>9. CASE Patches(r, w, r2, w2)
    <3>1. CASE i = w.i
      <4>1. w.to # ""
        BY <1>2, <2>9, <3>1 DEF Patches, Known, Track, Promises, Removes
      <4> QED
        BY <2>9, <3>1, <4>1 DEF Patches
    <3>2. CASE i # w.i
      BY <2>1, <2>9, <3>2 DEF Patches
    <3> QED
      BY <3>1, <3>2
  <2>10. CASE Ends(r, w, r2, w2)
    <3>1. i < w.i /\ w.clear = TRUE
      BY <2>10, ConstantsAssumption DEF Ends, Known, SGs
    <3>2. w.mem.ss[i] # ""
      BY <1>2, <2>10, <3>1 DEF Ends, Known, Track, Complete, Removes
    <3> QED
      BY <2>10, <3>2 DEF Ends
  <2>11. CASE Resets(r, w, r2, w2)
    <3>1. w.pc \in PastCalls => b[i] = {}
      BY DEF Known, Held, Emptied
    <3> QED
      BY <1>2, <2>11, <3>1 DEF Resets, PastCalls
  <2> QED
    BY <2>2, <2>3, <2>4, <2>5, <2>6, <2>7, <2>8, <2>9, <2>10, <2>11 DEF Moves
<1> QED
  BY <1>1, <1>2

\* While a PA is made Bound its promises are kept.
LEMMA PromisesMoves ==
  ASSUME NEW p, NEW r, NEW c, NEW w, NEW b, NEW r2, NEW w2, NEW b2,
         NEW add \in BOOLEAN, NEW del,
         Known(p, r, c, w, b),
         Moves(r, c, w, b, r2, w2, add, del, TRUE), After(w, b, add, del, b2)
  PROVE  Promises(r2, c, w2, b2)
<1>1. ASSUME r.phase = "Binding" \/ c.phase = "Binding" \/ w.pc = "bind"
      PROVE  \A i \in SGs : b[i] # {} => b2[i] # {}
  <2>1. w.pc \notin {"disable", "release", "removeServers"}
    BY <1>1 DEF Known, Working, Disables, Releases, Closing
  <2>2. Changes(w, b, w2, b2)
    BY AfterCall
  <2> QED
    BY <2>1, <2>2 DEF Changes
<1>2. /\ r.phase = "Binding" \/ c.phase = "Binding" \/ w.pc = "bind" => Serves(r, b)
      /\ c.phase = "Binding" => Serves(c, b)
      /\ w.pc = "bind" =>
           Serves(w.mem, b) /\ w.to # "" /\ (w.to # "none" => b[w.i] # {})
  BY DEF Known, Track, Promises
<1>3. ASSUME r2.phase = "Binding" \/ c.phase = "Binding" \/ w2.pc = "bind"
      PROVE  Serves(r2, b2)
  <2>1. CASE Passes(r, w, b, r2, w2, del, TRUE) \/ Polls(r, w, b, r2, w2, add, del)
    <3>1. r2 = r /\ w2.pc = w.pc
      BY <2>1 DEF Passes, Polls
    <3> QED
      BY <1>1, <1>2, <1>3, <3>1 DEF Serves
  <2>2. CASE GoesOn(r, w, b, r2, w2, del, TRUE) \/ Stops(r, w, r2, w2, TRUE)
    <3>1. r2 = r /\ w2.pc # "bind"
      BY <2>2, IdleFields DEF GoesOn, Stops
    <3> QED
      BY <1>1, <1>2, <1>3, <3>1 DEF Serves
  <2>3. CASE Claiming(r, c, w, r2, w2)
    <3>1. r2.ss = r.ss /\ r2.phase = r.phase /\ w2.pc # "bind"
      BY <2>3 DEF Claiming, KeepsStatus, Early
    <3> QED
      BY <1>1, <1>2, <1>3, <3>1 DEF Serves
  <2>4. CASE TurnsBinding(r, w, r2, w2)
    BY <2>4 DEF TurnsBinding, KeepsStatus, Known, Copied, Shaped, Clean, Serves
  <2>5. CASE Turns(r, c, w, r2, w2)
    <3>1. CASE r.phase = "Disabled"
      BY <2>5, <3>1 DEF Turns, KeepsStatus, Known, Track, Off, Clean, Serves
    <3>2. CASE r.phase # "Disabled"
      <4>1. r.phase = "Binding" /\ r2.ss = r.ss
        BY <1>3, <2>5, <3>2 DEF Turns, KeepsStatus, Keeps
      <4> QED
        BY <1>1, <1>2, <4>1 DEF Serves
    <3> QED
      BY <3>1, <3>2
  <2>6. CASE Starts(r, c, w, r2, w2)
    <3>1. r2.ss = r.ss /\ r2.phase = r.phase /\ (w2.pc = "bind" => c.phase = "Binding")
      BY <2>6 DEF Starts
    <3> QED
      BY <1>1, <1>2, <1>3, <3>1 DEF Serves
  <2>7. CASE Patches(r, w, r2, w2)
    <3>1. w.pc = "bind"
      BY <1>3, <2>7 DEF Patches, Known, Working, Disables, Releases, Closing
    <3>2. b[w.i] # {} /\ \A i \in SGs : i # w.i => r2.ss[i] = r.ss[i]
      BY <1>2, <2>7, <3>1 DEF Patches
    <3> QED
      BY <1>1, <1>2, <3>1, <3>2 DEF Serves
  <2>8. CASE Ends(r, w, r2, w2)
    <3>1. w.pc = "bind" /\ r2.ss = w.mem.ss
      BY <1>3, <2>8, IdleFields DEF Ends, Known, Working, Disables
    <3> QED
      BY <1>1, <1>2, <3>1 DEF Serves
  <2>9. CASE Resets(r, w, r2, w2)
    BY <1>3, <2>9, IdleFields DEF Resets, Known, Working, Releases, Closing
  <2> QED
    BY <2>1, <2>2, <2>3, <2>4, <2>5, <2>6, <2>7, <2>8, <2>9 DEF Moves
<1>4. c.phase = "Binding" => Serves(c, b2)
  BY <1>1, <1>2 DEF Serves
<1>5. ASSUME w2.pc = "bind"
      PROVE  Serves(w2.mem, b2) /\ w2.to # "" /\ (w2.to # "none" => b2[w2.i] # {})
  <2>1. CASE Passes(r, w, b, r2, w2, del, TRUE)
    <3>1. w.pc = "bind" /\ w2.mem = w.mem /\ w2.to = "none"
      BY <1>5, <2>1 DEF Passes
    <3> QED
      BY <1>1, <1>2, <3>1 DEF Serves
  <2>2. CASE Polls(r, w, b, r2, w2, add, del)
    <3>1. /\ w.pc = "bind" /\ w2.mem = w.mem /\ w2.i = w.i /\ w.i \in SGs
          /\ w2.to = "Bound" => b[w.i] # {}
          /\ w2.to = "" => w.mem.ss[w.i] = "Adding" /\ w.mem.ip \notin b[w.i]
          /\ w2.to = "Adding" => add = TRUE \/ b[w.i] # {}
          /\ w2.to \in {"Bound", "", "Adding"}
      BY <1>5, <2>2 DEF Polls
    <3>2. w2.to # ""
      BY <1>2, <3>1 DEF Serves, Known, Held, SameAddress
    <3>3. add = TRUE => b2[w.i] # {}
      <4>1. add = TRUE => del[w.i] = {}
        BY <1>5, <2>2, <3>1 DEF Polls
      <4> QED
        BY <3>1, <4>1 DEF After
    <3> QED
      BY <1>1, <1>2, <3>1, <3>2, <3>3 DEF Serves
  <2>3. CASE Starts(r, c, w, r2, w2)
    BY <1>4, <1>5, <2>3 DEF Starts
  <2>4. CASE Patches(r, w, r2, w2)
    <3>1. /\ w.pc = "bind" /\ w2.to = "none" /\ b[w.i] # {} /\ w.i \in SGs
          /\ \A i \in SGs : i # w.i => w2.mem.ss[i] \in {r.ss[i], w.mem.ss[i]}
      BY <1>2, <1>5, <2>4 DEF Patches
    <3> QED
      BY <1>1, <1>2, <3>1 DEF Serves
  <2>5. CASE \/ GoesOn(r, w, b, r2, w2, del, TRUE) \/ Stops(r, w, r2, w2, TRUE)
             \/ Claiming(r, c, w, r2, w2) \/ TurnsBinding(r, w, r2, w2)
             \/ Turns(r, c, w, r2, w2) \/ Ends(r, w, r2, w2) \/ Resets(r, w, r2, w2)
    BY <1>5, <2>5, IdleFields DEF GoesOn, Stops, Claiming, Early, TurnsBinding, Turns, Keeps,
       Ends, Resets
  <2> QED
    BY <2>1, <2>2, <2>3, <2>4, <2>5 DEF Moves
<1> QED
  BY <1>3, <1>4, <1>5 DEF Promises

\* A PA that is Bound while a copy of it is Binding keeps a status for every SG.
LEMMA CompleteMoves ==
  ASSUME NEW p, NEW r, NEW c, NEW w, NEW b, NEW r2, NEW w2,
         NEW add \in BOOLEAN, NEW del,
         Known(p, r, c, w, b), Moves(r, c, w, b, r2, w2, add, del, TRUE)
  PROVE  Complete(r2, c, w2)
<1>0. w.i \in 1..(NumSG + 1) /\ NumSG \in Nat /\ \A i \in SGs : i \in 1..NumSG
  BY ConstantsAssumption DEF Known, SGs
<1>1. /\ r.phase = "Bound" /\ (w.pc = "bind" \/ c.phase = "Binding") =>
           \A i \in SGs : r.ss[i] # ""
      /\ w.pc = "bind" /\ c.phase = "Bound" => \A i \in SGs : c.ss[i] # ""
      /\ w.pc = "bind" /\ w.clear = TRUE => \A j \in SGs : j < w.i => w.mem.ss[j] # ""
      /\ w.pc = "bind" => w.to # ""
  BY DEF Known, Track, Complete, Promises
<1>2. ASSUME r2.phase = "Bound", w2.pc = "bind" \/ c.phase = "Binding"
      PROVE  \A i \in SGs : r2.ss[i] # ""
  <2>1. CASE Passes(r, w, b, r2, w2, del, TRUE) \/ Polls(r, w, b, r2, w2, add, del)
    BY <1>1, <1>2, <2>1 DEF Passes, Polls
  <2>2. CASE GoesOn(r, w, b, r2, w2, del, TRUE) \/ Stops(r, w, r2, w2, TRUE)
    BY <1>1, <1>2, <2>2, IdleFields DEF GoesOn, Stops
  <2>3. CASE Claiming(r, c, w, r2, w2)
    BY <1>1, <1>2, <2>3 DEF Claiming, KeepsStatus, Early
  <2>4. CASE TurnsBinding(r, w, r2, w2) \/ Turns(r, c, w, r2, w2)
    BY <1>2, <2>4 DEF TurnsBinding, Turns
  <2>5. CASE Starts(r, c, w, r2, w2)
    BY <1>1, <1>2, <2>5 DEF Starts
  <2>6. CASE Patches(r, w, r2, w2)
    <3>1. w.pc = "bind"
      <4>1. r.phase = "Bound" /\ w.pc \in {"bind", "disable", "release"} /\ w2.pc = w.pc
        BY <1>2, <2>6 DEF Patches
      <4>2. w.pc # "release"
        BY <4>1 DEF Known, Working, Releases, Closing
      <4>3. w.pc # "disable"
        <5>1. c.phase = "Binding" => w.pc # "disable"
          BY DEF Known, Working, Disables
        <5> QED
          BY <1>2, <4>1, <5>1
      <4> QED
        BY <4>1, <4>2, <4>3
    <3> QED
      BY <1>1, <1>2, <2>6, <3>1 DEF Patches
  <2>7. CASE Ends(r, w, r2, w2)
    <3>1. w.pc = "bind" /\ r2.ss = w.mem.ss /\ w.clear = TRUE /\ w.i > NumSG
      BY <1>2, <2>7 DEF Ends
    <3>2. \A i \in SGs : i < w.i
      BY <1>0, <3>1
    <3> QED
      BY <1>1, <3>1, <3>2
  <2>8. CASE Resets(r, w, r2, w2)
    BY <1>2, <2>8, IdleFields DEF Resets, Known, Working, Releases, Closing
  <2> QED
    BY <2>1, <2>2, <2>3, <2>4, <2>5, <2>6, <2>7, <2>8 DEF Moves
<1>3. ASSUME w2.pc = "bind", c.phase = "Bound"
      PROVE  \A i \in SGs : c.ss[i] # ""
  <2>1. w.pc = "bind"
    BY <1>3, IdleFields
    DEF Moves, Passes, Polls, GoesOn, Stops, Claiming, Early, TurnsBinding, Turns, Keeps,
        Starts, Patches, Ends, Resets
  <2> QED
    BY <1>1, <1>3, <2>1
<1>4. ASSUME w2.pc = "bind", w2.clear = TRUE, NEW j \in SGs, j < w2.i
      PROVE  w2.mem.ss[j] # ""
  <2>0. j < w.i + 1 => j = w.i \/ j < w.i
    BY <1>0
  <2>1. CASE Passes(r, w, b, r2, w2, del, TRUE)
    <3>1. /\ w.pc = "bind" /\ w.clear = TRUE /\ w2.mem = w.mem /\ w2.i = w.i + 1
          /\ w.mem.ss[w.i] = "Bound"
      BY <1>4, <2>1 DEF Passes, Goal
    <3>2. \A k \in SGs : k < w.i => w.mem.ss[k] # ""
      BY <1>1, <3>1
    <3>3. j = w.i \/ j < w.i
      BY <1>4, <2>0, <3>1
    <3> QED
      BY <3>1, <3>2, <3>3
  <2>2. CASE Polls(r, w, b, r2, w2, add, del)
    BY <1>1, <1>4, <2>2 DEF Polls
  <2>3. CASE Starts(r, c, w, r2, w2)
    <3>1. w2.i = 1 /\ j < w2.i
      BY <1>4, <2>3 DEF Starts
    <3>2. ~(j < 1)
      BY <1>0
    <3> QED
      BY <3>1, <3>2
  <2>4. CASE Patches(r, w, r2, w2)
    <3>1. /\ w.pc = "bind" /\ w.clear = TRUE /\ w2.i = w.i + 1
          /\ j = w.i => w2.mem.ss[j] = w.to
          /\ j # w.i => w2.mem.ss[j] = IF r.ss[j] = "" THEN w.mem.ss[j] ELSE r.ss[j]
      BY <1>4, <2>4 DEF Patches
    <3> QED
      BY <1>1, <1>4, <2>0, <3>1
  <2>5. CASE \/ GoesOn(r, w, b, r2, w2, del, TRUE) \/ Stops(r, w, r2, w2, TRUE)
             \/ Claiming(r, c, w, r2, w2) \/ TurnsBinding(r, w, r2, w2)
             \/ Turns(r, c, w, r2, w2) \/ Ends(r, w, r2, w2) \/ Resets(r, w, r2, w2)
    BY <1>4, <2>5, IdleFields DEF GoesOn, Stops, Claiming, Early, TurnsBinding, Turns, Keeps,
       Ends, Resets
  <2> QED
    BY <2>1, <2>2, <2>3, <2>4, <2>5 DEF Moves
<1> QED
  BY <1>2, <1>3, <1>4 DEF Complete

\* What a copy of a Bound PA does not promise is not there.
LEMMA BoundCopyMoves ==
  ASSUME NEW p, NEW r, NEW c, NEW w, NEW b, NEW r2, NEW w2, NEW b2,
         NEW add \in BOOLEAN, NEW del,
         Known(p, r, c, w, b),
         Moves(r, c, w, b, r2, w2, add, del, TRUE), After(w, b, add, del, b2)
  PROVE  BoundCopy(r2, c, b2)
<1>0. w.i > NumSG => \A j \in SGs : j < w.i
  <2>1. w.i \in 1..(NumSG + 1) /\ NumSG \in Nat /\ \A j \in SGs : j \in 1..NumSG
    BY ConstantsAssumption DEF Known, SGs
  <2> QED
    BY <2>1
<1> SUFFICES ASSUME c.phase = "Bound", NEW j \in SGs, c.ss[j] = ""
             PROVE  r2.ss[j] = "" /\ b2[j] = {}
  BY DEF BoundCopy
<1>1. r.ss[j] = "" /\ b[j] = {}
  BY DEF Known, Track, BoundCopy
<1>2. w.pc \notin Closing \cup {"bind"}
  BY DEF Known, Track, Complete, Working, Releases
<1>3. b2[j] = {}
  <2>1. Changes(w, b, w2, b2)
    BY AfterCall
  <2> QED
    BY <1>1, <1>2, <2>1 DEF Changes
<1>4. r2.ss[j] = ""
  <2>1. CASE \/ Passes(r, w, b, r2, w2, del, TRUE) \/ Polls(r, w, b, r2, w2, add, del)
             \/ GoesOn(r, w, b, r2, w2, del, TRUE) \/ Stops(r, w, r2, w2, TRUE)
    BY <1>1, <2>1 DEF Passes, Polls, GoesOn, Stops
  <2>2. CASE \/ Claiming(r, c, w, r2, w2) \/ TurnsBinding(r, w, r2, w2)
             \/ Turns(r, c, w, r2, w2) \/ Starts(r, c, w, r2, w2)
    BY <1>1, <2>2 DEF Claiming, TurnsBinding, Turns, Starts, KeepsStatus
  <2>3. CASE Patches(r, w, r2, w2)
    <3>1. w.pc = "disable" /\ w.to \in {"none", "", "Removing"} /\ w.to # "none"
      BY <1>2, <2>3 DEF Patches, Closing, Known, Working, Disables
    <3>2. w.to = "Removing" => r.ss[w.i] # ""
      BY <3>1 DEF Known, Track, Removes
    <3> QED
      BY <1>1, <2>3, <3>1, <3>2 DEF Patches
  <2>4. CASE Ends(r, w, r2, w2)
    <3>1. w.pc = "disable" /\ w.clear = TRUE /\ r2.ss = w.mem.ss
      BY <1>2, <2>4 DEF Ends
    <3>2. w.i > NumSG
      BY <2>4 DEF Ends
    <3>3. j < w.i
      BY <1>0, <3>2
    <3> QED
      BY <3>1, <3>3 DEF Known, Track, Removes
  <2>5. CASE Resets(r, w, r2, w2)
    BY <1>2, <2>5 DEF Resets, Closing
  <2> QED
    BY <2>1, <2>2, <2>3, <2>4, <2>5 DEF Moves
<1> QED
  BY <1>3, <1>4

\* The loops that remove backends leave none behind.
LEMMA RemovesMoves ==
  ASSUME NEW p, NEW r, NEW c, NEW w, NEW b, NEW r2, NEW w2, NEW b2,
         NEW add \in BOOLEAN, NEW del,
         Known(p, r, c, w, b),
         Moves(r, c, w, b, r2, w2, add, del, TRUE), After(w, b, add, del, b2)
  PROVE  Removes(r2, w2, b2)
<1>0. w.i \in 1..(NumSG + 1) /\ NumSG \in Nat /\ \A i \in SGs : i \in 1..NumSG
  BY ConstantsAssumption DEF Known, SGs
<1>1. w.pc \in {"disable", "release"} =>
        /\ \A j \in SGs : w.mem.ss[j] = "" => b[j] = {} /\ (w.pc = "disable" => r.ss[j] = "")
        /\ w.to # "none" => b[w.i] = {}
        /\ w.to = "Removing" => r.ss[w.i] # ""
        /\ w.clear = TRUE =>
             \A j \in SGs : j < w.i => b[j] = {} /\ (w.pc = "disable" => w.mem.ss[j] = "")
  BY DEF Known, Track, Removes
<1>2. w.pc # "bind" => \A j \in SGs : b[j] = {} => b2[j] = {}
  <2>1. Changes(w, b, w2, b2)
    BY AfterCall
  <2> QED
    BY <2>1 DEF Changes
<1>3. CASE Passes(r, w, b, r2, w2, del, TRUE)
  <2>1. /\ w2.pc = w.pc /\ w2.mem = w.mem /\ w2.to = "none" /\ w2.i = w.i + 1 /\ r2 = r
        /\ w.i \in SGs
    BY <1>3 DEF Passes
  <2>2. w2.clear = TRUE /\ w.pc # "bind" => w.clear = TRUE /\ w.mem.ss[w.i] = ""
    BY <1>3 DEF Passes, Goal
  <2>3. \A j \in SGs : j < w2.i => j = w.i \/ j < w.i
    BY <1>0, <2>1
  <2>4. w.pc \in {"disable", "release"} =>
          \A j \in SGs : w.mem.ss[j] = "" => b2[j] = {} /\ (w.pc = "disable" => r.ss[j] = "")
    BY <1>1, <1>2
  <2>5. w.pc \in {"disable", "release"} /\ w2.clear = TRUE =>
          \A j \in SGs : j < w2.i => b2[j] = {} /\ (w.pc = "disable" => w.mem.ss[j] = "")
    BY <1>1, <1>2, <2>1, <2>2, <2>3
  <2> QED
    BY <2>1, <2>4, <2>5 DEF Removes
<1>4. CASE Polls(r, w, b, r2, w2, add, del)
  <2>1. /\ w2.pc = w.pc /\ w2.mem = w.mem /\ w2.i = w.i /\ w2.clear = w.clear /\ r2 = r
        /\ w.i \in SGs
    BY <1>4 DEF Polls
  <2>2. CASE w.pc = "disable"
    <3>1. b[w.i] \subseteq {w.mem.ip}
      BY <2>1, <2>2 DEF Known, Held, SameAddress
    <3>2. b2[w.i] = {}
      <4>1. w.mem.ip \in b[w.i] => del[w.i] = {w.mem.ip} /\ add = FALSE
        BY <1>4, <2>2 DEF Polls
      <4> QED
        BY <1>2, <2>1, <2>2, <3>1, <4>1 DEF After
    <3>3. w2.to = "Removing" => r.ss[w.i] # ""
      <4>1. w2.to = "Removing" => b[w.i] # {}
        BY <1>4, <2>2 DEF Polls
      <4> QED
        BY <2>1, <2>2, <4>1 DEF Known, Track, Tracked
    <3> QED
      BY <1>1, <1>2, <2>1, <2>2, <3>2, <3>3 DEF Removes
  <2>3. CASE w.pc = "release"
    <3>1. b[w.i] = {} /\ w2.to = ""
      BY <1>4, <2>3 DEF Polls
    <3> QED
      BY <1>1, <1>2, <2>1, <2>3, <3>1 DEF Removes
  <2> QED
    BY <2>1, <2>2, <2>3 DEF Removes
<1>5. CASE Starts(r, c, w, r2, w2)
  <2>1. /\ w.pc = "idle" /\ w2.i = 1 /\ w2.to = "none" /\ r2.ss = r.ss
    BY <1>5 DEF Starts
  <2>2. \A j \in SGs : ~(j < w2.i)
    BY <1>0, <2>1
  <2>3. \A j \in SGs : r.ss[j] = "" => b[j] = {}
    BY <2>1 DEF Known, Track, Tracked
  <2>4. CASE w2.pc = "disable"
    <3>1. c.phase = "Bound" /\ w2.mem = c
      BY <1>5, <2>4 DEF Starts
    <3>2. \A j \in SGs : c.ss[j] = "" => r.ss[j] = "" /\ b[j] = {}
      BY <3>1 DEF Known, Track, BoundCopy
    <3> QED
      BY <1>2, <2>1, <2>2, <2>4, <3>1, <3>2 DEF Removes
  <2>5. CASE w2.pc = "release"
    <3>1. \A j \in SGs : w2.mem.ss[j] = "" => b[j] = {}
      <4>1. CASE c.since = TRUE /\ w2.mem = c /\ c.phase = "Releasing"
        BY <4>1 DEF Known, Track, CycleCopy
      <4>2. CASE w2.mem = Decode(c, r2)
        <5>1. \A j \in SGs : Decode(c, r2).ss[j] = IF r2.ss[j] = "" THEN c.ss[j] ELSE r2.ss[j]
          BY DEF Decode
        <5> QED
          BY <2>1, <2>3, <4>2, <5>1
      <4> QED
        BY <1>5, <2>5, <4>1, <4>2 DEF Starts
    <3> QED
      BY <1>2, <2>1, <2>2, <2>5, <3>1 DEF Removes
  <2> QED
    BY <2>4, <2>5 DEF Removes
<1>6. CASE Patches(r, w, r2, w2)
  <2>1. SUFFICES ASSUME w.pc \in {"disable", "release"} PROVE Removes(r2, w2, b2)
    BY <1>6 DEF Patches, Removes
  <2>2. /\ w2.pc = w.pc /\ w2.to = "none" /\ w2.i = w.i + 1 /\ w.i \in SGs /\ w.to # "none"
        /\ w2.clear = TRUE => w.clear = TRUE /\ w.to = ""
    BY <1>6, <2>1 DEF Patches, Goal
  <2>3. /\ \A j \in SGs : r2.ss[j] = IF j = w.i THEN w.to ELSE r.ss[j]
        /\ \A j \in SGs :
             w2.mem.ss[j] = IF j = w.i THEN w.to
                                       ELSE IF r.ss[j] = "" THEN w.mem.ss[j] ELSE r.ss[j]
    BY <1>6 DEF Patches
  <2>4. \A j \in SGs : j < w2.i => j = w.i \/ j < w.i
    <3>1. w2.i = w.i + 1
      BY <2>2
    <3> QED
      BY <1>0, <3>1
  <2>5. ASSUME NEW j \in SGs, w2.mem.ss[j] = ""
        PROVE  b2[j] = {} /\ (w2.pc = "disable" => r2.ss[j] = "")
    <3>1. CASE j = w.i
      <4>1. w.to = "" /\ r2.ss[j] = ""
        BY <2>3, <2>5, <3>1
      <4> QED
        BY <1>1, <1>2, <2>1, <2>2, <3>1, <4>1
    <3>2. CASE j # w.i
      <4>1. r.ss[j] = "" /\ w.mem.ss[j] = "" /\ r2.ss[j] = ""
        BY <2>3, <2>5, <3>2
      <4> QED
        BY <1>1, <1>2, <2>1, <4>1
    <3> QED
      BY <3>1, <3>2
  <2>6. w2.clear = TRUE =>
          \A j \in SGs : j < w2.i => b2[j] = {} /\ (w2.pc = "disable" => w2.mem.ss[j] = "")
    BY <1>1, <1>2, <2>1, <2>2, <2>3, <2>4
  <2> QED
    BY <2>2, <2>5, <2>6 DEF Removes
<1>7. CASE \/ GoesOn(r, w, b, r2, w2, del, TRUE) \/ Stops(r, w, r2, w2, TRUE)
           \/ Claiming(r, c, w, r2, w2) \/ TurnsBinding(r, w, r2, w2) \/ Turns(r, c, w, r2, w2)
           \/ Ends(r, w, r2, w2) \/ Resets(r, w, r2, w2)
  BY <1>7, IdleFields DEF GoesOn, Stops, Claiming, Early, TurnsBinding, Turns, Keeps, Ends,
     Resets, Removes
<1> QED
  BY <1>3, <1>4, <1>5, <1>6, <1>7 DEF Moves

\* What is disabled stays off.
LEMMA OffMoves ==
  ASSUME NEW p, NEW r, NEW c, NEW w, NEW b, NEW r2, NEW w2, NEW b2,
         NEW add \in BOOLEAN, NEW del,
         Known(p, r, c, w, b),
         Moves(r, c, w, b, r2, w2, add, del, TRUE), After(w, b, add, del, b2)
  PROVE  Off(r2, b2)
<1> SUFFICES ASSUME r2.phase = "Disabled" PROVE Clean(r2) /\ Emptied(b2)
  BY DEF Off
<1>1. CASE r.phase = "Disabled"
  <2>1. Clean(r) /\ Emptied(b) /\ w.pc # "bind"
    BY <1>1 DEF Known, Track, Off, Working, Binds
  <2>2. Emptied(b2)
    <3>1. Changes(w, b, w2, b2)
      BY AfterCall
    <3> QED
      BY <2>1, <3>1 DEF Changes, Emptied
  <2>3. CASE \/ Passes(r, w, b, r2, w2, del, TRUE) \/ Polls(r, w, b, r2, w2, add, del)
             \/ GoesOn(r, w, b, r2, w2, del, TRUE) \/ Stops(r, w, r2, w2, TRUE)
    BY <2>1, <2>2, <2>3 DEF Passes, Polls, GoesOn, Stops
  <2>4. CASE \/ Claiming(r, c, w, r2, w2) \/ TurnsBinding(r, w, r2, w2)
             \/ Turns(r, c, w, r2, w2) \/ Starts(r, c, w, r2, w2) \/ Resets(r, w, r2, w2)
    BY <2>1, <2>2, <2>4 DEF Claiming, TurnsBinding, Turns, Starts, Resets, KeepsStatus, Clean
  <2>5. CASE Patches(r, w, r2, w2)
    <3>1. w.to = ""
      <4>1. w.pc \in {"disable", "release"} /\ w.to # "none" /\ w.i \in SGs
        BY <2>1, <2>5 DEF Patches
      <4>2. w.to \in {"none", "", "Removing"}
        BY <4>1 DEF Known, Working, Disables, Releases, Closing
      <4>3. w.to = "Removing" => r.ss[w.i] # ""
        BY <4>1 DEF Known, Track, Removes
      <4> QED
        BY <2>1, <4>1, <4>2, <4>3 DEF Clean
    <3> QED
      BY <2>1, <2>2, <2>5, <3>1 DEF Patches, Clean
  <2>6. CASE Ends(r, w, r2, w2)
    <3>1. /\ w.pc = "disable" /\ w.clear = TRUE /\ r2.ss = w.mem.ss
          /\ \A i \in SGs : i < w.i
      BY <2>1, <2>6, ConstantsAssumption DEF Ends, Known, SGs
    <3>2. Clean(r2)
      BY <3>1 DEF Known, Track, Removes, Clean
    <3> QED
      BY <2>2, <3>2
  <2> QED
    BY <2>3, <2>4, <2>5, <2>6 DEF Moves
<1>2. CASE r.phase # "Disabled"
  <2>1. Ends(r, w, r2, w2) /\ w.pc = "disable" /\ w.clear = TRUE /\ r2.ss = w.mem.ss
    BY <1>2
    DEF Moves, Passes, Polls, GoesOn, Stops, Claiming, TurnsBinding, Turns, Starts, Patches,
        Ends, Resets
  <2>2. \A i \in SGs : i < w.i
    BY <2>1, ConstantsAssumption DEF Ends, Known, SGs
  <2>3. \A i \in SGs : b[i] = {} /\ w.mem.ss[i] = ""
    BY <2>1, <2>2 DEF Known, Track, Removes
  <2>4. Changes(w, b, w2, b2)
    BY AfterCall
  <2> QED
    BY <2>1, <2>3, <2>4 DEF Changes, Clean, Emptied
<1> QED
  BY <1>1, <1>2


\* A release that has begun is the only one.
LEMMA CycleMoves ==
  ASSUME NEW p, NEW r, NEW c, NEW w, NEW b, NEW r2, NEW w2,
         NEW add \in BOOLEAN, NEW del,
         Known(p, r, c, w, b), Moves(r, c, w, b, r2, w2, add, del, TRUE)
  PROVE  Cycle(r2, c, w2)
<1>1. /\ r.since = TRUE /\ w.pc \notin Closing =>
           w.pc = "idle" /\ r.phase = "Releasing" /\ c.phase = "Releasing"
      /\ w.pc \in Closing /\ r.phase = "Releasing" => c.phase = "Releasing"
      /\ w.pc \in Closing /\ r.since = TRUE /\ r.phase # "Releasing" =>
           w.memOK = TRUE /\ (w.pc = "release" => w.clear = TRUE)
      /\ w.pc = "setAvailable" => r.since = FALSE
      /\ w.pc \in Closing => r.phase \in {"Releasing", "Disabled", "Available"}
      /\ w.pc \in Closing => w.to \in {"none", ""}
      /\ w.clear \in BOOLEAN /\ r.since \in BOOLEAN
  BY DEF Known, Track, Cycle, Working, Releases
<1>2. w.pc \in {"release", "disable", "bind"} => w.pc \notin Closing \/ w.pc = "release"
  BY DEF Closing
<1>3. CASE Passes(r, w, b, r2, w2, del, TRUE)
  <2>1. /\ r2 = r /\ w2.pc = w.pc /\ w2.memOK = w.memOK /\ w.i \in SGs
        /\ w2.clear = w.clear \/ b[w.i] # {}
    BY <1>3 DEF Passes
  <2>2. r.phase \in {"Disabled", "Available"} => b[w.i] = {}
    BY <2>1 DEF Known, Track, Off, Held, Emptied
  <2> QED
    BY <1>1, <2>1, <2>2 DEF Cycle
<1>4. CASE Polls(r, w, b, r2, w2, add, del)
  BY <1>1, <1>4 DEF Polls, Cycle
<1>5. CASE GoesOn(r, w, b, r2, w2, del, TRUE)
  <2>1. /\ r2 = r /\ w2.memOK = w.memOK
        /\ w.pc \in Closing /\ w2.pc \in Closing \ {"release", "setAvailable"}
    BY <1>5 DEF GoesOn, Closing
  <2> QED
    BY <1>1, <2>1 DEF Cycle
<1>6. CASE Stops(r, w, r2, w2, TRUE)
  <2>1. r2 = r /\ w2.pc = "idle" /\ "idle" \notin Closing
    BY <1>6, IdleFields DEF Stops, Closing
  <2>2. \/ w.pc \notin Closing
        \/ w.pc \in Closing /\ (w.memOK = FALSE \/ (w.pc = "release" /\ w.clear = FALSE))
    BY <1>6 DEF Stops, Closing, Early
  <2> QED
    BY <1>1, <2>1, <2>2 DEF Cycle
<1>7. CASE Claiming(r, c, w, r2, w2)
  <2>1. /\ r2.since = r.since /\ w.pc \notin Closing /\ w2.pc \notin Closing
        /\ c.phase # "Releasing"
    BY <1>7 DEF Claiming, KeepsStatus, Early, Closing
  <2> QED
    BY <1>1, <2>1 DEF Cycle
<1>8. CASE TurnsBinding(r, w, r2, w2)
  <2>1. r2.since = r.since /\ w.pc \notin Closing /\ w.pc # "idle" /\ w2.pc \notin Closing
    BY <1>8, IdleFields DEF TurnsBinding, KeepsStatus, Closing
  <2> QED
    BY <1>1, <2>1 DEF Cycle
<1>9. CASE Turns(r, c, w, r2, w2)
  <2>1. /\ r2.since = r.since /\ w.pc \notin Closing /\ w2.pc \notin Closing
        /\ r.phase # "Releasing"
    BY <1>9 DEF Turns, Keeps, KeepsStatus, Closing
  <2> QED
    BY <1>1, <2>1 DEF Cycle
<1>10. CASE Starts(r, c, w, r2, w2)
  <2>1. /\ w.pc \notin Closing /\ r2.phase = r.phase /\ w2.clear = TRUE
        /\ w2.pc \in {"bind", "disable", "release"}
    BY <1>10 DEF Starts, Closing
  <2>2. CASE w2.pc \in {"bind", "disable"}
    <3>1. c.phase # "Releasing" /\ r2 = r /\ w2.pc \notin Closing
      BY <1>10, <2>2 DEF Starts, Closing
    <3> QED
      BY <1>1, <2>1, <3>1 DEF Cycle
  <2>3. CASE w2.pc = "release"
    <3>1. c.phase = "Releasing" /\ (r2 = r \/ w2.memOK = TRUE)
      BY <1>10, <2>3 DEF Starts
    <3> QED
      BY <1>1, <2>1, <2>3, <3>1 DEF Cycle, Closing
  <2> QED
    BY <2>1, <2>2, <2>3
<1>11. CASE Patches(r, w, r2, w2)
  <2>1. /\ r2.phase = r.phase /\ r2.since = r.since /\ w2.pc = w.pc /\ w2.memOK = TRUE
        /\ w.pc \in {"bind", "disable", "release"} /\ w.to # "none"
        /\ w.clear = TRUE /\ w.to = Goal(w.pc) => w2.clear = TRUE
    BY <1>11 DEF Patches
  <2>2. w.pc = "release" => w.to = "" /\ Goal(w.pc) = ""
    BY <1>1, <2>1 DEF Closing, Goal
  <2> QED
    BY <1>1, <2>1, <2>2 DEF Cycle
<1>12. CASE Ends(r, w, r2, w2)
  <2>1. r2.since = r.since /\ w.pc \notin Closing /\ w.pc # "idle" /\ w2.pc \notin Closing
    BY <1>12, IdleFields DEF Ends, Closing
  <2> QED
    BY <1>1, <2>1 DEF Cycle
<1>13. CASE Resets(r, w, r2, w2)
  <2>1. CASE w.pc = "clearSpec"
    <3>1. r2.since = FALSE /\ r2.phase = r.phase /\ w2.pc = "setAvailable"
      BY <1>13, <2>1 DEF Resets
    <3> QED
      BY <1>1, <2>1, <3>1 DEF Cycle, Closing
  <2>2. CASE w.pc = "setAvailable"
    <3>1. r2.since = FALSE /\ w2.pc = "idle"
      BY <1>1, <1>13, <2>2, IdleFields DEF Resets
    <3> QED
      BY <1>1, <3>1 DEF Cycle, Closing
  <2> QED
    BY <1>13, <2>1, <2>2 DEF Resets
<1> QED
  BY <1>3, <1>4, <1>5, <1>6, <1>7, <1>8, <1>9, <1>10, <1>11, <1>12, <1>13 DEF Moves

\* An old copy from within a release does not hide a backend.
LEMMA CycleCopyMoves ==
  ASSUME NEW p, NEW r, NEW c, NEW w, NEW b, NEW r2, NEW w2, NEW b2,
         NEW add \in BOOLEAN, NEW del,
         Known(p, r, c, w, b),
         Moves(r, c, w, b, r2, w2, add, del, TRUE), After(w, b, add, del, b2)
  PROVE  CycleCopy(c, w2, b2)
<1> SUFFICES ASSUME c.phase = "Releasing", c.since = TRUE
             PROVE  /\ w2.pc \in Closing \cup {"idle"}
                    /\ \A i \in SGs : c.ss[i] = "" => b2[i] = {}
  BY DEF CycleCopy
<1>1. /\ w.pc \in Closing \cup {"idle"}
      /\ \A i \in SGs : c.ss[i] = "" => b[i] = {}
  BY DEF Known, Track, CycleCopy
<1>2. \A i \in SGs : b[i] = {} => b2[i] = {}
  <2>1. Changes(w, b, w2, b2)
    BY AfterCall
  <2> QED
    BY <1>1, <2>1 DEF Changes, Closing
<1>3. w2.pc \in Closing \cup {"idle"}
  <2>1. CASE \/ Passes(r, w, b, r2, w2, del, TRUE) \/ Polls(r, w, b, r2, w2, add, del)
             \/ Patches(r, w, r2, w2) \/ Turns(r, c, w, r2, w2)
    BY <1>1, <2>1 DEF Passes, Polls, Patches, Turns, Keeps
  <2>2. CASE GoesOn(r, w, b, r2, w2, del, TRUE) \/ Starts(r, c, w, r2, w2)
    BY <2>2 DEF GoesOn, Starts, Closing
  <2>3. CASE \/ Stops(r, w, r2, w2, TRUE) \/ TurnsBinding(r, w, r2, w2) \/ Ends(r, w, r2, w2)
             \/ Resets(r, w, r2, w2)
    BY <2>3, IdleFields DEF Stops, TurnsBinding, Ends, Resets, Closing
  <2>4. CASE Claiming(r, c, w, r2, w2)
    BY <2>4 DEF Claiming
  <2> QED
    BY <2>1, <2>2, <2>3, <2>4 DEF Moves
<1> QED
  BY <1>1, <1>2, <1>3

\* A release whose loop is over has nothing left to remove.
LEMMA LastMoves ==
  ASSUME NEW p, NEW r, NEW c, NEW w, NEW b, NEW r2, NEW w2, NEW b2,
         NEW add \in BOOLEAN, NEW del,
         Known(p, r, c, w, b),
         Moves(r, c, w, b, r2, w2, add, del, TRUE), After(w, b, add, del, b2)
  PROVE  Last(w2, b2)
<1> DEFINE Ending == {"clearPodClaim", "patchPodClaim", "removeServers"}
<1> SUFFICES ASSUME w2.pc \in Ending PROVE Emptied(b2)
  BY DEF Last
<1>1. GoesOn(r, w, b, r2, w2, del, TRUE) /\ add = FALSE
  BY IdleFields
  DEF Moves, Passes, Polls, Stops, Claiming, Early, TurnsBinding, Turns, Keeps, Starts, Patches,
      Ends, Resets
<1>2. Emptied(b)
  <2>1. CASE w.pc = "release" /\ w.i > NumSG /\ w.clear = TRUE
    <3>1. \A j \in SGs : j < w.i => b[j] = {}
      BY <2>1 DEF Known, Track, Removes
    <3>2. \A j \in SGs : j < w.i
      <4>1. w.i \in 1..(NumSG + 1) /\ NumSG \in Nat /\ \A j \in SGs : j \in 1..NumSG
        BY ConstantsAssumption DEF Known, SGs
      <4>2. w.i > NumSG
        BY <2>1
      <4> QED
        BY <4>1, <4>2
    <3> QED
      BY <3>1, <3>2 DEF Emptied
  <2>2. CASE w.pc \in Ending
    BY <2>2 DEF Known, Track, Last
  <2> QED
    BY <1>1, <2>1, <2>2 DEF GoesOn
<1>3. Changes(w, b, w2, b2)
  BY AfterCall
<1> QED
  BY <1>1, <1>2, <1>3 DEF Changes, GoesOn, Emptied


\* All of them.
LEMMA TrackMoves ==
  ASSUME NEW p, NEW r, NEW c, NEW w, NEW b, NEW r2, NEW w2, NEW b2,
         NEW add \in BOOLEAN, NEW del,
         Known(p, r, c, w, b),
         Moves(r, c, w, b, r2, w2, add, del, TRUE), After(w, b, add, del, b2)
  PROVE  Track(r2, c, w2, b2)
<1>1. Tracked(r2, w2, b2)
  BY TrackedMoves
<1>2. Promises(r2, c, w2, b2)
  BY PromisesMoves
<1>3. Complete(r2, c, w2)
  BY CompleteMoves
<1>4. BoundCopy(r2, c, b2)
  BY BoundCopyMoves
<1>5. Removes(r2, w2, b2)
  BY RemovesMoves
<1>6. Off(r2, b2)
  BY OffMoves
<1>7. Cycle(r2, c, w2)
  BY CycleMoves
<1>8. CycleCopy(c, w2, b2)
  BY CycleCopyMoves
<1>9. Last(w2, b2)
  BY LastMoves
<1> QED
  BY <1>1, <1>2, <1>3, <1>4, <1>5, <1>6, <1>7, <1>8, <1>9 DEF Track

\* A step elsewhere, or the cache that catches up.
LEMMA TrackStays ==
  ASSUME NEW p, NEW r, NEW c, NEW w, NEW b, NEW c2 \in {c, r}, NEW w2,
         Known(p, r, c, w, b), Keeps(w, w2)
  PROVE  Track(r, c2, w2, b)
<1>1. Tracked(r, w2, b)
  BY DEF Known, Track, Tracked, Keeps
<1>2. Promises(r, c2, w2, b)
  BY DEF Known, Track, Promises, Keeps
<1>3. Complete(r, c2, w2)
  BY DEF Known, Track, Complete, Keeps
<1>4. BoundCopy(r, c2, b)
  <2>1. CASE c2 = c
    BY <2>1 DEF Known, Track
  <2>2. CASE c2 = r
    BY <2>2 DEF Known, Track, Tracked, Complete, BoundCopy
  <2> QED
    BY <2>1, <2>2
<1>5. Removes(r, w2, b)
  BY DEF Known, Track, Removes, Keeps
<1>6. Off(r, b)
  BY DEF Known, Track
<1>7. Cycle(r, c2, w2)
  BY DEF Known, Track, Cycle, Keeps
<1>8. CycleCopy(c2, w2, b)
  <2>1. CASE c2 = c
    BY <2>1 DEF Known, Track, CycleCopy, Keeps
  <2>2. CASE c2 = r
    <3>1. r.phase = "Releasing" /\ r.since = TRUE => w.pc \in Closing \cup {"idle"}
      BY DEF Known, Track, Cycle
    <3>2. w.pc # "bind" => \A i \in SGs : r.ss[i] = "" => b[i] = {}
      BY DEF Known, Track, Tracked
    <3>3. "bind" \notin Closing \cup {"idle"}
      BY DEF Closing
    <3> QED
      BY <2>2, <3>1, <3>2, <3>3 DEF CycleCopy, Keeps
  <2> QED
    BY <2>1, <2>2
<1>9. Last(w2, b)
  BY DEF Known, Track, Last, Keeps
<1> QED
  BY <1>1, <1>2, <1>3, <1>4, <1>5, <1>6, <1>7, <1>8, <1>9 DEF Track

\* The same for Held.
LEMMA HeldStays ==
  ASSUME NEW r, NEW c, NEW w, NEW b, NEW c2 \in {c, r}, NEW w2,
         Held(r, c, w, b), Keeps(w, w2)
  PROVE  Held(r, c2, w2, b)
BY DEF Held, Keeps

-----------------------------------------------------------------------------
(* The invariant, where a cloud call takes effect before it returns.         *)

\* No call is pending.
NoJobs == \A p \in PAs : \A i \in SGs : jobs[p][i] = {}

\* The first fault does no harm to an SG ...
HeldInv == faults <= 1 => \A p \in PAs : Held(pa[p], paCache[p], worker[p], backends[p])

\* ... and before it every status is true.
TrackInv == faults = 0 => \A p \in PAs : Track(pa[p], paCache[p], worker[p], backends[p])

\* The invariant.
SyncInv ==
    /\ TypeInv /\ ReservedInv /\ EditedInv /\ AddressInv
    /\ NoJobs /\ HeldInv /\ TrackInv

\* A step of worker p, with the calls it makes.
Acts(p) ==
    /\ paCache'[p] = paCache[p]
    /\ \E add \in BOOLEAN, del \in [SGs -> SUBSET IPs], ok \in BOOLEAN :
         /\ Moves(pa[p], paCache[p], worker[p], backends[p], pa'[p], worker'[p], add, del, ok)
         /\ After(worker[p], backends[p], add, del, backends'[p])
         /\ ok = TRUE <=> faults' = faults

\* What a step does to PA p and its SGs.
LEMMA SyncSteps ==
  ASSUME CloudAsync = FALSE, SyncInv, [Next]_vars, NEW p \in PAs
  PROVE  /\ \A i \in SGs : jobs'[p][i] = {}
         /\ Stays(p) \/ Acts(p)
<1>1. \A i \in SGs : jobs[p][i] = {}
  BY DEF SyncInv, NoJobs
<1>2. CASE WorkerMoves(p)
  <2>1. PICK add \in BOOLEAN, del \in [SGs -> SUBSET IPs], ok \in BOOLEAN :
          /\ paCache'[p] = paCache[p]
          /\ Moves(pa[p], paCache[p], worker[p], backends[p], pa'[p], worker'[p], add, del, ok)
          /\ Calls(p, add, del)
          /\ ok = TRUE <=> faults' = faults
    BY <1>2, FaultOrNot
  <2>2. After(worker[p], backends[p], add, del, backends'[p])
    BY <2>1 DEF Calls, After
  <2>3. \A i \in SGs : jobs'[p][i] = {}
    BY <1>1, <2>1 DEF Calls
  <2> QED
    BY <2>1, <2>2, <2>3 DEF Acts
<1>3. CASE Stays(p)
  BY <1>1, <1>3 DEF Stays
<1>4. ~JobEnds(p)
  BY <1>1 DEF JobEnds
<1> QED
  BY <1>2, <1>3, <1>4, LocalSteps DEF SyncInv

\* What the invariant says of one PA.
LEMMA KnownNow ==
  ASSUME SyncInv, faults = 0, NEW p \in PAs
  PROVE  Known(p, pa[p], paCache[p], worker[p], backends[p])
<1>1. Copied(p, pa[p], paCache[p]) /\ Working(p, pa[p], paCache[p], worker[p])
  BY DEF SyncInv, ReservedInv, Reserved
<1>2. SameAddress(pa[p], paCache[p], worker[p])
  BY DEF SyncInv, AddressInv
<1>3. /\ Held(pa[p], paCache[p], worker[p], backends[p])
      /\ Track(pa[p], paCache[p], worker[p], backends[p])
  BY DEF SyncInv, HeldInv, TrackInv
<1>4. worker[p] \in Workers /\ pa[p] \in PARecords /\ Consistent(worker[p], pod)
  BY DEF SyncInv, TypeInv, PAInv, WorkerInv
<1>5. /\ worker[p].i \in 1..(NumSG + 1) /\ pa[p].since \in BOOLEAN
      /\ worker[p].clear \in BOOLEAN
  BY <1>4 DEF Workers, PARecords
<1> QED
  BY <1>1, <1>2, <1>3, <1>4, <1>5 DEF Known, Consistent

\* Every step.
LEMMA SyncStep ==
  ASSUME CloudAsync = FALSE, SyncInv, [Next]_vars
  PROVE  SyncInv'
<1>1. TypeInv' /\ ReservedInv' /\ EditedInv' /\ AddressInv'
  BY TypeStep, ReservedStep, EditedStep, AddressStep DEF SyncInv
<1>2. NoJobs'
  BY SyncSteps DEF NoJobs
<1>3. faults \in Nat /\ (faults' = faults \/ faults' = faults + 1)
  BY FaultsStay, ConstantsAssumption DEF SyncInv, TypeInv
<1>4. HeldInv'
  <2> SUFFICES ASSUME faults' <= 1, NEW p \in PAs
               PROVE  Held(pa'[p], paCache'[p], worker'[p], backends'[p])
    BY DEF HeldInv
  <2>1. faults <= 1 /\ (faults' # faults => faults = 0)
    BY <1>3
  <2>2. Held(pa[p], paCache[p], worker[p], backends[p])
    BY <2>1 DEF SyncInv, HeldInv
  <2>3. CASE Stays(p)
    BY <2>2, <2>3, HeldStays DEF Stays
  <2>4. CASE Acts(p)
    <3>1. PICK add \in BOOLEAN, del \in [SGs -> SUBSET IPs], ok \in BOOLEAN :
            /\ paCache'[p] = paCache[p]
            /\ Moves(pa[p], paCache[p], worker[p], backends[p], pa'[p], worker'[p],
                     add, del, ok)
            /\ After(worker[p], backends[p], add, del, backends'[p])
            /\ ok = TRUE <=> faults' = faults
      BY <2>4 DEF Acts
    <3>2. ok = TRUE \/ (worker[p].pc = "removeServers" => Emptied(backends[p]))
      <4>1. ok # TRUE => Track(pa[p], paCache[p], worker[p], backends[p])
        BY <2>1, <3>1 DEF SyncInv, TrackInv
      <4> QED
        BY <4>1 DEF Track, Last
    <3>3. /\ SameAddress(pa[p], paCache[p], worker[p]) /\ Behind(pa[p], paCache[p])
          /\ Claims(pa[p], paCache[p], worker[p]) /\ Releases(pa[p], paCache[p], worker[p])
          /\ worker[p].pc = "bind" => pa[p].phase \in {"Binding", "Bound", "Releasing"}
      BY DEF SyncInv, AddressInv, ReservedInv, Reserved, Copied, Working, Binds
    <3>4. Held(pa'[p], paCache[p], worker'[p], backends'[p])
      BY <2>2, <3>1, <3>2, <3>3, HeldMoves
    <3> QED
      BY <3>1, <3>4
  <2> QED
    BY <2>3, <2>4, SyncSteps
<1>5. TrackInv'
  <2> SUFFICES ASSUME faults' = 0, NEW p \in PAs
               PROVE  Track(pa'[p], paCache'[p], worker'[p], backends'[p])
    BY DEF TrackInv
  <2>1. faults = 0 /\ faults' = faults
    BY <1>3
  <2>2. Known(p, pa[p], paCache[p], worker[p], backends[p])
    BY <2>1, KnownNow
  <2>3. CASE Stays(p)
    BY <2>2, <2>3, TrackStays DEF Stays
  <2>4. CASE Acts(p)
    <3>1. PICK add \in BOOLEAN, del \in [SGs -> SUBSET IPs], ok \in BOOLEAN :
            /\ paCache'[p] = paCache[p]
            /\ Moves(pa[p], paCache[p], worker[p], backends[p], pa'[p], worker'[p],
                     add, del, ok)
            /\ After(worker[p], backends[p], add, del, backends'[p])
            /\ ok = TRUE <=> faults' = faults
      BY <2>4 DEF Acts
    <3>2. Moves(pa[p], paCache[p], worker[p], backends[p], pa'[p], worker'[p], add, del, TRUE)
      BY <2>1, <3>1
    <3>3. Track(pa'[p], paCache[p], worker'[p], backends'[p])
      BY <2>2, <3>1, <3>2, TrackMoves
    <3> QED
      BY <3>1, <3>3
  <2> QED
    BY <2>3, <2>4, SyncSteps
<1> QED
  BY <1>1, <1>2, <1>4, <1>5 DEF SyncInv

\* Init.
LEMMA InitSync == Init => SyncInv
<1> SUFFICES ASSUME Init PROVE SyncInv
  OBVIOUS
<1>1. TypeInv /\ ReservedInv /\ AddressInv
  BY InitType, InitReserved, InitAddress
<1>2. EditedInv /\ NoJobs
  BY DEF Init, EditedInv, NoJobs
<1>3. EmptyPA.phase = "Available" /\ EmptyPA.since = FALSE /\ Clean(EmptyPA)
  BY DEF EmptyPA, Clean
<1>4. ASSUME NEW p \in PAs
      PROVE  /\ pa[p] = EmptyPA /\ paCache[p] = EmptyPA /\ worker[p] = Idle
             /\ Emptied(backends[p])
  BY DEF Init, Emptied
<1>5. HeldInv
  BY <1>3, <1>4, IdleFields DEF HeldInv, Held, Emptied, PastCalls, BeforeCalls
<1>6. ASSUME NEW b, Emptied(b)
      PROVE  Track(EmptyPA, EmptyPA, Idle, b)
  <2>1. Tracked(EmptyPA, Idle, b) /\ BoundCopy(EmptyPA, EmptyPA, b) /\ Off(EmptyPA, b)
    BY <1>3, <1>6 DEF Tracked, BoundCopy, Off, Emptied
  <2>2. Promises(EmptyPA, EmptyPA, Idle, b) /\ Complete(EmptyPA, EmptyPA, Idle)
    BY <1>3, IdleFields DEF Promises, Complete
  <2>3. Removes(EmptyPA, Idle, b) /\ Last(Idle, b)
    BY IdleFields DEF Removes, Last
  <2>4. Cycle(EmptyPA, EmptyPA, Idle) /\ CycleCopy(EmptyPA, Idle, b)
    BY <1>3, IdleFields DEF Cycle, CycleCopy, Closing
  <2> QED
    BY <2>1, <2>2, <2>3, <2>4 DEF Track
<1>7. TrackInv
  BY <1>4, <1>6 DEF TrackInv
<1> QED
  BY <1>1, <1>2, <1>5, <1>7 DEF SyncInv


\* An invariant of every behaviour.
LEMMA SyncInvariant ==
  ASSUME CloudAsync = FALSE
  PROVE  Spec => []SyncInv
<1>1. SyncInv /\ [Next]_vars => SyncInv'
  BY SyncStep
<1> QED
  BY <1>1, InitSync, PTL DEF Spec

\* A PA that is given back has no backend left, even if one step of the release failed
\* or crashed on the way: what the loop of handleReleasing was told is empty is empty,
\* and what it was not told is removed by resetToAvailable.
THEOREM ReleasedIsEmpty ==
  ASSUME CloudAsync = FALSE
  PROVE  Spec => []AvailableIsEmpty
<1>1. SyncInv => AvailableIsEmpty
  <2> SUFFICES ASSUME SyncInv, faults <= 1, NEW p \in PAs, pa[p].phase = "Available",
                      NEW i \in SGs, NEW ip \in IPs
               PROVE  /\ ip \in backends[p][i] => <<"remove", ip>> \in jobs[p][i]
                      /\ <<"add", ip>> \notin jobs[p][i]
    BY DEF AvailableIsEmpty
  <2>1. backends[p][i] = {}
    BY DEF SyncInv, HeldInv, Held, Emptied
  <2>2. jobs[p][i] = {}
    BY DEF SyncInv, NoJobs
  <2> QED
    BY <2>1, <2>2
<1> QED
  BY <1>1, SyncInvariant, PTL

-----------------------------------------------------------------------------
(* What a server status of Bound says, where no user disables a Pod.         *)

\* While a PA serves a Pod, no copy of its status says Bound of an SG that its address
\* is not in.
Registers(r, c, w, b) ==
    /\ r.phase # "Disabled" /\ w.pc # "disable"
    /\ r.phase \in {"Binding", "Bound"} =>
         /\ \A i \in SGs : r.ss[i] = "Bound" => r.ip \in b[i]
         /\ c.phase \in {"Binding", "Bound"} =>
              \A i \in SGs : c.ss[i] = "Bound" => r.ip \in b[i]
         /\ w.pc = "bind" =>
              /\ \A i \in SGs : w.mem.ss[i] = "Bound" => r.ip \in b[i]
              /\ w.to = "Bound" => r.ip \in b[w.i]

\* No SG loses an address.
Grows(b, b2) == \A i \in SGs : b[i] \subseteq b2[i]

\* Nothing is removed but by a worker that disables or releases.
LEMMA NothingRemoved ==
  ASSUME NEW r, NEW c, NEW w, NEW b, NEW r2, NEW w2, NEW b2, NEW add \in BOOLEAN, NEW del,
         NEW ok \in BOOLEAN, Moves(r, c, w, b, r2, w2, add, del, ok),
         After(w, b, add, del, b2), w.pc \notin Closing, w.pc # "disable"
  PROVE  Grows(b, b2)
<1> SUFFICES ASSUME NEW i \in SGs PROVE b[i] \subseteq b2[i]
  BY DEF Grows
<1>1. del[i] = {}
  <2>1. CASE Polls(r, w, b, r2, w2, add, del)
    BY <2>1 DEF Polls
  <2>2. CASE Passes(r, w, b, r2, w2, del, ok) \/ GoesOn(r, w, b, r2, w2, del, ok)
    BY <2>2 DEF Passes, GoesOn, Closing
  <2> QED
    BY <2>1, <2>2 DEF Moves
<1> QED
  BY <1>1 DEF After

\* A step of the worker.
LEMMA RegistersMoves ==
  ASSUME NEW p, NEW r, NEW c, NEW w, NEW b, NEW r2, NEW w2, NEW b2,
         NEW add \in BOOLEAN, NEW del, NEW ok \in BOOLEAN,
         "disabled" \notin UserEdits,
         Copied(p, r, c), Working(p, r, c, w), SameAddress(r, c, w), Registers(r, c, w, b),
         Moves(r, c, w, b, r2, w2, add, del, ok),
         w.pc \notin Closing /\ w.pc # "disable" => Grows(b, b2)
  PROVE  Registers(r2, c, w2, b2)
<1>1. /\ r.phase # "Disabled" /\ w.pc # "disable"
      /\ w.pc = "bind" => w.mem.ip = r.ip
      /\ w.pc \in Closing => r.phase \in {"Releasing", "Available"}
  BY DEF Registers, SameAddress, Working, Releases
<1>2. r2.phase # "Disabled" /\ w2.pc # "disable"
  BY <1>1, IdleFields
  DEF Moves, Passes, Polls, GoesOn, Stops, Claiming, Early, TurnsBinding, Turns, Keeps, Starts,
      Patches, Ends, Resets
<1> SUFFICES ASSUME r2.phase \in {"Binding", "Bound"}
             PROVE  /\ \A i \in SGs : r2.ss[i] = "Bound" => r2.ip \in b2[i]
                    /\ c.phase \in {"Binding", "Bound"} =>
                         \A i \in SGs : c.ss[i] = "Bound" => r2.ip \in b2[i]
                    /\ w2.pc = "bind" =>
                         /\ \A i \in SGs : w2.mem.ss[i] = "Bound" => r2.ip \in b2[i]
                         /\ w2.to = "Bound" => r2.ip \in b2[w2.i]
  BY <1>2 DEF Registers
<1>3. CASE TurnsBinding(r, w, r2, w2)
  <2>1. /\ r.phase = "Available" /\ r2.ss = r.ss /\ w2.pc # "bind"
    BY <1>3, IdleFields DEF TurnsBinding, KeepsStatus
  <2>2. Clean(r) /\ c.phase \notin {"Binding", "Bound"}
    BY <2>1 DEF Copied, Shaped, Behind
  <2> QED
    BY <2>1, <2>2 DEF Clean
<1>4. CASE ~TurnsBinding(r, w, r2, w2)
  <2>1. r.phase \in {"Binding", "Bound"} /\ r2.ip = r.ip
    <3>1. CASE \/ Passes(r, w, b, r2, w2, del, ok) \/ Polls(r, w, b, r2, w2, add, del)
               \/ GoesOn(r, w, b, r2, w2, del, ok) \/ Stops(r, w, r2, w2, ok)
      BY <3>1 DEF Passes, Polls, GoesOn, Stops
    <3>2. CASE Claiming(r, c, w, r2, w2) \/ Starts(r, c, w, r2, w2) \/ Patches(r, w, r2, w2)
      BY <3>2 DEF Claiming, Starts, Patches
    <3>3. CASE Turns(r, c, w, r2, w2) \/ Resets(r, w, r2, w2)
      BY <1>1, <3>3 DEF Turns, Resets, Closing
    <3>4. CASE Ends(r, w, r2, w2)
      <4>1. w.pc = "bind" /\ w.clear = TRUE /\ w.memOK = TRUE /\ w.i > NumSG /\ r2.ip = r.ip
        BY <1>1, <3>4 DEF Ends
      <4>2. w.clear = TRUE /\ w.memOK = TRUE /\ w.i > NumSG => ~GivesUp(w)
        <5>1. NumSG \in Nat
          BY ConstantsAssumption
        <5> QED
          BY <5>1 DEF GivesUp
      <4> QED
        BY <4>1, <4>2 DEF Working, Binds
    <3> QED
      BY <1>4, <3>1, <3>2, <3>3, <3>4 DEF Moves
  <2>2. \A i \in SGs : b[i] \subseteq b2[i]
    <3>1. w.pc \notin Closing /\ w.pc # "disable"
      BY <1>1, <2>1
    <3> QED
      BY <3>1 DEF Grows
  <2>3. /\ \A i \in SGs : r.ss[i] = "Bound" => r2.ip \in b2[i]
        /\ c.phase \in {"Binding", "Bound"} =>
             \A i \in SGs : c.ss[i] = "Bound" => r2.ip \in b2[i]
        /\ w.pc = "bind" =>
             /\ \A i \in SGs : w.mem.ss[i] = "Bound" => r2.ip \in b2[i]
             /\ w.to = "Bound" /\ w.i \in SGs => r2.ip \in b2[w.i]
    BY <2>1, <2>2 DEF Registers
  <2>4. CASE Passes(r, w, b, r2, w2, del, ok)
    BY <2>3, <2>4 DEF Passes
  <2>5. CASE Polls(r, w, b, r2, w2, add, del)
    <3>1. /\ r2 = r /\ w2.mem = w.mem /\ w2.pc = w.pc /\ w2.i = w.i /\ w.i \in SGs
          /\ w.pc = "bind" /\ w2.to = "Bound" => w.mem.ip \in b[w.i]
      BY <2>5 DEF Polls
    <3> QED
      BY <1>1, <2>1, <2>2, <2>3, <3>1
  <2>6. CASE \/ GoesOn(r, w, b, r2, w2, del, ok) \/ Stops(r, w, r2, w2, ok)
             \/ Claiming(r, c, w, r2, w2) \/ Turns(r, c, w, r2, w2) \/ Resets(r, w, r2, w2)
    <3>1. r2.ss = r.ss /\ w2.pc # "bind"
      BY <1>1, <2>1, <2>6, IdleFields
      DEF GoesOn, Stops, Claiming, Early, Turns, Keeps, KeepsStatus, Resets, Closing
    <3> QED
      BY <2>3, <3>1
  <2>7. CASE Starts(r, c, w, r2, w2)
    <3>1. r2.ss = r.ss /\ w2.to = "none"
          /\ (w2.pc = "bind" => c.phase = "Binding" /\ w2.mem = c)
      BY <2>7 DEF Starts
    <3> QED
      BY <2>3, <3>1
  <2>8. CASE Patches(r, w, r2, w2)
    <3>1. w.pc = "bind" /\ w.i \in SGs /\ w2.to = "none"
      BY <1>1, <2>1, <2>8 DEF Patches, Closing
    <3>2. /\ \A i \in SGs : r2.ss[i] = "Bound" =>
               r.ss[i] = "Bound" \/ (i = w.i /\ w.to = "Bound")
          /\ \A i \in SGs : w2.mem.ss[i] = "Bound" =>
               \/ r.ss[i] = "Bound" \/ w.mem.ss[i] = "Bound"
               \/ i = w.i /\ w.to = "Bound"
      BY <2>8 DEF Patches
    <3> QED
      BY <2>3, <3>1, <3>2
  <2>9. CASE Ends(r, w, r2, w2)
    <3>1. w.pc = "bind" /\ r2.ss = w.mem.ss /\ w2.pc # "bind"
      BY <1>1, <2>9, IdleFields DEF Ends
    <3> QED
      BY <2>3, <3>1
  <2> QED
    BY <1>4, <2>4, <2>5, <2>6, <2>7, <2>8, <2>9 DEF Moves
<1> QED
  BY <1>3, <1>4

\* Every PA.
RegistersInv == \A p \in PAs : Registers(pa[p], paCache[p], worker[p], backends[p])

\* Init.
LEMMA InitRegisters == Init => RegistersInv
<1> SUFFICES ASSUME Init, NEW p \in PAs
             PROVE  Registers(pa[p], paCache[p], worker[p], backends[p])
  BY DEF RegistersInv
<1>1. pa[p] = EmptyPA /\ worker[p] = Idle
  BY DEF Init
<1>2. EmptyPA.phase = "Available"
  BY DEF EmptyPA
<1> QED
  BY <1>1, <1>2, IdleFields DEF Registers

\* Every step, where a cloud call takes effect before it returns.
LEMMA RegistersStep ==
  ASSUME CloudAsync = FALSE, "disabled" \notin UserEdits, SyncInv, RegistersInv, [Next]_vars
  PROVE  RegistersInv'
<1> SUFFICES ASSUME NEW p \in PAs
             PROVE  Registers(pa'[p], paCache'[p], worker'[p], backends'[p])
  BY DEF RegistersInv
<1>1. /\ Copied(p, pa[p], paCache[p]) /\ Working(p, pa[p], paCache[p], worker[p])
      /\ SameAddress(pa[p], paCache[p], worker[p])
      /\ Registers(pa[p], paCache[p], worker[p], backends[p])
  BY DEF SyncInv, ReservedInv, Reserved, AddressInv, RegistersInv
<1>2. CASE Stays(p)
  BY <1>1, <1>2 DEF Stays, Keeps, Registers
<1>3. CASE Acts(p)
  <2>1. PICK add \in BOOLEAN, del \in [SGs -> SUBSET IPs], ok \in BOOLEAN :
          /\ paCache'[p] = paCache[p]
          /\ Moves(pa[p], paCache[p], worker[p], backends[p], pa'[p], worker'[p], add, del, ok)
          /\ After(worker[p], backends[p], add, del, backends'[p])
    BY <1>3 DEF Acts
  <2>2. worker[p].pc \notin Closing /\ worker[p].pc # "disable"
          => Grows(backends[p], backends'[p])
    BY <2>1, NothingRemoved
  <2>3. Registers(pa'[p], paCache[p], worker'[p], backends'[p])
    BY <1>1, <2>1, <2>2, RegistersMoves
  <2> QED
    BY <2>1, <2>3
<1> QED
  BY <1>2, <1>3, SyncSteps

\* A server status of Bound in a PA that serves a Pod is true, whatever crashed, failed
\* or was read from an old cache: handleBinding writes Bound only when it has seen the
\* address in the SG, and only a release takes it out again.
THEOREM BoundIsServed ==
  ASSUME CloudAsync = FALSE, "disabled" \notin UserEdits
  PROVE  Spec => []BoundIsRegistered
<1>1. Init => RegistersInv
  BY InitRegisters
<1>2. SyncInv /\ RegistersInv /\ [Next]_vars => RegistersInv'
  BY RegistersStep
<1>3. RegistersInv => BoundIsRegistered
  BY DEF RegistersInv, Registers, BoundIsRegistered
<1> QED
  BY <1>1, <1>2, <1>3, SyncInvariant, PTL DEF Spec
-----------------------------------------------------------------------------
(* The same where an accepted cloud call takes effect later.  A remove that  *)
(* is under way must not hit an address that is bound again: with current    *)
(* caches and a pool that users leave alone, a PA is released only when its  *)
(* Pod is gone for good, so no PA ever holds that address again.             *)

\* The Pod with address ip is there.
Alive(ip) == pod[ip[1]] # Null /\ pod[ip[1]].uid = ip[2]

\* A Pod keeps the claim it was granted as long as it lives.
GrantsClaimed ==
    \A p \in PAs : \A ip \in granted[p] : Alive(ip) => HasClaim(pod, ip[1], p)

\* An address that is about to be removed is of no use any more.
RemovesLate ==
    \A p \in PAs : \A i \in SGs : \A ip \in IPs :
        <<"remove", ip>> \in jobs[p][i] => ~Alive(ip) /\ ~Holds(pa[p], worker[p], ip)

\* The invariant.
LateInv == ClaimInv /\ EditedInv /\ AddressInv /\ RegistersInv /\ GrantsClaimed /\ RemovesLate

\* What a step makes of a Pod: it keeps its number, or it is new, or it is gone.
LEMMA PodNumbers ==
  ASSUME TypeInv, [Next]_vars, NEW d \in Pods, pod'[d] # Null
  PROVE  \/ pod[d] # Null /\ pod'[d].uid = pod[d].uid
         \/ pod'[d].uid = incarnation[d] + 1 /\ UNCHANGED granted
<1>1. ASSUME NEW p \in PAs, WorkerStep(p) \/ WorkerFails(p)
      PROVE  pod[d] # Null /\ pod'[d].uid = pod[d].uid
  <2>1. CASE ClaimPod(p) \/ ResumeClaim(p)
    <3>1. PICK e, w : SetsClaim(p, e, w)
      BY <2>1, ClaimSetters
    <3>2. PICK r : r = [pod[e] EXCEPT !.claim = p]
      OBVIOUS
    <3>3. pod' = [pod EXCEPT ![e] = r] /\ e \in Pods /\ pod[e] # Null
      BY <3>1, <3>2 DEF SetsClaim, SetClaim, WritePod
    <3>4. r.uid = pod[e].uid
      BY <3>2, <3>3 DEF TypeInv, PodInv, PodRecords
    <3> QED
      BY <3>3, <3>4 DEF TypeInv, PodInv
  <2>2. CASE \/ PatchPodClaim(p, "patchPodClaim", "removeServers")
             \/ PatchPodClaim(p, "patchPodClaimAgain", "clearSpec")
    <3>1. PICK e, r : /\ r = IF pod[e] = Null THEN Null ELSE [pod[e] EXCEPT !.claim = Null]
                      /\ pod' = [pod EXCEPT ![e] = r]
      BY <2>2 DEF PatchPodClaim, WritePod
    <3>2. e \in Pods /\ pod[e] # Null => r.uid = pod[e].uid
      BY <3>1 DEF TypeInv, PodInv, PodRecords
    <3> QED
      BY <3>1, <3>2 DEF TypeInv, PodInv
  <2>3. CASE UNCHANGED podVars
    BY <2>3 DEF podVars
  <2> QED
    BY <1>1, <2>1, <2>2, <2>3, PodWriters
<1>2. ASSUME NEW e \in Pods, PodCreate(e)
      PROVE  \/ pod[d] # Null /\ pod'[d].uid = pod[d].uid
             \/ pod'[d].uid = incarnation[d] + 1 /\ UNCHANGED granted
  <2>1. PICK r : r = [uid |-> incarnation[e] + 1, hasIP |-> FALSE, claim |-> Null,
                      inPool |-> TRUE, disabled |-> FALSE]
    OBVIOUS
  <2>2. pod' = [pod EXCEPT ![e] = r] /\ UNCHANGED granted /\ r.uid = incarnation[e] + 1
    BY <1>2, <2>1 DEF PodCreate, PodChange, WritePod
  <2> QED
    BY <2>2 DEF TypeInv, PodInv
<1>3. ASSUME NEW e \in Pods, PodStep(e), ~PodCreate(e)
      PROVE  pod[d] # Null /\ pod'[d].uid = pod[d].uid
  <2>1. PICK r : /\ pod' = [pod EXCEPT ![e] = r]
                 /\ r = Null \/ (pod[e] # Null /\ r.uid = pod[e].uid)
    BY <1>3 DEF PodStep, PodGetsIP, PodDelete, EditDisabled, EditPool, PodChange, WritePod,
                TypeInv, PodInv, PodRecords
  <2> QED
    BY <2>1 DEF TypeInv, PodInv
<1>4. CASE UNCHANGED pod
  BY <1>4
<1>5. ASSUME NEW p \in PAs, CloudStep(p) \/ CloudFails(p) \/ SyncPA(p) PROVE UNCHANGED pod
  BY <1>5 DEF CloudStep, CloudFails, JobDone, JobFails, SyncPA, podVars
<1>6. ASSUME NEW e \in Pods, SyncPod(e) PROVE UNCHANGED pod
  BY <1>6 DEF SyncPod
<1> QED
  BY <1>1, <1>2, <1>3, <1>4, <1>5, <1>6 DEF Next, vars

\* What a step makes of the history: a new address is that of a Pod just claimed.
LEMMA NewGrants ==
  ASSUME TypeInv, [Next]_vars, NEW p \in PAs, NEW ip \in granted'[p], ip \notin granted[p]
  PROVE  pod'[ip[1]].claim = p
<1>1. ASSUME NEW q \in PAs, WorkerStep(q) \/ WorkerFails(q), ~UNCHANGED granted
      PROVE  pod'[ip[1]].claim = p
  <2>1. PICK d, w : SetsClaim(q, d, w)
    BY <1>1, PodWriters, ClaimSetters DEF podVars, PatchPodClaim
  <2>2. PICK r : r = [pod[d] EXCEPT !.claim = q]
    OBVIOUS
  <2>3. /\ pod' = [pod EXCEPT ![d] = r] /\ d \in Pods /\ pod[d] # Null
        /\ granted' = [granted EXCEPT ![q] = @ \cup {<<d, pod[d].uid>>}]
    BY <2>1, <2>2 DEF SetsClaim, SetClaim, WritePod
  <2>4. q = p /\ ip = <<d, pod[d].uid>>
    BY <2>3 DEF TypeInv, PodInv
  <2>5. r.claim = q
    BY <2>2, <2>3 DEF TypeInv, PodInv, PodRecords
  <2> QED
    BY <2>3, <2>4, <2>5 DEF TypeInv, PodInv
<1>2. ASSUME NEW q \in PAs, CloudStep(q) \/ CloudFails(q) \/ SyncPA(q) PROVE UNCHANGED granted
  BY <1>2 DEF CloudStep, CloudFails, JobDone, JobFails, SyncPA, podVars
<1>3. ASSUME NEW d \in Pods, PodStep(d) \/ SyncPod(d) PROVE UNCHANGED granted
  BY <1>3 DEF PodStep, SyncPod, PodCreate, PodGetsIP, PodDelete, EditDisabled, EditPool, PodChange
<1> QED
  BY <1>1, <1>2, <1>3 DEF Next, vars

\* An address whose Pod is gone never comes back.
LEMMA GoneForGood ==
  ASSUME TypeInv, Born, [Next]_vars, NEW p \in PAs, NEW ip \in granted[p], ~Alive(ip)
  PROVE  ~Alive(ip)'
<1>1. ip \in IPs /\ ip[1] \in Pods /\ ip[2] \in Nat /\ incarnation[ip[1]] \in Nat
  BY ConstantsAssumption DEF TypeInv, PodInv, IPs
<1>2. ip[2] <= incarnation[ip[1]]
  BY DEF Born
<1> QED
  BY <1>1, <1>2, PodNumbers DEF Alive

\* Every step.
LEMMA GrantsStep ==
  ASSUME LateInv, CurrentCaches, "pool" \notin UserEdits, [Next]_vars
  PROVE  GrantsClaimed'
<1> SUFFICES ASSUME NEW p \in PAs, NEW ip \in granted'[p], Alive(ip)'
             PROVE  pod'[ip[1]].claim = p
  BY DEF GrantsClaimed, HasClaim, Alive
<1>1. TypeInv /\ Born /\ LockInv
  BY DEF LateInv, ClaimInv, Undisturbed
<1>2. CASE ip \notin granted[p]
  BY <1>1, <1>2, NewGrants
<1>3. CASE ip \in granted[p]
  <2>1. ip[1] \in Pods
    BY <1>1, <1>3 DEF TypeInv, PodInv, IPs
  <2>2. Alive(ip)
    BY <1>1, <1>3, GoneForGood
  <2>3. pod[ip[1]] # Null /\ pod[ip[1]].claim = p /\ pod'[ip[1]] # Null
    BY <1>3, <2>2 DEF LateInv, GrantsClaimed, HasClaim, Alive
  <2> QED
    BY <1>1, <2>1, <2>3, ClaimWrites, ConstantsAssumption
<1> QED
  BY <1>2, <1>3

\* How a worker gets an address to bind: from the current Pod, or from itself.
LEMMA Entering ==
  ASSUME TypeInv, CurrentCaches, NEW p \in PAs, WorkerStep(p) \/ WorkerFails(p),
         worker'[p].pc \in {"setPodIP", "setBinding"}
  PROVE  \/ ClaimPod(p)
         \/ ResumeConfirmed(p) \/ ResumeClaim(p)
         \/ worker[p].pc = "setPodIP" /\ worker'[p].mem = worker[p].mem
<1>1. /\ worker[p] \in Workers /\ Consistent(worker[p], pod) /\ Idle.pc = "idle"
      /\ worker \in [PAs -> Workers]
  BY WorkerSteps, IdleFields DEF TypeInv, WorkerInv
<1>2. ASSUME worker'[p] = Idle PROVE FALSE
  BY <1>1, <1>2
<1>3. ASSUME worker[p].pc = "idle", UNCHANGED worker PROVE FALSE
  BY <1>3
<1>4. ASSUME NEW label \in {"bind", "disable", "release"}, NEW copy, NEW current,
             StartLoop(p, label, copy, current)
      PROVE  FALSE
  <2>1. PICK w : w = [Idle EXCEPT !.pc = label, !.mem = copy, !.memOK = current]
    OBVIOUS
  <2>2. w.pc = label /\ worker'[p] = w
    BY <1>1, <1>4, <2>1 DEF StartLoop, Goto, Idle
  <2> QED
    BY <2>2
<1>5. ASSUME worker[p].pc \in {"bind", "disable", "release"},
             worker'[p].pc = worker[p].pc
      PROVE  FALSE
  BY <1>5
<1>6. CASE \E d \in Pods : HandleAvailable(p, d)
  <2>1. PICK w, r, d : /\ w = [Idle EXCEPT !.pc = "claimPod", !.mem = r, !.memOK = TRUE,
                                           !.podOK = podSynced[d]]
                       /\ Goto(p, w)
    BY <1>6 DEF HandleAvailable
  <2>2. w.pc = "claimPod" /\ worker'[p] = w
    BY <1>1, <2>1 DEF Goto, Idle
  <2> QED
    BY <2>2
<1>7. CASE ClaimPodFails(p)
  <2>1. PICK w : w = [worker[p] EXCEPT !.pc = "rollback", !.podOK = FALSE] /\ Goto(p, w)
    BY <1>7 DEF ClaimPodFails
  <2>2. w.pc = "rollback" /\ worker'[p] = w
    BY <1>1, <2>1 DEF Goto, Workers
  <2> QED
    BY <2>2
<1>8. CASE RollBack(p) \/ SetBinding(p) \/ Abort(p) \/ FinishBinding(p) \/ FinishDisable(p)
           \/ SetAvailable(p)
  BY <1>1, <1>2, <1>8
  DEF RollBack, SetBinding, Abort, FinishBinding, FinishDisable, EndLoop, SetAvailable, Goto
<1>9. CASE \/ ResumeClear(p) \/ ResumeClaimFails(p) \/ AbortBinding(p) \/ HandleBound(p)
           \/ DisabledPodGone(p) \/ ReEnable(p)
  BY <1>3, <1>9
  DEF ResumeClear, ResumeClaimFails, AbortBinding, HandleBound, DisabledPodGone, ReEnable,
      Resume, MovePhase, Reconcile, At
<1>10. CASE SetPodIP(p)
  <2>1. CASE ~CurrentPA(p)
    BY <1>1, <1>2, <1>10, <2>1 DEF SetPodIP, Goto
  <2>2. CASE CurrentPA(p)
    BY <1>10, <2>2, LabelFields DEF SetPodIP, At
  <2> QED
    BY <2>1, <2>2
<1>11. CASE HandleBinding(p) \/ HandleDisable(p)
  BY <1>4, <1>11 DEF HandleBinding, HandleDisable
<1>12. CASE HandleReleasing(p)
  BY <1>4, <1>12 DEF HandleReleasing
<1>13. CASE \/ SkipSG(p) \/ Throttled(p) \/ PatchServerStatus(p) \/ PollAdding(p)
            \/ AddServers(p) \/ PollRemoving(p) \/ RemoveServer(p) \/ ListAndRemove(p)
  <2>1. worker[p].pc \in {"bind", "disable", "release"}
    BY <1>1, <1>13
    DEF SkipSG, Throttled, PatchServerStatus, PollAdding, AddServers, PollRemoving,
        RemoveServer, ListAndRemove, AtSG, InLoop, At, Consistent
  <2>2. ASSUME NEW c, NextSG(p, c) PROVE worker'[p].pc = worker[p].pc
    <3>1. PICK w : w = [worker[p] EXCEPT !.i = @ + 1, !.clear = @ /\ c] /\ Goto(p, w)
      BY <2>2 DEF NextSG
    <3>2. w.pc = worker[p].pc /\ worker'[p] = w
      BY <1>1, <3>1 DEF Goto, Workers
    <3> QED
      BY <3>2
  <2>3. ASSUME NEW s, PatchNext(p, s) PROVE worker'[p].pc = worker[p].pc
    <3>1. PICK w : w = [worker[p] EXCEPT !.to = s] /\ Goto(p, w)
      BY <2>3 DEF PatchNext
    <3>2. w.pc = worker[p].pc /\ worker'[p] = w
      BY <1>1, <3>1 DEF Goto, Workers
    <3> QED
      BY <3>2
  <2>4. CASE PatchServerStatus(p)
    <3>1. PICK m, i, c, w : /\ w = [worker[p] EXCEPT !.mem = m, !.memOK = TRUE, !.to = "none",
                                                     !.i = i, !.clear = c]
                            /\ Goto(p, w)
      BY <2>4 DEF PatchServerStatus
    <3>2. w.pc = worker[p].pc /\ worker'[p] = w
      BY <1>1, <3>1 DEF Goto, Workers
    <3> QED
      BY <1>5, <2>1, <3>2
  <2>5. CASE ~PatchServerStatus(p)
    <3>1. (\E c : NextSG(p, c)) \/ (\E s : PatchNext(p, s)) \/ Goto(p, Idle)
      BY <1>13, <2>5
      DEF SkipSG, Throttled, PollAdding, AddServers, PollRemoving, RemoveServer, ListAndRemove
    <3> QED
      BY <1>1, <1>2, <1>5, <2>1, <2>2, <2>3, <3>1 DEF Goto
  <2> QED
    BY <2>4, <2>5
<1>14. CASE \/ FinishReleasing(p) \/ ClearPodClaim(p) \/ RemoveServers(p)
            \/ ClearPodClaimAgain(p) \/ ClearSpec(p) \/ PatchPodClaimFails(p)
  <2>1. \/ Goto(p, Idle)
        \/ \E l \in {"clearPodClaim", "patchPodClaim", "removeServers", "clearPodClaimAgain",
                     "patchPodClaimAgain", "clearSpec", "setAvailable"} :
             LET w == [worker[p] EXCEPT !.pc = l]
             IN  Goto(p, w) \/ \E d, r : worker' = [Overtaken(d, r) EXCEPT ![p] = w]
    <3>1. CASE FinishReleasing(p) \/ RemoveServers(p) \/ ClearSpec(p)
      BY <3>1 DEF FinishReleasing, RemoveServers, ClearSpec
    <3>2. CASE PatchPodClaimFails(p)
      BY <1>1, <3>2 DEF PatchPodClaimFails, At, Workers
    <3>3. CASE ClearPodClaim(p) \/ ClearPodClaimAgain(p)
      BY <3>3 DEF ClearPodClaim, ClearPodClaimAgain, ReadPodClaim, PatchPodClaim
    <3> QED
      BY <1>14, <3>1, <3>2, <3>3
  <2> QED
    BY <1>1, <1>2, <2>1, LabelFields DEF Goto
<1> QED
  BY <1>6, <1>7, <1>8, <1>9, <1>10, <1>11, <1>12, <1>13, <1>14 DEF WorkerStep, WorkerFails

\* Such an address is that of a Pod that is there.
LEMMA EnteringAlive ==
  ASSUME TypeInv, GrantInv, CurrentCaches, NEW p \in PAs, WorkerStep(p) \/ WorkerFails(p),
         worker'[p].pc \in {"setPodIP", "setBinding"}
  PROVE  Alive(worker'[p].mem.ip) \/ Holds(pa[p], worker[p], worker'[p].mem.ip)
<1>1. /\ worker[p] \in Workers /\ worker[p].mem \in PARecords /\ Idle.pc = "idle"
      /\ worker \in [PAs -> Workers] /\ paCache[p] \in PARecords
  BY FieldsOf DEF TypeInv, WorkerInv
<1>2. ASSUME NEW d, NEW u, pod[d] # Null, u = pod[d].uid PROVE Alive(<<d, u>>)
  BY <1>2 DEF Alive
<1>3. CASE ClaimPod(p)
  <2>1. PICK w : /\ w = [worker[p] EXCEPT !.pc = "setBinding", !.podOK = FALSE]
                 /\ SetClaim(p, worker[p].mem.pod, w)
    BY <1>3 DEF ClaimPod
  <2>2. worker'[p] = w /\ w.mem = worker[p].mem
    BY <1>1, <2>1 DEF SetClaim, Overtaken, Workers
  <2>3. /\ worker[p].mem.ip = <<worker[p].mem.pod, pod[worker[p].mem.pod].uid>>
        /\ pod[worker[p].mem.pod] # Null
    BY <1>3, WorkerSteps DEF ClaimPod, CurrentPod, GrantInv, PAsBacked, Backed, Consistent
  <2> QED
    BY <1>2, <2>2, <2>3
<1>4. ASSUME NEW ip, worker'[p] = ResumeWith(p, ip) PROVE worker'[p].mem.ip = ip
  <2>1. PICK m, l : /\ m = [paCache[p] EXCEPT !.ip = ip]
                    /\ worker'[p] = [Idle EXCEPT !.pc = l, !.mem = m, !.memOK = paSynced[p]]
    BY <1>4 DEF ResumeWith
  <2> QED
    BY <1>1, <2>1 DEF Idle, PARecords
<1>5. CASE ResumeConfirmed(p) \/ ResumeClaim(p)
  <2>1. PICK d : d = pa[p].pod
    OBVIOUS
  <2>2. CacheReadable(p) /\ CachedPod(p) # Null /\ paCache[p].pod # Null
    BY <1>5 DEF ResumeConfirmed, ResumeClaim, Resume, Reconcile
  <2>3. paCache[p] = pa[p]
    BY <2>2, ReadsCurrent
  <2>4. paCache[p].pod = d /\ d \in Pods /\ CachedPod(p) = pod[d] /\ pod[d] # Null
    BY <2>1, <2>2, <2>3, ReadsCurrent
  <2>5. worker'[p] \in {ResumeWith(p, <<d, pod[d].uid>>), Idle}
    <3>1. CASE ResumeConfirmed(p)
      BY <1>1, <2>4, <3>1 DEF ResumeConfirmed, Goto
    <3>2. CASE ResumeClaim(p)
      BY <1>1, <2>4, <3>2 DEF ResumeClaim, SetClaim, Overtaken
    <3> QED
      BY <1>5, <3>1, <3>2
  <2>6. worker'[p] # Idle
    BY <1>1
  <2> QED
    BY <1>2, <1>4, <2>4, <2>5, <2>6
<1>6. CASE worker[p].pc = "setPodIP" /\ worker'[p].mem = worker[p].mem
  BY <1>6 DEF Holds
<1> QED
  BY <1>3, <1>5, <1>6, Entering

\* Who holds an address after a step, and did not before, has just seen the Pod.
LEMMA NewHolder ==
  ASSUME LateInv, CurrentCaches, "pool" \notin UserEdits, [Next]_vars,
         NEW p \in PAs, NEW ip \in IPs,
         Holds(pa[p], worker[p], ip)', ~Holds(pa[p], worker[p], ip)
  PROVE  Alive(ip)
<1> DEFINE r == pa[p]
           w == worker[p]
           c == paCache[p]
           b == backends[p]
           r2 == pa'[p]
           w2 == worker'[p]
<1>1. /\ TypeInv /\ GrantInv /\ ReservedInv /\ EditedInv
      /\ Stage(r, w) /\ Backed(p, r, c, w) /\ Working(p, r, c, w)
      /\ Holds(r2, w2, ip) /\ ~Holds(r, w, ip)
      /\ w.pc # "disable"
  BY DEF LateInv, ClaimInv, Undisturbed, LockInv, Locked, GrantInv, PAsBacked, ReservedInv,
         Reserved, RegistersInv, Registers, Holds
<1>2. ~Stays(p)
  BY <1>1 DEF Stays, Keeps, Holds
<1>3. ~JobEnds(p)
  BY <1>1 DEF JobEnds
<1>4. WorkerMoves(p) /\ (WorkerStep(p) \/ WorkerFails(p))
  BY <1>1, <1>2, <1>3, LocalSteps
<1>5. CASE w2.pc \in {"setPodIP", "setBinding"} /\ w2.mem.ip = ip
  BY <1>1, <1>4, <1>5, EnteringAlive
<1>6. CASE r2.phase \in {"Binding", "Bound", "Disabled"} /\ r2.ip = ip
  <2>1. PICK add \in BOOLEAN, del \in [SGs -> SUBSET IPs], ok \in BOOLEAN :
          Moves(r, c, w, b, r2, w2, add, del, ok)
    BY <1>4, FaultOrNot
  <2> HIDE DEF r, w, c, b, r2, w2
  <2>2. ~(r.phase \in {"Binding", "Bound", "Disabled"} /\ r.ip = ip)
    BY <1>1 DEF Holds
  <2>3. ~Passes(r, w, b, r2, w2, del, ok) /\ ~Polls(r, w, b, r2, w2, add, del)
    BY <1>6, <2>2 DEF Passes, Polls
  <2>4. ~GoesOn(r, w, b, r2, w2, del, ok) /\ ~Stops(r, w, r2, w2, ok)
    BY <1>6, <2>2 DEF GoesOn, Stops
  <2>5. ~Claiming(r, c, w, r2, w2) /\ ~Turns(r, c, w, r2, w2) /\ ~Starts(r, c, w, r2, w2)
    BY <1>6, <2>2 DEF Claiming, Turns, Starts
  <2>6. ~TurnsBinding(r, w, r2, w2)
    BY <1>1, <1>6 DEF TurnsBinding, Backed, Holds
  <2>7. ~Patches(r, w, r2, w2)
    BY <1>6, <2>2 DEF Patches
  <2>8. ~Ends(r, w, r2, w2)
    BY <1>1, <1>6, <2>2 DEF Ends, Stage
  <2>9. ~Resets(r, w, r2, w2)
    BY <1>1, <1>6 DEF Resets, Stage, Closing
  <2> QED
    BY <2>1, <2>3, <2>4, <2>5, <2>6, <2>7, <2>8, <2>9 DEF Moves
<1> QED
  BY <1>1, <1>5, <1>6 DEF Holds

\* A call for the removal of an address is made by a PA that is being released.
LEMMA OnlyReleasesRemove ==
  ASSUME LateInv, CurrentCaches, "pool" \notin UserEdits, [Next]_vars,
         NEW p \in PAs, NEW i \in SGs, NEW ip \in IPs,
         <<"remove", ip>> \in jobs'[p][i], <<"remove", ip>> \notin jobs[p][i]
  PROVE  pa'[p].phase = "Releasing"
<1> DEFINE r == pa[p]
           w == worker[p]
           c == paCache[p]
           b == backends[p]
           r2 == pa'[p]
           w2 == worker'[p]
<1>1. TypeInv /\ ReservedInv /\ EditedInv /\ Stage(r, w) /\ w.pc # "disable"
  BY DEF LateInv, ClaimInv, Undisturbed, LockInv, Locked, RegistersInv, Registers
<1>2. ~Stays(p)
  BY DEF Stays
<1>3. ~JobEnds(p)
  BY <1>1 DEF JobEnds, JobDone, JobFails, TypeInv, CloudInv
<1>4. PICK add \in BOOLEAN, del \in [SGs -> SUBSET IPs], ok \in BOOLEAN :
        Moves(r, c, w, b, r2, w2, add, del, ok) /\ Calls(p, add, del)
  BY <1>1, <1>2, <1>3, LocalSteps, FaultOrNot
<1>5. del[i] # {}
  <2>1. PICK new : jobs'[p][i] \in {jobs[p][i],
                                    jobs[p][i] \cup ({"add"} \X new) \cup ({"remove"} \X del[i])}
    BY <1>4 DEF Calls
  <2> QED
    BY <2>1
<1> HIDE DEF r, w, c, b, r2, w2
<1>6. CASE Passes(r, w, b, r2, w2, del, ok)
  BY <1>1, <1>5, <1>6 DEF Passes, Stage, Closing, r2
<1>7. ~Polls(r, w, b, r2, w2, add, del)
  BY <1>1, <1>5 DEF Polls
<1>8. CASE GoesOn(r, w, b, r2, w2, del, ok)
  BY <1>1, <1>5, <1>8 DEF GoesOn, Stage, Closing, r2
<1> QED
  BY <1>4, <1>5, <1>6, <1>7, <1>8 DEF Moves

\* Every step.
LEMMA RemovesStep ==
  ASSUME LateInv, ClaimInv', GrantsClaimed', CurrentCaches, "pool" \notin UserEdits, [Next]_vars
  PROVE  RemovesLate'
<1> SUFFICES ASSUME NEW p \in PAs, NEW i \in SGs, NEW ip \in IPs,
                    <<"remove", ip>> \in jobs'[p][i]
             PROVE  ~Alive(ip)' /\ ~Holds(pa[p], worker[p], ip)'
  BY DEF RemovesLate
<1>1. ip \in granted'[p]
  <2>1. <<"remove", ip>>[2] = ip
    OBVIOUS
  <2>2. ip \in {j[2] : j \in jobs'[p][i]}
    BY <2>1
  <2> QED
    BY <2>2 DEF ClaimInv, GrantInv, GrantedOnly
<1>2. CASE pa'[p].phase = "Releasing"
  <2>1. Stage(pa'[p], worker'[p]) /\ Unclaimed(p)'
    BY <1>2 DEF ClaimInv, Undisturbed, LockInv, Locked, Lock
  <2>2. ~Holds(pa'[p], worker'[p], ip)
    BY <1>2, <2>1 DEF Stage, Holds
  <2>3. ip[1] \in Pods
    BY DEF IPs
  <2>4. ~Alive(ip)'
    BY <1>1, <2>1, <2>3 DEF GrantsClaimed, Unclaimed
  <2> QED
    BY <2>2, <2>4 DEF Holds
<1>3. CASE pa'[p].phase # "Releasing"
  <2>1. <<"remove", ip>> \in jobs[p][i]
    BY <1>3, OnlyReleasesRemove
  <2>2. ~Alive(ip) /\ ~Holds(pa[p], worker[p], ip)
    BY <2>1 DEF LateInv, RemovesLate
  <2>3. TypeInv /\ Born /\ ip \in granted[p]
    <3>1. <<"remove", ip>>[2] = ip
      OBVIOUS
    <3>2. ip \in {j[2] : j \in jobs[p][i]}
      BY <2>1, <3>1
    <3> QED
      BY <3>2 DEF LateInv, ClaimInv, GrantInv, GrantedOnly
  <2> QED
    BY <2>2, <2>3, GoneForGood, NewHolder
<1> QED
  BY <1>2, <1>3

\* A job that ends takes out no address that a PA serves.
LEMMA JobsHarmless ==
  ASSUME LateInv, NEW p \in PAs, JobEnds(p), pa[p].phase \in {"Binding", "Bound"},
         NEW i \in SGs, pa[p].ip \in backends[p][i]
  PROVE  pa[p].ip \in backends'[p][i]
<1>1. TypeInv /\ backends[p][i] \subseteq IPs
  BY DEF LateInv, ClaimInv, TypeInv, CloudInv
<1>2. PICK k \in SGs : \E j \in jobs[p][k] : JobDone(p, k, j) \/ JobFails(p, k, j)
  BY DEF JobEnds
<1>3. PICK j \in jobs[p][k] : JobDone(p, k, j) \/ JobFails(p, k, j)
  BY <1>2
<1>4. j \in Jobs
  BY <1>1, <1>3 DEF TypeInv, CloudInv
<1>5. j = <<"remove", pa[p].ip>> => FALSE
  BY <1>1, <1>3 DEF LateInv, RemovesLate, Holds
<1>6. j[1] # "add" => j[2] # pa[p].ip
  BY <1>4, <1>5 DEF Jobs
<1> QED
  BY <1>1, <1>3, <1>6 DEF JobDone, JobFails, TypeInv, CloudInv

\* Every step.
LEMMA LateRegisters ==
  ASSUME LateInv, "disabled" \notin UserEdits, [Next]_vars
  PROVE  RegistersInv'
<1> SUFFICES ASSUME NEW p \in PAs
             PROVE  Registers(pa'[p], paCache'[p], worker'[p], backends'[p])
  BY DEF RegistersInv
<1>1. /\ Copied(p, pa[p], paCache[p]) /\ Working(p, pa[p], paCache[p], worker[p])
      /\ SameAddress(pa[p], paCache[p], worker[p])
      /\ Registers(pa[p], paCache[p], worker[p], backends[p])
      /\ TypeInv /\ ReservedInv /\ EditedInv
  BY DEF LateInv, ClaimInv, ReservedInv, Reserved, AddressInv, RegistersInv
<1>2. CASE Stays(p)
  BY <1>1, <1>2 DEF Stays, Keeps, Registers
<1>3. CASE WorkerMoves(p)
  <2>1. PICK add \in BOOLEAN, del \in [SGs -> SUBSET IPs], ok \in BOOLEAN :
          /\ paCache'[p] = paCache[p]
          /\ Moves(pa[p], paCache[p], worker[p], backends[p], pa'[p], worker'[p], add, del, ok)
          /\ Calls(p, add, del)
    BY <1>3, FaultOrNot
  <2>2. \/ After(worker[p], backends[p], add, del, backends'[p])
        \/ Grows(backends[p], backends'[p])
    BY <2>1 DEF Calls, After, Grows
  <2>3. worker[p].pc \notin Closing /\ worker[p].pc # "disable"
          => Grows(backends[p], backends'[p])
    BY <2>1, <2>2, NothingRemoved
  <2>4. Registers(pa'[p], paCache[p], worker'[p], backends'[p])
    BY <1>1, <2>1, <2>3, RegistersMoves
  <2> QED
    BY <2>1, <2>4
<1>4. CASE JobEnds(p)
  <2>1. pa'[p] = pa[p] /\ paCache'[p] = paCache[p] /\ worker'[p] = worker[p]
    BY <1>4 DEF JobEnds
  <2>2. pa[p].phase \in {"Binding", "Bound"} =>
          \A i \in SGs : pa[p].ip \in backends[p][i] => pa[p].ip \in backends'[p][i]
    BY <1>4, JobsHarmless
  <2>3. worker[p].to = "Bound" => worker[p].i \in SGs
    BY <1>1, WorkerSteps DEF Consistent
  <2> QED
    BY <1>1, <2>1, <2>2, <2>3 DEF Registers
<1> QED
  BY <1>1, <1>2, <1>3, <1>4, LocalSteps

\* A server status of Bound stays true where cloud calls take effect late, whatever
\* crashed or failed, if the caches are current and users leave the annotations alone: a
\* remove that is under way is for a Pod that is gone.
THEOREM BoundIsServedLate ==
  ASSUME CurrentCaches, "pool" \notin UserEdits, "disabled" \notin UserEdits
  PROVE  Spec => []BoundIsRegistered
<1>1. Init => EditedInv /\ AddressInv /\ RegistersInv /\ GrantsClaimed /\ RemovesLate
  <2> SUFFICES ASSUME Init PROVE EditedInv /\ GrantsClaimed /\ RemovesLate
    BY InitAddress, InitRegisters
  <2> QED
    BY DEF Init, EditedInv, GrantsClaimed, RemovesLate
<1>2. LateInv /\ ClaimInv' /\ [Next]_vars =>
        EditedInv' /\ AddressInv' /\ RegistersInv' /\ GrantsClaimed' /\ RemovesLate'
  <2> SUFFICES ASSUME LateInv, ClaimInv', [Next]_vars
               PROVE  EditedInv' /\ AddressInv' /\ RegistersInv' /\ GrantsClaimed' /\ RemovesLate'
    OBVIOUS
  <2>1. TypeInv /\ ReservedInv /\ EditedInv /\ AddressInv
    BY DEF LateInv, ClaimInv
  <2>2. EditedInv' /\ AddressInv'
    BY <2>1, EditedStep, AddressStep
  <2>3. RegistersInv' /\ GrantsClaimed'
    BY LateRegisters, GrantsStep
  <2> QED
    BY <2>2, <2>3, RemovesStep
<1>3. Spec => []ClaimInv
  BY ClaimInvariant DEF NamesUsedOnce
<1>4. LateInv => BoundIsRegistered
  BY DEF LateInv, RegistersInv, Registers, BoundIsRegistered
<1> QED
  BY <1>1, <1>2, <1>3, <1>4, PTL DEF Spec, LateInv
=============================================================================
