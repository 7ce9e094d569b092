--------------------------- MODULE PortAllocation ---------------------------
(***************************************************************************)
(* The binding life cycle of PortAllocation objects (PAs): how the workers  *)
(* of the PortAllocation controller claim Pods with a compare-and-swap (CAS)*)
(* on the PA and one on the Pod, register the Pod's address in the cloud    *)
(* server groups (SGs) of the PA, disable it, and release it.               *)
(*                                                                          *)
(* A PA enters this module when provisioning has made it Available; see the *)
(* README for provisioning and deletion.                                    *)
(*                                                                          *)
(* How the control flow is cut into actions.                                *)
(*  - One worker per PA: the work queue never runs one key twice at a time, *)
(*    so the worker of p is the only writer of PA p (comment at line 40).   *)
(*  - Every write to the API server and every cloud call that changes state *)
(*    is a step of its own.  A cached read is merged with the write of the  *)
(*    worker's own PA or the cloud call that follows it: that only moves    *)
(*    the write back to the time of the read, and the one field of a PA     *)
(*    that another worker looks at is boundPod, through its own cache.      *)
(*    clearPodClaim writes a Pod without a resource version, so its Get and *)
(*    its Patch are two steps.                                              *)
(*  - A CAS that conflicts leaves everything as it was and ends the         *)
(*    reconcile.  Where nothing was done before it, the conflict is the     *)
(*    absence of a step.                                                    *)
(*  - A reconcile may start at any time: every handler requeues itself or   *)
(*    is woken by a watch event or by the periodic resync of the informers. *)
(*                                                                          *)
(* What is abstracted.                                                      *)
(*  - A resource version is only compared with the current one, so it is a  *)
(*    Boolean, "this copy is current", lost when someone else writes.       *)
(*  - An address is the pair of a Pod name and an incarnation number: a     *)
(*    recreated Pod has the same name and a new address.                    *)
(*  - Ports, weights, messages, events, labels, external addresses, client  *)
(*    tokens and the length of requeue delays are left out.                 *)
(***************************************************************************)
EXTENDS Integers, FiniteSets

CONSTANTS
    PAs,              \* names of the PortAllocations of one pool
    Pods,             \* names of Pods that carry the pool annotation
    Null,             \* no Pod, no address, no claim
    NumSG,            \* server groups of a PA (one for each port of the pool)
    MaxIncarnations,  \* bound: how often a Pod name is created
    MaxFaults,        \* bound: crashes, failed writes, throttled calls, failed jobs
    CacheLag,         \* which cached reads may be behind: {"ownPA", "otherPA", "pod"}
    CloudAsync,       \* does an accepted cloud call take effect later?
    UserEdits         \* annotations users edit: a subset of {"disabled", "pool"}

ASSUME ConstantsAssumption ==
    /\ Null \notin PAs
    /\ Null \notin Pods
    /\ NumSG \in Nat
    /\ MaxIncarnations \in Nat
    /\ MaxFaults \in Nat
    /\ CloudAsync \in BOOLEAN

ASSUME NullIsNoAddress == Null \notin Pods \X (1..MaxIncarnations)

VARIABLES
    pa,           \* PA objects in the API server
    paCache,      \* the informer cache of the PAs
    paSynced,     \* is the cached PA the current version?
    pod,          \* Pod objects in the API server (Null: there is none)
    podCache,     \* the informer cache of the Pods
    podSynced,    \* is the cached Pod the current version?
    worker,       \* what the worker of a PA holds during a reconcile
    backends,     \* cloud: the addresses registered in each SG of each PA
    jobs,         \* cloud: accepted calls that have not taken effect yet
    incarnation,  \* how often each Pod name has been created
    granted,      \* history: addresses of the Pods that have claimed each PA
    faults        \* how many faults have happened

podVars   == <<pod, podSynced, incarnation, granted>>
paVars    == <<pa, paSynced>>
cacheVars == <<paCache, podCache>>
cloudVars == <<backends, jobs>>
vars == <<pa, paCache, paSynced, pod, podCache, podSynced, worker, backends,
          jobs, incarnation, granted, faults>>

SGs  == 1..NumSG
IPs  == Pods \X (1..MaxIncarnations)
Jobs == {"add", "remove"} \X IPs

Phases == {"Available", "Binding", "Bound", "Releasing", "Disabled"}

\* ServerGroupCloudStatus.ServerStatus
ServerStatus == {"", "Adding", "Bound", "Removing"}

\* pod and ip stand for spec.boundPod and spec.boundPodIP, ss for the server
\* status of each SG, since for the releasing-since annotation.
PARecords == [phase : Phases, pod : Pods \cup {Null}, ip : IPs \cup {Null},
              ss : [SGs -> ServerStatus], since : BOOLEAN]

PodRecords == [uid : 1..MaxIncarnations, hasIP : BOOLEAN,
               claim : PAs \cup {Null}, inPool : BOOLEAN, disabled : BOOLEAN]

\* Where a worker is between two steps of one reconcile.
Labels == {"idle", "claimPod", "rollback", "setPodIP", "setBinding",
           "bind", "disable", "release",
           "clearPodClaim", "patchPodClaim", "removeServers",
           "clearPodClaimAgain", "patchPodClaimAgain", "clearSpec", "setAvailable"}

\* mem is the in-memory PA, memOK and podOK say whether the resource versions
\* of it and of the candidate Pod are current, i is the index of the loop over
\* the SGs, to the server status about to be patched, clear is allBound or
\* allClear.
Workers == [pc : Labels, mem : PARecords, memOK : BOOLEAN, podOK : BOOLEAN,
            i : 1..(NumSG + 1), to : ServerStatus \cup {"none"}, clear : BOOLEAN]

EmptyPA == [phase |-> "Available", pod |-> Null, ip |-> Null,
            ss |-> [i \in SGs |-> ""], since |-> FALSE]

Idle == [pc |-> "idle", mem |-> EmptyPA, memOK |-> FALSE, podOK |-> FALSE,
         i |-> 1, to |-> "none", clear |-> TRUE]

TypeOK ==
    /\ pa \in [PAs -> PARecords]
    /\ paCache \in [PAs -> PARecords]
    /\ paSynced \in [PAs -> BOOLEAN]
    /\ pod \in [Pods -> PodRecords \cup {Null}]
    /\ podCache \in [Pods -> PodRecords \cup {Null}]
    /\ podSynced \in [Pods -> BOOLEAN]
    /\ worker \in [PAs -> Workers]
    /\ backends \in [PAs -> [SGs -> SUBSET IPs]]
    /\ jobs \in [PAs -> [SGs -> SUBSET Jobs]]
    /\ incarnation \in [Pods -> 0..MaxIncarnations]
    /\ granted \in [PAs -> SUBSET IPs]
    /\ faults \in 0..MaxFaults

Init ==
    /\ pa = [p \in PAs |-> EmptyPA]
    /\ paCache = pa
    /\ paSynced = [p \in PAs |-> TRUE]
    /\ pod = [d \in Pods |-> Null]
    /\ podCache = pod
    /\ podSynced = [d \in Pods |-> TRUE]
    /\ worker = [p \in PAs |-> Idle]
    /\ backends = [p \in PAs |-> [i \in SGs |-> {}]]
    /\ jobs = [p \in PAs |-> [i \in SGs |-> {}]]
    /\ incarnation = [d \in Pods |-> 0]
    /\ granted = [p \in PAs |-> {}]
    /\ faults = 0

-----------------------------------------------------------------------------
(* The API server, its watch caches, and the cloud.                         *)

Fault == faults < MaxFaults /\ faults' = faults + 1

\* A write that changes nothing keeps the resource version.
WritePA(p, r) ==
    /\ pa' = [pa EXCEPT ![p] = r]
    /\ paSynced' = [paSynced EXCEPT ![p] = @ /\ r = pa[p]]

\* The workers once Pod d is written as r: their copies of the Pod are out of
\* date, unless the write changes nothing.
Overtaken(d, r) ==
    [q \in PAs |-> IF worker[q].mem.pod = d /\ r # pod[d]
                     THEN [worker[q] EXCEPT !.podOK = FALSE]
                     ELSE worker[q]]

WritePod(d, r) ==
    /\ pod' = [pod EXCEPT ![d] = r]
    /\ podSynced' = [podSynced EXCEPT ![d] = @ /\ r = pod[d]]

\* Where reads do not lag, a reconcile waits for the cache to be current.
CacheReadable(p) ==
    /\ "ownPA" \in CacheLag \/ paSynced[p]
    /\ "otherPA" \in CacheLag \/ \A q \in PAs \ {p} : paSynced[q]
    /\ "pod" \in CacheLag \/ \A d \in Pods : podSynced[d]

SyncPA(p) ==
    /\ ~paSynced[p]
    /\ paCache' = [paCache EXCEPT ![p] = pa[p]]
    /\ paSynced' = [paSynced EXCEPT ![p] = TRUE]
    /\ UNCHANGED <<pa, podVars, podCache, worker, cloudVars, faults>>

SyncPod(d) ==
    /\ ~podSynced[d]
    /\ podCache' = [podCache EXCEPT ![d] = pod[d]]
    /\ podSynced' = [podSynced EXCEPT ![d] = TRUE]
    /\ UNCHANGED <<paVars, paCache, pod, incarnation, granted, worker, cloudVars, faults>>

\* What the response of a patch does to the in-memory object it is decoded
\* into: a field that is empty on the server is omitted and keeps its old value.
Decode(old, new) ==
    [phase |-> new.phase,
     pod   |-> IF new.pod = Null THEN old.pod ELSE new.pod,
     ip    |-> IF new.ip = Null THEN old.ip ELSE new.ip,
     ss    |-> [i \in SGs |-> IF new.ss[i] = "" THEN old.ss[i] ELSE new.ss[i]],
     since |-> new.since \/ old.since]

\* AddServersToServerGroup and RemoveServersFromServerGroup, when accepted.
CloudAdd(p, i, ip) ==
    IF CloudAsync
      THEN /\ jobs' = [jobs EXCEPT ![p][i] = @ \cup {<<"add", ip>>}]
           /\ UNCHANGED backends
      ELSE /\ backends' = [backends EXCEPT ![p][i] = @ \cup {ip}]
           /\ UNCHANGED jobs

CloudRemove(p, gone) ==
    IF CloudAsync
      THEN /\ jobs' = [jobs EXCEPT ![p] =
                         [i \in SGs |-> @[i] \cup ({"remove"} \X gone[i])]]
           /\ UNCHANGED backends
      ELSE /\ backends' = [backends EXCEPT ![p] = [i \in SGs |-> @[i] \ gone[i]]]
           /\ UNCHANGED jobs

JobDone(p, i, j) ==
    /\ j \in jobs[p][i]
    /\ jobs' = [jobs EXCEPT ![p][i] = @ \ {j}]
    /\ backends' = [backends EXCEPT ![p][i] =
                      IF j[1] = "add" THEN @ \cup {j[2]} ELSE @ \ {j[2]}]
    /\ UNCHANGED <<paVars, cacheVars, podVars, worker, faults>>

JobFails(p, i, j) ==
    /\ j \in jobs[p][i]
    /\ Fault
    /\ jobs' = [jobs EXCEPT ![p][i] = @ \ {j}]
    /\ UNCHANGED <<paVars, cacheVars, podVars, worker, backends>>

-----------------------------------------------------------------------------
(* Pods: created and deleted by their workload, annotated by users.         *)

PodChange(d, r) ==
    /\ WritePod(d, r)
    /\ worker' = Overtaken(d, r)
    /\ UNCHANGED <<paVars, cacheVars, cloudVars, granted, faults>>

PodCreate(d) ==
    /\ pod[d] = Null
    /\ incarnation[d] < MaxIncarnations
    /\ incarnation' = [incarnation EXCEPT ![d] = @ + 1]
    /\ PodChange(d, [uid |-> incarnation[d] + 1, hasIP |-> FALSE, claim |-> Null,
                     inPool |-> TRUE, disabled |-> FALSE])

PodGetsIP(d) ==
    /\ pod[d] # Null
    /\ ~pod[d].hasIP
    /\ PodChange(d, [pod[d] EXCEPT !.hasIP = TRUE])
    /\ UNCHANGED incarnation

PodDelete(d) ==
    /\ pod[d] # Null
    /\ PodChange(d, Null)
    /\ UNCHANGED incarnation

EditDisabled(d) ==
    /\ "disabled" \in UserEdits
    /\ pod[d] # Null
    /\ PodChange(d, [pod[d] EXCEPT !.disabled = ~@])
    /\ UNCHANGED incarnation

EditPool(d) ==
    /\ "pool" \in UserEdits
    /\ pod[d] # Null
    /\ PodChange(d, [pod[d] EXCEPT !.inPool = ~@])
    /\ UNCHANGED incarnation

-----------------------------------------------------------------------------
(* Steps shared by the handlers.                                            *)

At(p, label) == worker[p].pc = label

Goto(p, w) == worker' = [worker EXCEPT ![p] = w]

\* A handler that reads the caches and ends in one CAS on the status.
MovePhase(p, phase) ==
    /\ paSynced[p]
    /\ WritePA(p, [pa[p] EXCEPT !.phase = phase])
    /\ UNCHANGED <<cacheVars, podVars, worker, cloudVars, faults>>

\* Reconcile: the worker reads its PA from the cache and dispatches on the phase.
Reconcile(p, phase) ==
    /\ At(p, "idle")
    /\ CacheReadable(p)
    /\ paCache[p].phase = phase

\* The Pod named by the cached PA, as the cache has it.
CachedPod(p) == IF paCache[p].pod = Null THEN Null ELSE podCache[paCache[p].pod]

\* The worker dies, or a write fails with an error that ends the reconcile.
Abort(p) ==
    /\ ~At(p, "idle")
    /\ Fault
    /\ Goto(p, Idle)
    /\ UNCHANGED <<paVars, cacheVars, podVars, cloudVars>>

\* The copies the worker holds are current, so its CAS will succeed.
\* (Variants named Mutant... are plausible bugs in the definition that follows;
\* they show that the properties can fail.)
MutantCurrentPA(p) == TRUE
CurrentPA(p) == worker[p].memOK
MutantCurrentPod(p) == pod[worker[p].mem.pod] # Null
CurrentPod(p) == worker[p].podOK

\* The CAS on the Pod succeeds: the claim annotation names p.
SetClaim(p, d, w) ==
    LET r == [pod[d] EXCEPT !.claim = p]
    IN  /\ WritePod(d, r)
        /\ worker' = [Overtaken(d, r) EXCEPT ![p] = w]
        /\ granted' = [granted EXCEPT ![p] = @ \cup {<<d, pod[d].uid>>}]

-----------------------------------------------------------------------------
(* Available: claim a Pod.                                                  *)

\* A claim is stale when the PA it names is not bound to the Pod.
MutantStaleClaim(d) == podCache[d].claim # Null
StaleClaim(d) ==
    LET claim == podCache[d].claim
    IN  claim # Null /\ paCache[claim].pod # d

Candidate(p, d) ==
    /\ podCache[d] # Null
    /\ podCache[d].inPool
    /\ podCache[d].hasIP
    /\ podCache[d].claim \in {Null, p} \/ StaleClaim(d)

\* Step 1: the CAS that reserves the PA.
HandleAvailable(p, d) ==
    /\ Reconcile(p, "Available")
    /\ paCache[p].pod = Null
    /\ Candidate(p, d)
    /\ paSynced[p]
    /\ LET r == [pa[p] EXCEPT !.pod = d, !.ip = <<d, podCache[d].uid>>]
       IN  /\ WritePA(p, r)
           /\ Goto(p, [Idle EXCEPT !.pc = "claimPod", !.mem = r, !.memOK = TRUE,
                                   !.podOK = podSynced[d]])
    /\ UNCHANGED <<cacheVars, podVars, cloudVars, faults>>

\* Step 2: the CAS on the Pod annotation.
ClaimPod(p) ==
    /\ At(p, "claimPod")
    /\ CurrentPod(p)
    /\ SetClaim(p, worker[p].mem.pod,
                [worker[p] EXCEPT !.pc = "setBinding", !.podOK = FALSE])
    /\ UNCHANGED <<paVars, cacheVars, incarnation, cloudVars, faults>>

\* Step 2 conflicts, or fails for another reason.
ClaimPodFails(p) ==
    /\ At(p, "claimPod")
    /\ IF CurrentPod(p) THEN Fault ELSE UNCHANGED faults
    /\ Goto(p, [worker[p] EXCEPT !.pc = "rollback", !.podOK = FALSE])
    /\ UNCHANGED <<paVars, cacheVars, podVars, cloudVars>>

\* clearClaim, and the roll back of handleAvailable: give the PA back.
Unreserved(p) == [pa[p] EXCEPT !.pod = Null, !.ip = Null]

RollBack(p) ==
    /\ At(p, "rollback")
    /\ WritePA(p, Unreserved(p))
    /\ Goto(p, Idle)
    /\ UNCHANGED <<cacheVars, podVars, cloudVars, faults>>

\* Step 3, and the end of availableResumeBind.
SetBinding(p) ==
    /\ At(p, "setBinding")
    /\ IF CurrentPA(p)
         THEN WritePA(p, [pa[p] EXCEPT !.phase = "Binding"])
         ELSE UNCHANGED paVars
    /\ Goto(p, Idle)
    /\ UNCHANGED <<cacheVars, podVars, cloudVars, faults>>

-----------------------------------------------------------------------------
(* Available with a reservation: resume a binding cut short by a crash.     *)

Resume(p) == Reconcile(p, "Available") /\ paCache[p].pod # Null

\* The worker goes on with the address that its copy of the Pod has, and first
\* persists it if the PA has another one.
MutantResumeWith(p, ip) ==
    [Idle EXCEPT !.pc = "setBinding", !.mem = paCache[p], !.memOK = paSynced[p]]

ResumeWith(p, ip) ==
    [Idle EXCEPT !.pc = IF ip = paCache[p].ip THEN "setBinding" ELSE "setPodIP",
                 !.mem = [paCache[p] EXCEPT !.ip = ip], !.memOK = paSynced[p]]

ResumeConfirmed(p) ==
    /\ Resume(p)
    /\ CachedPod(p) # Null
    /\ CachedPod(p).claim = p
    /\ CachedPod(p).hasIP
    /\ Goto(p, ResumeWith(p, <<paCache[p].pod, CachedPod(p).uid>>))
    /\ UNCHANGED <<paVars, cacheVars, podVars, cloudVars, faults>>

\* No claim on the Pod: retry the CAS on the Pod.
ResumeClaim(p) ==
    /\ Resume(p)
    /\ CachedPod(p) # Null
    /\ CachedPod(p).claim = Null
    /\ podSynced[paCache[p].pod]
    /\ LET d == paCache[p].pod
       IN  SetClaim(p, d, IF pod[d].hasIP THEN ResumeWith(p, <<d, pod[d].uid>>) ELSE Idle)
    /\ UNCHANGED <<paVars, cacheVars, incarnation, cloudVars, faults>>

\* The Pod is gone or claims another PA: clearClaim.
ResumeClear(p) ==
    /\ Resume(p)
    /\ \/ CachedPod(p) = Null
       \/ CachedPod(p) # Null /\ CachedPod(p).claim \notin {p, Null}
    /\ paSynced[p]
    /\ WritePA(p, Unreserved(p))
    /\ UNCHANGED <<cacheVars, podVars, worker, cloudVars, faults>>

\* The retried CAS on the Pod conflicts or fails: clearClaim.
ResumeClaimFails(p) ==
    /\ Resume(p)
    /\ CachedPod(p) # Null
    /\ CachedPod(p).claim = Null
    /\ IF podSynced[paCache[p].pod] THEN Fault ELSE UNCHANGED faults
    /\ paSynced[p]
    /\ WritePA(p, Unreserved(p))
    /\ UNCHANGED <<cacheVars, podVars, worker, cloudVars>>

SetPodIP(p) ==
    /\ At(p, "setPodIP")
    /\ IF CurrentPA(p)
         THEN /\ WritePA(p, [pa[p] EXCEPT !.ip = worker[p].mem.ip])
              /\ Goto(p, [worker[p] EXCEPT !.pc = "setBinding"])
         ELSE UNCHANGED paVars /\ Goto(p, Idle)
    /\ UNCHANGED <<cacheVars, podVars, cloudVars, faults>>

-----------------------------------------------------------------------------
(* The loops over the server groups in handleBinding, handleDisable and     *)
(* handleReleasing.                                                         *)

\* Mutant: the loop starts at the second port.
MutantStartLoop(p, label, copy, current) ==
    Goto(p, [Idle EXCEPT !.pc = label, !.i = 2, !.mem = copy, !.memOK = current])

StartLoop(p, label, copy, current) ==
    Goto(p, [Idle EXCEPT !.pc = label, !.mem = copy, !.memOK = current])

\* The server status that needs nothing more from the loop.
Goal(label) == IF label = "bind" THEN "Bound" ELSE ""

\* The worker is about to look at SG i, which has server status s.
InLoop(p, label) ==
    At(p, label) /\ worker[p].to = "none" /\ worker[p].i <= NumSG

AtSG(p, label, s) == InLoop(p, label) /\ worker[p].mem.ss[worker[p].i] = s

MutantNextSG(p, clear) ==
    Goto(p, [worker[p] EXCEPT !.i = @ + 2, !.clear = @ /\ clear])
NextSG(p, clear) ==
    Goto(p, [worker[p] EXCEPT !.i = @ + 1, !.clear = @ /\ clear])

PatchNext(p, status) == Goto(p, [worker[p] EXCEPT !.to = status])

Registered(p) == worker[p].mem.ip \in backends[p][worker[p].i]

BeingRemoved(p) == <<"remove", worker[p].mem.ip>> \in jobs[p][worker[p].i]

\* One address leaves the SG the worker is looking at.
JustHere(p, ips) == [i \in SGs |-> IF i = worker[p].i THEN ips ELSE {}]

SkipSG(p) ==
    /\ \E label \in {"bind", "disable", "release"} : AtSG(p, label, Goal(label))
    /\ NextSG(p, TRUE)
    /\ UNCHANGED <<paVars, cacheVars, podVars, cloudVars, faults>>

\* The cloud call is throttled or refused by the local rate limiter.
Throttled(p) ==
    /\ \E label \in {"bind", "disable", "release"} :
          InLoop(p, label) /\ ~AtSG(p, label, Goal(label))
    /\ Fault
    /\ NextSG(p, FALSE)
    /\ UNCHANGED <<paVars, cacheVars, podVars, cloudVars>>

\* The JSON patch of one server status, which has no resource version.
PatchServerStatus(p) ==
    LET w == worker[p]
        r == [pa[p] EXCEPT !.ss[w.i] = w.to]
    IN  /\ w.to # "none"
        /\ WritePA(p, r)
        /\ Goto(p, [w EXCEPT !.mem = [Decode(w.mem, r) EXCEPT !.ss[w.i] = w.to],
                             !.memOK = TRUE, !.to = "none", !.i = @ + 1,
                             !.clear = @ /\ w.to = Goal(w.pc)])
        /\ UNCHANGED <<cacheVars, podVars, cloudVars, faults>>

LoopDone(p, label) ==
    At(p, label) /\ worker[p].to = "none" /\ worker[p].i > NumSG

\* The end of a loop: a CAS on the status if every SG reached the goal.
EndLoop(p, label, phase) ==
    /\ LoopDone(p, label)
    /\ IF worker[p].clear /\ CurrentPA(p)
         THEN WritePA(p, [pa[p] EXCEPT !.phase = phase, !.ss = worker[p].mem.ss])
         ELSE UNCHANGED paVars
    /\ Goto(p, Idle)
    /\ UNCHANGED <<cacheVars, podVars, cloudVars, faults>>

-----------------------------------------------------------------------------
(* Binding: register the Pod's address in every SG.                         *)

\* The dual verification before the cloud is called.
StillClaimed(p) ==
    /\ paCache[p].ip # Null
    /\ CachedPod(p) # Null
    /\ CachedPod(p).claim = p

HandleBinding(p) ==
    /\ Reconcile(p, "Binding")
    /\ StillClaimed(p)
    /\ StartLoop(p, "bind", paCache[p], paSynced[p])
    /\ UNCHANGED <<paVars, cacheVars, podVars, cloudVars, faults>>

MutantAbortBinding(p) ==
    /\ Reconcile(p, "Binding")
    /\ ~StillClaimed(p)
    /\ MovePhase(p, "Available")

AbortBinding(p) ==
    /\ Reconcile(p, "Binding")
    /\ ~StillClaimed(p)
    /\ MovePhase(p, "Releasing")

MutantPollAdding(p) ==
    /\ AtSG(p, "bind", "Adding")
    /\ PatchNext(p, "Bound")
    /\ UNCHANGED <<paVars, cacheVars, podVars, cloudVars, faults>>

\* ServerStatus Adding: look whether the address is in the SG.
PollAdding(p) ==
    /\ AtSG(p, "bind", "Adding")
    /\ PatchNext(p, IF Registered(p) THEN "Bound" ELSE "")
    /\ UNCHANGED <<paVars, cacheVars, podVars, cloudVars, faults>>

\* Otherwise add it.  An address that is already there is refused as a
\* duplicate, which also leads to Adding.
AddServers(p) ==
    /\ AtSG(p, "bind", "") \/ AtSG(p, "bind", "Removing")
    /\ IF Registered(p)
         THEN UNCHANGED cloudVars
         ELSE CloudAdd(p, worker[p].i, worker[p].mem.ip)
    /\ PatchNext(p, "Adding")
    /\ UNCHANGED <<paVars, cacheVars, podVars, faults>>

FinishBinding(p) == EndLoop(p, "bind", "Bound")

-----------------------------------------------------------------------------
(* Bound and Disabled.                                                      *)

\* The tests of handleBound, in their order.
BoundPodGone(p) == CachedPod(p) = Null
BoundPodDisabled(p) == ~BoundPodGone(p) /\ CachedPod(p).disabled
MutantBoundPodLost(p) ==
    /\ ~BoundPodGone(p)
    /\ ~CachedPod(p).disabled
    /\ ~CachedPod(p).inPool
BoundPodLost(p) ==
    /\ ~BoundPodGone(p)
    /\ ~CachedPod(p).disabled
    /\ ~CachedPod(p).inPool \/ CachedPod(p).claim # p

HandleBound(p) ==
    /\ Reconcile(p, "Bound")
    /\ BoundPodGone(p) \/ BoundPodLost(p)
    /\ MovePhase(p, "Releasing")

HandleDisable(p) ==
    /\ Reconcile(p, "Bound")
    /\ BoundPodDisabled(p)
    /\ StartLoop(p, "disable", paCache[p], paSynced[p])
    /\ UNCHANGED <<paVars, cacheVars, podVars, cloudVars, faults>>

PollRemoving(p) ==
    /\ AtSG(p, "disable", "Removing")
    /\ IF Registered(p) THEN NextSG(p, FALSE) ELSE PatchNext(p, "")
    /\ UNCHANGED <<paVars, cacheVars, podVars, cloudVars, faults>>

\* RemoveServersFromServerGroup is accepted; or refused because the address is
\* not there; or refused because it is being removed, which ends the reconcile.
RemoveServer(p) ==
    /\ AtSG(p, "disable", "Bound") \/ AtSG(p, "disable", "Adding")
    /\ \/ /\ Registered(p)
          /\ ~BeingRemoved(p)
          /\ CloudRemove(p, JustHere(p, {worker[p].mem.ip}))
          /\ PatchNext(p, "Removing")
       \/ /\ ~Registered(p)
          /\ PatchNext(p, "")
          /\ UNCHANGED cloudVars
       \/ /\ Registered(p)
          /\ BeingRemoved(p)
          /\ Goto(p, Idle)
          /\ UNCHANGED cloudVars
    /\ UNCHANGED <<paVars, cacheVars, podVars, faults>>

FinishDisable(p) == EndLoop(p, "disable", "Disabled")

DisabledPodGone(p) ==
    /\ Reconcile(p, "Disabled")
    /\ CachedPod(p) = Null
    /\ MovePhase(p, "Releasing")

ReEnable(p) ==
    /\ Reconcile(p, "Disabled")
    /\ CachedPod(p) # Null
    /\ ~CachedPod(p).disabled
    /\ MovePhase(p, "Binding")

-----------------------------------------------------------------------------
(* Releasing: empty the SGs, give the Pod and the PA back.                  *)

\* The start of the cycle is recorded once, by a patch without a resource
\* version whose response refreshes the in-memory PA.
HandleReleasing(p) ==
    /\ Reconcile(p, "Releasing")
    /\ IF paCache[p].since
         THEN /\ StartLoop(p, "release", paCache[p], paSynced[p])
              /\ UNCHANGED paVars
         ELSE LET r == [pa[p] EXCEPT !.since = TRUE]
              IN  /\ WritePA(p, r)
                  /\ StartLoop(p, "release", Decode(paCache[p], r), TRUE)
    /\ UNCHANGED <<cacheVars, podVars, cloudVars, faults>>

MutantListAndRemove(p) ==
    /\ \E s \in ServerStatus \ {""} : AtSG(p, "release", s)
    /\ LET listed == backends[p][worker[p].i]
       IN  \/ /\ listed = {}
              /\ PatchNext(p, "")
              /\ UNCHANGED <<cloudVars, faults>>
           \/ /\ listed # {}
              /\ CloudRemove(p, JustHere(p, {worker[p].mem.ip}))
              /\ NextSG(p, FALSE)
              /\ UNCHANGED faults
    /\ UNCHANGED <<paVars, cacheVars, podVars>>

\* List the SG: when it is empty the status is cleared, otherwise every listed
\* address is removed, except the ones in missed, for which the call fails.
ListAndRemove(p) ==
    /\ \E s \in ServerStatus \ {""} : AtSG(p, "release", s)
    /\ LET listed == backends[p][worker[p].i]
       IN  \/ /\ listed = {}
              /\ PatchNext(p, "")
              /\ UNCHANGED <<cloudVars, faults>>
           \/ /\ listed # {}
              /\ \E missed \in SUBSET listed :
                   /\ IF missed = {} THEN UNCHANGED faults ELSE Fault
                   /\ CloudRemove(p, JustHere(p, listed \ missed))
              /\ NextSG(p, FALSE)
    /\ UNCHANGED <<paVars, cacheVars, podVars>>

FinishReleasing(p) ==
    /\ LoopDone(p, "release")
    /\ Goto(p, IF worker[p].clear THEN [worker[p] EXCEPT !.pc = "clearPodClaim"] ELSE Idle)
    /\ UNCHANGED <<paVars, cacheVars, podVars, cloudVars, faults>>

\* clearPodClaim reads the cached Pod and, if it claims p, patches the Pod of
\* that name, without a resource version.
MutantSeesOwnClaim(p) ==
    LET d == worker[p].mem.pod
    IN  d # Null /\ podCache[d] # Null

SeesOwnClaim(p) ==
    LET d == worker[p].mem.pod
    IN  d # Null /\ podCache[d] # Null /\ podCache[d].claim = p

ReadPodClaim(p, label, patch, next) ==
    /\ At(p, label)
    /\ CacheReadable(p)
    /\ Goto(p, [worker[p] EXCEPT !.pc = IF SeesOwnClaim(p) THEN patch ELSE next])
    /\ UNCHANGED <<paVars, cacheVars, podVars, cloudVars, faults>>

PatchPodClaim(p, label, next) ==
    LET d == worker[p].mem.pod
        w == [worker[p] EXCEPT !.pc = next]
        r == IF pod[d] = Null THEN Null ELSE [pod[d] EXCEPT !.claim = Null]
    IN  /\ At(p, label)
        /\ WritePod(d, r)
        /\ worker' = [Overtaken(d, r) EXCEPT ![p] = w]
        /\ UNCHANGED <<paVars, cacheVars, incarnation, granted, cloudVars, faults>>

\* An error of the patch is ignored.
PatchPodClaimFails(p) ==
    /\ At(p, "patchPodClaim") \/ At(p, "patchPodClaimAgain")
    /\ Fault
    /\ Goto(p, [worker[p] EXCEPT !.pc =
                  IF @ = "patchPodClaim" THEN "removeServers" ELSE "clearSpec"])
    /\ UNCHANGED <<paVars, cacheVars, podVars, cloudVars>>

\* The first call is in handleReleasing, the second in resetToAvailable.
ClearPodClaim(p) ==
    \/ ReadPodClaim(p, "clearPodClaim", "patchPodClaim", "removeServers")
    \/ PatchPodClaim(p, "patchPodClaim", "removeServers")

ClearPodClaimAgain(p) ==
    \/ ReadPodClaim(p, "clearPodClaimAgain", "patchPodClaimAgain", "clearSpec")
    \/ PatchPodClaim(p, "patchPodClaimAgain", "clearSpec")

\* Best effort: the SGs in missed are skipped because the call is throttled or
\* an earlier one failed.
RemoveServers(p) ==
    /\ At(p, "removeServers")
    /\ LET ip == worker[p].mem.ip
           present == {i \in SGs : ip \in backends[p][i]}
       IN  \E missed \in SUBSET present :
             /\ IF missed = {} THEN UNCHANGED faults ELSE Fault
             /\ CloudRemove(p, [i \in SGs |-> IF i \in present \ missed THEN {ip} ELSE {}])
    /\ Goto(p, [worker[p] EXCEPT !.pc = "clearPodClaimAgain"])
    /\ UNCHANGED <<paVars, cacheVars, podVars>>

ClearSpec(p) ==
    /\ At(p, "clearSpec")
    /\ IF CurrentPA(p)
         THEN /\ WritePA(p, [pa[p] EXCEPT !.pod = Null, !.ip = Null, !.since = FALSE])
              /\ Goto(p, [worker[p] EXCEPT !.pc = "setAvailable"])
         ELSE UNCHANGED paVars /\ Goto(p, Idle)
    /\ UNCHANGED <<cacheVars, podVars, cloudVars, faults>>

SetAvailable(p) ==
    /\ At(p, "setAvailable")
    /\ WritePA(p, [pa[p] EXCEPT !.phase = "Available", !.ss = [i \in SGs |-> ""]])
    /\ Goto(p, Idle)
    /\ UNCHANGED <<cacheVars, podVars, cloudVars, faults>>

-----------------------------------------------------------------------------

WorkerStep(p) ==
    \/ \E d \in Pods : HandleAvailable(p, d)
    \/ ClaimPod(p) \/ RollBack(p) \/ SetBinding(p)
    \/ ResumeConfirmed(p) \/ ResumeClaim(p) \/ ResumeClear(p) \/ SetPodIP(p)
    \/ SkipSG(p) \/ PatchServerStatus(p)
    \/ HandleBinding(p) \/ AbortBinding(p) \/ PollAdding(p) \/ AddServers(p)
    \/ FinishBinding(p)
    \/ HandleBound(p) \/ HandleDisable(p) \/ PollRemoving(p) \/ RemoveServer(p)
    \/ FinishDisable(p) \/ DisabledPodGone(p) \/ ReEnable(p)
    \/ HandleReleasing(p) \/ ListAndRemove(p) \/ FinishReleasing(p)
    \/ ClearPodClaim(p) \/ RemoveServers(p) \/ ClearPodClaimAgain(p)
    \/ ClearSpec(p) \/ SetAvailable(p)

\* ClaimPodFails and ResumeClaimFails are also the answer to a conflict.
WorkerFails(p) ==
    Abort(p) \/ ClaimPodFails(p) \/ ResumeClaimFails(p) \/ Throttled(p)
    \/ PatchPodClaimFails(p)

CloudStep(p) ==
    \E i \in SGs : \E j \in jobs[p][i] : JobDone(p, i, j)

CloudFails(p) ==
    \E i \in SGs : \E j \in jobs[p][i] : JobFails(p, i, j)

PodStep(d) ==
    PodCreate(d) \/ PodGetsIP(d) \/ PodDelete(d) \/ EditDisabled(d) \/ EditPool(d)

Next ==
    \/ \E p \in PAs : WorkerStep(p) \/ WorkerFails(p) \/ CloudStep(p)
                       \/ CloudFails(p) \/ SyncPA(p)
    \/ \E d \in Pods : PodStep(d) \/ SyncPod(d)

Spec == Init /\ [][Next]_vars

\* The work queue hands every key to a worker again (requeue, watch event or
\* resync), the informers catch up, accepted cloud calls take effect, and a
\* running Pod gets its address.  Faults and users owe nothing.  The fairness of
\* a worker is strong because where CacheLag forbids stale reads its steps are
\* disabled, for a moment, by every edit of a Pod.
Fairness ==
    /\ \A p \in PAs :
         /\ SF_vars(WorkerStep(p) \/ ClaimPodFails(p) \/ ResumeClaimFails(p))
         /\ WF_vars(SyncPA(p))
         /\ \A i \in SGs : \A j \in Jobs : WF_vars(JobDone(p, i, j))
    /\ \A d \in Pods : WF_vars(SyncPod(d)) /\ WF_vars(PodGetsIP(d))

FairSpec == Spec /\ Fairness

-----------------------------------------------------------------------------
(* Safety.                                                                  *)

\* A PA that serves or is about to serve a Pod knows the Pod and an address of
\* it: handleBinding and handleBound never run on half a reservation, whatever
\* crash or conflict cut the dual CAS short.
ReservationComplete ==
    \A p \in PAs : pa[p].phase \in {"Binding", "Bound"} =>
        pa[p].pod # Null /\ pa[p].ip \in {pa[p].pod} \X (1..MaxIncarnations)

\* An address is registered, or about to be, in an SG of a PA only if the Pod
\* with that very address, not an earlier or later Pod of the same name, has
\* carried the claim on the PA: the CAS on the Pod comes before AddServers.
GrantedOnly ==
    \A p \in PAs : \A i \in SGs :
        backends[p][i] \cup {j[2] : j \in jobs[p][i]} \subseteq granted[p]

\* As long as no write is lost, two PAs are never Bound to the same Pod: the claim
\* annotation is the lock "that guards races among multiple reconcile workers".
NoDoubleBound ==
    faults = 0 =>
        \A p, q \in PAs : p # q /\ pa[p].phase = "Bound" /\ pa[q].phase = "Bound" =>
            pa[p].ip # pa[q].ip

\* A server status of Bound in a Bound PA means that the address is in the SG.
BoundIsRegistered ==
    \A p \in PAs : \A i \in SGs :
        pa[p].phase \in {"Binding", "Bound"} /\ pa[p].ss[i] = "Bound" =>
            pa[p].ip \in backends[p][i]

\* One crash, lost write or refused call leaves no backend in the SGs of an Available
\* PA that is not on its way out, and none on its way in: the loop of handleReleasing
\* and the last RemoveServers of resetToAvailable are two lines of defence against
\* "stale backend IPs in the SGs".
AvailableIsEmpty ==
    faults <= 1 =>
        \A p \in PAs : pa[p].phase = "Available" =>
            \A i \in SGs : \A ip \in IPs :
                /\ ip \in backends[p][i] => <<"remove", ip>> \in jobs[p][i]
                /\ <<"add", ip>> \notin jobs[p][i]

\* The claim of a PA that is bound to the Pod is not overwritten by another PA:
\* handleAvailable takes over a claim only if "the PA it points to either
\* doesn't exist or is bound to someone else".
LiveClaimKept ==
    [][\A d \in Pods : \A q \in PAs :
         /\ pod[d] # Null /\ pod'[d] # Null
         /\ pod[d].claim = q /\ pa[q].pod = d
         /\ pa[q].phase \in {"Binding", "Bound"}
         => pod'[d].claim \in {q, Null}]_vars

\* clearPodClaim drops the annotation only "when the annotation still points at
\* this PA": a worker never removes the claim of another PA.
OwnClaimCleared ==
    [][\A d \in Pods : \A p, q \in PAs :
         /\ pod[d] # Null /\ pod[d].claim = q
         /\ pod'[d] # Null /\ pod'[d].claim = Null
         /\ worker'[p] # worker[p]
         => p = q]_vars

-----------------------------------------------------------------------------
(* Liveness, under FairSpec.                                                *)

\* Pod d is running in the pool with its network enabled.
Wanted(d) ==
    pod[d] # Null /\ pod[d].hasIP /\ pod[d].inPool /\ ~pod[d].disabled

BoundTo(p, d) ==
    /\ pod[d] # Null
    /\ pa[p].phase = "Bound"
    /\ pa[p].ip = <<d, pod[d].uid>>

\* A Pod that stays in the pool, enabled, gets a PA for good, whatever crashes,
\* conflicts and throttling came before.  (There are as many PAs as Pods.)
EventuallyBound ==
    \A d \in Pods : <>[]Wanted(d) => <>[](\E p \in PAs : BoundTo(p, d))

\* A release ends: no SG keeps a PA in Releasing for ever.
EventuallyReleased ==
    \A p \in PAs : pa[p].phase = "Releasing" ~> pa[p].phase = "Available"

\* Two PAs do not stay Bound to one Pod: the worker that lost the claim notices
\* at its next reconcile and releases.
DoubleBoundResolved ==
    \A p, q \in PAs : p # q =>
        (pa[p].phase = "Bound" /\ pa[q].phase = "Bound" /\ pa[p].ip = pa[q].ip)
            ~> ~(pa[p].phase = "Bound" /\ pa[q].phase = "Bound" /\ pa[p].ip = pa[q].ip)

\* A Pod that stays in the pool, enabled, ends up registered in every SG of the
\* PA it is bound to: "Binding is stable".
EventuallyServed ==
    \A d \in Pods : <>[]Wanted(d) =>
        <>[](\E p \in PAs : BoundTo(p, d) /\ \A i \in SGs : pa[p].ip \in backends[p][i])
=============================================================================
