-------------------------- MODULE PADeletionProofs --------------------------
(***************************************************************************)
(* A PA that has let its Pod go has no backend left, wherever a deletion    *)
(* cuts in and however far the caches are behind: LetGoIsEmpty, where a     *)
(* cloud call takes effect before it returns.                               *)
(*                                                                          *)
(* The invariant (Cleared) says that the SGs of a PA hold no address but    *)
(* the one that the PA names, that the steps before the last RemoveServers, *)
(* in a release as in a deletion, use that address, and that behind it the  *)
(* SGs are empty.  It rests on what a cached PA that is behind can lead a   *)
(* worker to: a PA that was Binding is not Available again while a cached   *)
(* copy says Binding, so nothing is registered for a PA that has let its    *)
(* Pod go.  Every step is first reduced to what it does to one PA r, its    *)
(* worker w and its SGs b.                                                  *)
(*                                                                          *)
(* And what else a deletion may not break, where reads do not lag:          *)
(* LiveClaimKept, however often Pods are followed by others of their name,  *)
(* and, if none is, OwnClaimCleared.  The invariant (ClaimInv) says that    *)
(* any claim which a PA has on a Pod that it does not name is one that its  *)
(* deletion has left behind (LetGo).  As long as no worker clears the claim *)
(* of another PA, NoDoubleBound holds too: a PA that is Binding, Bound or   *)
(* Disabled with the address of a running Pod has the claim on it, and an   *)
(* address has one holder (HolderInv).                                      *)
(***************************************************************************)
EXTENDS PADeletion, PortAllocationProofs

\* The SGs b hold nothing.
Empty(b) == \A i \in SGs : b[i] = {}

\* The worker has not taken a Pod yet, it is on its way to the last RemoveServers, or
\* past it.
Taking  == {"claimPod", "rollback", "setPodIP", "setBinding"}
Leaving == {"release", "clearPodClaim", "patchPodClaim", "removeServers"}
Left    == {"clearPodClaimAgain", "patchPodClaimAgain", "clearSpec", "setAvailable",
            "removeFinalizer"}

\* The phases in which something may be registered for a PA that has a Pod.
Serving == {"Binding", "Bound", "Releasing"}

\* What the SGs b of the PA r may hold while its worker is w: c is the cached PA and l
\* what the cache says of its life.
Cleared(r, c, w, b, l) ==
    /\ \A i \in SGs : b[i] \subseteq {r.ip}
    /\ r.pod = Null \/ r.phase = "Available" \/ c.ip # r.ip \/ w.pc \in Left => Empty(b)
    /\ w.pc \in Taking => /\ w.to = "none"
                          /\ w.memOK => r.phase = "Available" /\ c.phase = "Available"
    /\ w.pc = "bind" => /\ r.phase \in Serving /\ r.pod # Null
                        /\ w.mem.ip = r.ip /\ c.ip = r.ip
    /\ w.pc \in Leaving => w.mem.ip = r.ip \/ Empty(b)
    /\ l = "live" =>
         /\ c.phase = "Binding" /\ c.pod # Null =>
              r.phase \in Serving /\ r.pod # Null /\ c.ip = r.ip
         /\ r.phase = "Binding" => c.phase \notin {"Bound", "Releasing"}
         /\ w.pc \in {"disable", "deleteSGs"} \cup Leaving \cup Left =>
              r.phase # "Binding" /\ c.phase # "Binding"

\* A PA and a worker are records.  (Their fields may say anything here: a PA may be in
\* the phase Deleting, which PortAllocation does not know.)
IsPA(r) == DOMAIN r = {"phase", "pod", "ip", "ss", "since"}
IsWorker(w) == DOMAIN w = {"pc", "mem", "memOK", "podOK", "i", "to", "clear"}

\* The variables are functions, a cache that is current is, and no PA comes back to life.
FieldsInv ==
    /\ DOMAIN pa = PAs /\ DOMAIN paCache = PAs /\ DOMAIN worker = PAs
    /\ DOMAIN life = PAs /\ DOMAIN lifeCache = PAs
    /\ paSynced \in [PAs -> BOOLEAN]
    /\ DOMAIN backends = PAs /\ \A p \in PAs : DOMAIN backends[p] = SGs
    /\ faults \in Nat
    /\ \A p \in PAs :
         /\ IsPA(pa[p]) /\ IsPA(paCache[p]) /\ IsWorker(worker[p])
         /\ paSynced[p] => paCache[p] = pa[p]
         /\ lifeCache[p] # "live" => life[p] # "live"

\* Until a call fails.
ClearedInv ==
    faults = 0 =>
        \A p \in PAs : Cleared(pa[p], paCache[p], worker[p], backends[p], lifeCache[p])

DeletionInv == FieldsInv /\ ClearedInv

-----------------------------------------------------------------------------
(* One PA.                                                                  *)

\* The worker, in a step that leaves the reservation alone and registers nothing.
ClearedGoes(r, c, w, w2, b2, l) ==
    \/ w2.pc = "idle"
    \/ /\ w2.pc = w.pc /\ w2.mem.ip = w.mem.ip
       /\ w2.pc \in Taking => w2.to = w.to /\ (w2.memOK => w.memOK)
    \/ /\ \/ w2.pc \in {"disable", "deleteSGs"}
          \/ w2.pc \in Leaving /\ (w2.mem.ip = r.ip \/ Empty(b2))
          \/ w2.pc \in Left /\ Empty(b2)
       /\ l = "live" => r.phase # "Binding" /\ c.phase # "Binding"
    \/ /\ w2.pc \in Taking /\ w2.to = "none"
       /\ w2.memOK => r.phase = "Available" /\ c.phase = "Available"
    \/ /\ w2.pc = "bind" /\ w2.mem.ip = r.ip /\ c.ip = r.ip
       /\ r.phase \in Serving /\ r.pod # Null

\* The SGs then hold what they may.
LEMMA ClearedStays ==
  ASSUME NEW r, NEW c, NEW w, NEW b, NEW r2, NEW w2, NEW b2, NEW l, Cleared(r, c, w, b, l),
         \A i \in SGs : b2[i] \subseteq b[i],
         r2.ip = r.ip, r2.pod = r.pod, r2.phase = r.phase,
         ClearedGoes(r, c, w, w2, b2, l)
  PROVE  Cleared(r2, c, w2, b2, l)
<1>1. Empty(b) => Empty(b2)
  BY DEF Empty
<1>2. \A i \in SGs : b2[i] \subseteq {r2.ip}
  BY DEF Cleared
<1> QED
  BY <1>1, <1>2 DEF Cleared, ClearedGoes, Taking, Leaving, Left

\* A step that ends a reconcile with a new phase.
LEMMA ClearedTurns ==
  ASSUME NEW r, NEW c, NEW w, NEW b, NEW r2, NEW w2, NEW l, Cleared(r, c, w, b, l),
         r2.ip = r.ip, r2.pod = r.pod, r2.phase # "Available", w2.pc = "idle",
         l = "live" =>
           /\ c.phase = "Binding" /\ c.pod # Null => r2.phase \in Serving
           /\ r2.phase = "Binding" => c.phase \notin {"Bound", "Releasing"}
  PROVE  Cleared(r2, c, w2, b, l)
BY DEF Cleared, Taking, Leaving, Left

\* A step at whose end nothing is registered.
LEMMA ClearedAnew ==
  ASSUME NEW c, NEW r2, NEW w2, NEW b2, NEW l, Empty(b2),
         \/ w2.pc = "idle" \/ w2.pc \in Left \cup {"deleteSGs"}
         \/ /\ w2.pc \in Taking /\ w2.to = "none"
            /\ w2.memOK => r2.phase = "Available" /\ c.phase = "Available",
         l = "live" =>
           /\ c.phase # "Binding"
           /\ r2.phase = "Binding" =>
                c.phase \notin {"Bound", "Releasing"} /\ w2.pc \notin Left \cup {"deleteSGs"}
  PROVE  Cleared(r2, c, w2, b2, l)
BY DEF Cleared, Empty, Taking, Leaving, Left

\* What holds of a PA before a step ...
Before(p) == Cleared(pa[p], paCache[p], worker[p], backends[p], lifeCache[p])

\* ... what a step of its worker does to it ...
Acts(p) ==
    /\ IsPA(pa'[p]) /\ IsWorker(worker'[p])
    /\ faults' = 0 =>
         /\ faults = 0
         /\ Before(p) => Cleared(pa'[p], paCache[p], worker'[p], backends'[p], lifeCache[p])

\* (A worker that is moved by others only loses what it holds.)
SameWorker(w, w2) ==
    /\ IsWorker(w2) /\ w2.pc = w.pc /\ w2.mem = w.mem /\ w2.to = w.to
    /\ w2.memOK => w.memOK

\* ... and to the others.
Spares(p) ==
    /\ DOMAIN pa' = PAs /\ DOMAIN worker' = PAs /\ UNCHANGED <<paCache, lifeCache>>
    /\ DOMAIN backends' = PAs /\ \A q \in PAs : DOMAIN backends'[q] = SGs
    /\ DOMAIN life' = PAs /\ \A q \in PAs : life[q] # "live" => life'[q] # "live"
    /\ paSynced' \in [PAs -> BOOLEAN] /\ faults' \in Nat
    /\ paSynced'[p] => pa'[p] = paCache[p]
    /\ \A q \in PAs \ {p} :
         /\ pa'[q] = pa[q] /\ paSynced'[q] = paSynced[q] /\ backends'[q] = backends[q]
         /\ SameWorker(worker[q], worker'[q])

\* The invariant, then.
LEMMA OneByOne ==
  ASSUME DeletionInv, NEW p \in PAs, Acts(p), Spares(p)
  PROVE  DeletionInv'
<1>1. ASSUME NEW q \in PAs
      PROVE  /\ IsPA(pa'[q]) /\ IsPA(paCache'[q]) /\ IsWorker(worker'[q])
             /\ paSynced'[q] => paCache'[q] = pa'[q]
             /\ lifeCache'[q] # "live" => life'[q] # "live"
  BY DEF Acts, Spares, SameWorker, DeletionInv, FieldsInv
<1>2. FieldsInv'
  BY <1>1 DEF Spares, DeletionInv, FieldsInv
<1>3. ASSUME faults' = 0, NEW q \in PAs
      PROVE  Cleared(pa'[q], paCache'[q], worker'[q], backends'[q], lifeCache'[q])
  <2>1. faults = 0
    BY <1>3 DEF Acts
  <2>2. Before(q) /\ UNCHANGED <<paCache, lifeCache>>
    BY <2>1 DEF DeletionInv, ClearedInv, Before, Spares
  <2>3. CASE q = p
    BY <1>3, <2>2, <2>3 DEF Acts
  <2>4. CASE q # p
    <3>1. /\ pa'[q] = pa[q] /\ backends'[q] = backends[q]
          /\ SameWorker(worker[q], worker'[q])
      BY <2>4 DEF Spares
    <3>2. ClearedGoes(pa[q], paCache[q], worker[q], worker'[q], backends[q], lifeCache[q])
      BY <3>1 DEF SameWorker, ClearedGoes
    <3> QED
      BY <2>2, <3>1, <3>2, ClearedStays DEF Before
  <2> QED
    BY <2>3, <2>4
<1> QED
  BY <1>2, <1>3 DEF DeletionInv, ClearedInv

\* A fault, or none.
LEMMA FaultCounts ==
  ASSUME FieldsInv, Fault
  PROVE  faults' \in Nat /\ faults' # 0
BY DEF FieldsInv, Fault

\* A write of a Pod moves no worker.
LEMMA OvertakenFields ==
  ASSUME FieldsInv, NEW d, NEW r
  PROVE  /\ DOMAIN Overtaken(d, r) = PAs
         /\ \A q \in PAs : SameWorker(worker[q], Overtaken(d, r)[q])
<1>1. DOMAIN Overtaken(d, r) = PAs
  BY DEF Overtaken
<1>2. ASSUME NEW q \in PAs
      PROVE  Overtaken(d, r)[q] \in {worker[q], [worker[q] EXCEPT !.podOK = FALSE]}
  BY DEF Overtaken
<1>3. ASSUME NEW q \in PAs, NEW w, w = [worker[q] EXCEPT !.podOK = FALSE]
      PROVE  SameWorker(worker[q], w)
  BY <1>3 DEF FieldsInv, IsWorker, SameWorker
<1>4. ASSUME NEW q \in PAs
      PROVE  SameWorker(worker[q], worker[q])
  BY DEF FieldsInv, SameWorker
<1> QED
  BY <1>1, <1>2, <1>3, <1>4

\* A cloud call, which takes effect at once.
LEMMA CallFields ==
  ASSUME CloudAsync = FALSE, FieldsInv, NEW p \in PAs,
         \/ UNCHANGED cloudVars
         \/ \E i, ip : CloudAdd(p, i, ip)
         \/ \E gone : CloudRemove(p, gone)
  PROVE  /\ DOMAIN backends' = PAs /\ \A q \in PAs : DOMAIN backends'[q] = SGs
         /\ \A q \in PAs \ {p} : backends'[q] = backends[q]
BY DEF CloudAdd, CloudRemove, cloudVars, FieldsInv

\* What a worker writes is its own.
LEMMA OwnSpares ==
  ASSUME CloudAsync = FALSE, FieldsInv, NEW p \in PAs, OwnOnly(p), faults' = faults \/ Fault,
         UNCHANGED lifeVars
  PROVE  Spares(p)
<1>1. /\ DOMAIN pa' = PAs /\ UNCHANGED paCache /\ paSynced' \in [PAs -> BOOLEAN]
      /\ \A q \in PAs \ {p} : pa'[q] = pa[q] /\ paSynced'[q] = paSynced[q]
      /\ paSynced'[p] => pa'[p] = paCache[p]
  BY DEF OwnOnly, WritePA, paVars, cacheVars, FieldsInv
<1>2. /\ DOMAIN worker' = PAs
      /\ \A q \in PAs \ {p} : SameWorker(worker[q], worker'[q])
  <2>1. CASE \E d, r, w : worker' = [Overtaken(d, r) EXCEPT ![p] = w]
    BY <2>1, OvertakenFields
  <2>2. CASE UNCHANGED worker \/ \E w : Goto(p, w)
    BY <2>2 DEF Goto, FieldsInv, SameWorker
  <2> QED
    BY <2>1, <2>2 DEF OwnOnly
<1>3. faults' \in Nat /\ UNCHANGED <<life, lifeCache>> /\ DOMAIN life = PAs
  BY FaultCounts DEF FieldsInv, lifeVars
<1> QED
  BY <1>1, <1>2, <1>3, CallFields DEF OwnOnly, Spares

\* A step that leaves the reservation alone and registers nothing.
LEMMA KeepsCleared ==
  ASSUME NEW p \in PAs, faults' = faults \/ (Fault /\ faults' # 0),
         IsPA(pa'[p]), IsWorker(worker'[p]),
         \A i \in SGs : backends'[p][i] \subseteq backends[p][i],
         pa'[p].ip = pa[p].ip, pa'[p].pod = pa[p].pod, pa'[p].phase = pa[p].phase,
         Before(p) => ClearedGoes(pa[p], paCache[p], worker[p], worker'[p], backends'[p],
                                  lifeCache[p])
  PROVE  Acts(p)
BY ClearedStays DEF Acts, Before

-----------------------------------------------------------------------------
(* The steps of the workers of PortAllocation.                              *)

\* The worker that starts afresh, and the PA without a Pod.
LEMMA Fresh ==
    /\ IsWorker(Idle) /\ Idle.pc = "idle" /\ Idle.to = "none"
    /\ IsPA(EmptyPA) /\ EmptyPA.pod = Null /\ EmptyPA.phase = "Available"
    /\ Idle.pc \notin Taking \cup Leaving \cup Left \cup {"bind"}
BY DEF IsWorker, Idle, IsPA, EmptyPA, Taking, Leaving, Left

\* The writes of a PA and of a worker.
LEMMA Written ==
  ASSUME FieldsInv, NEW p \in PAs
  PROVE  /\ \A r : WritePA(p, r) => pa'[p] = r
         /\ \A w : Goto(p, w) => worker'[p] = w
         /\ \A w, d, r : worker' = [Overtaken(d, r) EXCEPT ![p] = w] => worker'[p] = w
         /\ UNCHANGED paVars => pa'[p] = pa[p]
         /\ UNCHANGED cloudVars => backends'[p] = backends[p]
BY DEF WritePA, Goto, Overtaken, paVars, cloudVars, FieldsInv

\* The reconcile ends, and nothing is written.
LEMMA IdleActs ==
  ASSUME FieldsInv, NEW p \in PAs, Goto(p, Idle), UNCHANGED <<paVars, cloudVars>>,
         faults' = faults \/ (Fault /\ faults' # 0)
  PROVE  Acts(p)
<1>1. worker'[p] = Idle /\ pa'[p] = pa[p] /\ backends'[p] = backends[p]
  BY Written
<1>2. ClearedGoes(pa[p], paCache[p], worker[p], Idle, backends[p], lifeCache[p])
  BY Fresh DEF ClearedGoes
<1> QED
  BY <1>1, <1>2, Fresh, KeepsCleared DEF FieldsInv

\* The worker goes on.
LEMMA GotoActs ==
  ASSUME FieldsInv, NEW p \in PAs, NEW w, worker'[p] = w, UNCHANGED paVars, IsWorker(w),
         faults' = faults \/ (Fault /\ faults' # 0),
         \A i \in SGs : backends'[p][i] \subseteq backends[p][i],
         \/ w.pc = worker[p].pc /\ w.pc \notin Taking
         \/ {w.pc, worker[p].pc} \subseteq Leaving
         \/ {w.pc, worker[p].pc} \subseteq Left,
         w.mem = worker[p].mem
  PROVE  Acts(p)
<1>1. pa'[p] = pa[p]
  BY Written
<1>2. ASSUME Before(p)
      PROVE  ClearedGoes(pa[p], paCache[p], worker[p], w, backends'[p], lifeCache[p])
  <2>1. Empty(backends[p]) => Empty(backends'[p])
    BY DEF Empty
  <2> QED
    BY <1>2, <2>1 DEF Before, Cleared, ClearedGoes
<1> QED
  BY <1>1, <1>2, KeepsCleared DEF FieldsInv

\* Where a reconcile starts.
LEMMA StartsCurrent ==
  ASSUME FieldsInv, NEW p \in PAs, paSynced[p]
  PROVE  paCache[p] = pa[p]
BY DEF FieldsInv

\* The steps of handleAvailable.
LEMMA ClaimActs ==
  ASSUME FieldsInv, NEW p \in PAs,
         \/ \E d \in Pods : HandleAvailable(p, d)
         \/ ClaimPod(p) \/ ClaimPodFails(p) \/ (RollBack(p) /\ CurrentPA(p)) \/ SetBinding(p)
  PROVE  Acts(p)
<1>1. IsPA(pa[p]) /\ IsWorker(worker[p])
  BY DEF FieldsInv
<1>2. ASSUME NEW d \in Pods, HandleAvailable(p, d) PROVE Acts(p)
  <2>1. PICK r, w : /\ r = [pa[p] EXCEPT !.pod = d, !.ip = <<d, podCache[d].uid>>]
                    /\ w = [Idle EXCEPT !.pc = "claimPod", !.mem = r, !.memOK = TRUE,
                                        !.podOK = podSynced[d]]
    OBVIOUS
  <2>2. pa'[p] = r /\ worker'[p] = w /\ backends'[p] = backends[p] /\ faults' = faults
    BY <1>2, <2>1, Written DEF HandleAvailable
  <2>3. /\ IsPA(r) /\ r.phase = pa[p].phase
        /\ IsWorker(w) /\ w.pc = "claimPod" /\ w.to = "none"
    BY <1>1, <2>1, Fresh DEF IsPA, IsWorker
  <2>4. pa[p].phase = "Available" /\ paCache[p].phase = "Available"
    BY <1>2, StartsCurrent DEF HandleAvailable, Reconcile
  <2>5. Before(p) => Empty(backends[p])
    BY <2>4 DEF Before, Cleared
  <2> QED
    BY <2>2, <2>3, <2>4, <2>5, ClearedAnew DEF Acts, Taking
<1>3. CASE ClaimPod(p) \/ ClaimPodFails(p)
  <2>1. PICK l, w : /\ l \in {"setBinding", "rollback"} /\ worker'[p] = w
                    /\ w = [worker[p] EXCEPT !.pc = l, !.podOK = FALSE]
    BY <1>3 DEF ClaimPod, ClaimPodFails, Goto, SetClaim, Overtaken, FieldsInv
  <2>2. IsWorker(w) /\ w.pc = l /\ w.to = worker[p].to /\ w.memOK = worker[p].memOK
    BY <1>1, <2>1 DEF IsWorker
  <2>3. /\ worker[p].pc = "claimPod" /\ pa'[p] = pa[p] /\ backends'[p] = backends[p]
        /\ faults' = faults \/ (Fault /\ faults' # 0)
    BY <1>3, Written, FaultCounts DEF ClaimPod, ClaimPodFails, At
  <2>4. Before(p) =>
          ClearedGoes(pa[p], paCache[p], worker[p], w, backends[p], lifeCache[p])
    BY <2>1, <2>2, <2>3 DEF Before, Cleared, ClearedGoes, Taking
  <2> QED
    BY <1>1, <2>1, <2>2, <2>3, <2>4, KeepsCleared
<1>4. CASE RollBack(p) /\ CurrentPA(p)
  <2>1. PICK r : r = Unreserved(p)
    OBVIOUS
  <2>2. IsPA(r) /\ r.phase = pa[p].phase
    BY <1>1, <2>1 DEF Unreserved, IsPA
  <2>3. /\ pa'[p] = r /\ worker'[p] = Idle /\ backends'[p] = backends[p] /\ faults' = faults
        /\ worker[p].pc = "rollback" /\ worker[p].memOK
    BY <1>4, <2>1, Written DEF RollBack, At, CurrentPA
  <2>4. Before(p) => /\ Empty(backends[p])
                     /\ pa[p].phase = "Available" /\ paCache[p].phase = "Available"
    BY <2>3 DEF Before, Cleared, Taking
  <2> QED
    BY <2>2, <2>3, <2>4, Fresh, ClearedAnew DEF Acts
<1>5. CASE SetBinding(p)
  <2>1. CASE ~CurrentPA(p)
    BY <1>5, <2>1, IdleActs DEF SetBinding
  <2>2. CASE CurrentPA(p)
    <3>1. PICK r : r = [pa[p] EXCEPT !.phase = "Binding"]
      OBVIOUS
    <3>2. IsPA(r) /\ r.phase = "Binding" /\ r.pod = pa[p].pod /\ r.ip = pa[p].ip
      BY <1>1, <3>1 DEF IsPA
    <3>3. /\ pa'[p] = r /\ worker'[p] = Idle /\ backends'[p] = backends[p]
          /\ faults' = faults /\ worker[p].pc = "setBinding" /\ worker[p].memOK
      BY <1>5, <2>2, <3>1, Written DEF SetBinding, At, CurrentPA
    <3>4. Before(p) => paCache[p].phase = "Available"
      BY <3>3 DEF Before, Cleared, Taking
    <3> QED
      BY <3>2, <3>3, <3>4, Fresh, ClearedTurns DEF Acts, Before
  <2> QED
    BY <2>1, <2>2
<1> QED
  BY <1>2, <1>3, <1>4, <1>5

\* The steps of availableResumeBind.
LEMMA ResumeActs ==
  ASSUME FieldsInv, NEW p \in PAs,
         \/ ResumeConfirmed(p) \/ ResumeClaim(p) \/ ResumeClear(p) \/ ResumeClaimFails(p)
         \/ SetPodIP(p)
  PROVE  Acts(p)
<1>1. IsPA(pa[p]) /\ IsWorker(worker[p])
  BY DEF FieldsInv
<1>2. CASE ResumeConfirmed(p) \/ ResumeClaim(p)
  <2>1. PICK ip : worker'[p] = ResumeWith(p, ip) \/ worker'[p] = Idle
    BY <1>2 DEF ResumeConfirmed, ResumeClaim, Goto, SetClaim, Overtaken, FieldsInv
  <2>2. PICK w : w = ResumeWith(p, ip)
    OBVIOUS
  <2>3. /\ IsWorker(w) /\ w.pc \in {"setBinding", "setPodIP"}
        /\ w.to = "none" /\ w.memOK = paSynced[p]
    BY <2>2, Fresh DEF ResumeWith, IsWorker
  <2>4. /\ pa'[p] = pa[p] /\ backends'[p] = backends[p] /\ faults' = faults
        /\ paCache[p].phase = "Available"
    BY <1>2, Written DEF ResumeConfirmed, ResumeClaim, Resume, Reconcile
  <2>5. w.memOK => pa[p].phase = "Available"
    BY <2>3, <2>4, StartsCurrent
  <2>6. \A v \in {w, Idle} :
          ClearedGoes(pa[p], paCache[p], worker[p], v, backends[p], lifeCache[p])
    BY <2>3, <2>4, <2>5, Fresh DEF ClearedGoes, Taking
  <2> QED
    BY <1>1, <2>1, <2>2, <2>3, <2>4, <2>6, Fresh, KeepsCleared
<1>3. CASE ResumeClear(p) \/ ResumeClaimFails(p)
  <2>1. PICK r : r = Unreserved(p)
    OBVIOUS
  <2>2. IsPA(r) /\ r.phase = pa[p].phase
    BY <1>1, <2>1 DEF Unreserved, IsPA
  <2>3. /\ pa'[p] = r /\ backends'[p] = backends[p] /\ worker'[p] = worker[p]
        /\ faults' = faults \/ (Fault /\ faults' # 0)
        /\ worker[p].pc = "idle" /\ paCache[p].phase = "Available" /\ paSynced[p]
    BY <1>3, <2>1, Written, FaultCounts
    DEF ResumeClear, ResumeClaimFails, Resume, Reconcile, At
  <2>4. pa[p].phase = "Available"
    BY <2>3, StartsCurrent
  <2>5. Before(p) => Empty(backends[p])
    BY <2>4 DEF Before, Cleared
  <2> QED
    BY <1>1, <2>2, <2>3, <2>4, <2>5, ClearedAnew DEF Acts
<1>4. CASE SetPodIP(p)
  <2>1. CASE ~CurrentPA(p)
    BY <1>4, <2>1, IdleActs DEF SetPodIP
  <2>2. CASE CurrentPA(p)
    <3>1. PICK r, w : /\ r = [pa[p] EXCEPT !.ip = worker[p].mem.ip]
                      /\ w = [worker[p] EXCEPT !.pc = "setBinding"]
      OBVIOUS
    <3>2. /\ IsPA(r) /\ r.phase = pa[p].phase
          /\ IsWorker(w) /\ w.pc = "setBinding" /\ w.to = worker[p].to
      BY <1>1, <3>1 DEF IsPA, IsWorker
    <3>3. /\ pa'[p] = r /\ worker'[p] = w /\ backends'[p] = backends[p] /\ faults' = faults
          /\ worker[p].pc = "setPodIP" /\ worker[p].memOK
      BY <1>4, <2>2, <3>1, Written DEF SetPodIP, At, CurrentPA
    <3>4. Before(p) =>
            /\ pa[p].phase = "Available" /\ paCache[p].phase = "Available"
            /\ Empty(backends[p]) /\ worker[p].to = "none"
      BY <3>3 DEF Before, Cleared, Taking
    <3> QED
      BY <3>2, <3>3, <3>4, ClearedAnew DEF Acts, Taking
  <2> QED
    BY <2>1, <2>2
<1> QED
  BY <1>2, <1>3, <1>4

\* A handler that ends in one CAS on the status.
LEMMA MoveActs ==
  ASSUME FieldsInv, NEW p \in PAs, NEW from, NEW phase,
         Reconcile(p, from), MovePhase(p, phase),
         phase = "Releasing" \/ (phase = "Binding" /\ from = "Disabled")
  PROVE  Acts(p)
<1>1. PICK r : r = [pa[p] EXCEPT !.phase = phase]
  OBVIOUS
<1>2. IsPA(r) /\ r.phase = phase /\ r.pod = pa[p].pod /\ r.ip = pa[p].ip
  BY <1>1 DEF IsPA, FieldsInv
<1>3. /\ pa'[p] = r /\ worker'[p] = worker[p] /\ backends'[p] = backends[p]
      /\ faults' = faults /\ worker[p].pc = "idle" /\ paCache[p].phase = from
  BY <1>1, Written DEF MovePhase, Reconcile, At
<1>4. Before(p) => Cleared(r, paCache[p], worker[p], backends[p], lifeCache[p])
  BY <1>2, <1>3, ClearedTurns DEF Before, Serving
<1> QED
  BY <1>2, <1>3, <1>4 DEF Acts, FieldsInv

\* The start of a loop.  (Only a live PA is bound.)
LEMMA StartActs ==
  ASSUME FieldsInv, NEW p \in PAs, At(p, "idle") => lifeCache[p] = "live",
         HandleBinding(p) \/ HandleDisable(p) \/ HandleReleasing(p)
  PROVE  Acts(p)
<1>1. IsPA(pa[p]) /\ IsPA(paCache[p]) /\ lifeCache[p] = "live"
  BY DEF FieldsInv, HandleBinding, HandleDisable, HandleReleasing, Reconcile
<1>2. PICK r : r = [pa[p] EXCEPT !.since = TRUE]
  OBVIOUS
<1>3. IsPA(r) /\ r.ip = pa[p].ip /\ r.pod = pa[p].pod /\ r.phase = pa[p].phase
  BY <1>1, <1>2 DEF IsPA
<1>4. PICK label, copy, current :
        /\ StartLoop(p, label, copy, current)
        /\ copy.ip \in {pa[p].ip, paCache[p].ip}
        /\ \/ label = "bind" /\ paCache[p].phase = "Binding" /\ paCache[p].pod # Null
              /\ copy.ip = paCache[p].ip
           \/ label = "disable" /\ paCache[p].phase = "Bound"
           \/ label = "release" /\ paCache[p].phase = "Releasing"
  <2>1. CASE HandleBinding(p)
    BY <2>1 DEF HandleBinding, Reconcile, StillClaimed, CachedPod
  <2>2. CASE HandleDisable(p)
    BY <2>2 DEF HandleDisable, Reconcile
  <2>3. CASE HandleReleasing(p)
    <3>1. Decode(paCache[p], r).ip \in {pa[p].ip, paCache[p].ip}
      BY <1>1, <1>3 DEF Decode
    <3> QED
      BY <1>2, <2>3, <3>1 DEF HandleReleasing, Reconcile
  <2> QED
    BY <2>1, <2>2, <2>3
<1>5. PICK w : w = [Idle EXCEPT !.pc = label, !.mem = copy, !.memOK = current]
  OBVIOUS
<1>6. worker'[p] = w /\ IsWorker(w) /\ w.pc = label /\ w.mem = copy
  BY <1>4, <1>5, Fresh, Written DEF StartLoop, IsWorker
<1>7. pa'[p] \in {pa[p], r} /\ backends'[p] = backends[p] /\ faults' = faults
  BY <1>2, Written DEF HandleBinding, HandleDisable, HandleReleasing
<1>8. ASSUME Before(p)
      PROVE  ClearedGoes(pa[p], paCache[p], worker[p], w, backends[p], lifeCache[p])
  BY <1>1, <1>4, <1>6, <1>8 DEF Before, Cleared, ClearedGoes, Leaving
<1> QED
  BY <1>1, <1>3, <1>6, <1>7, <1>8, KeepsCleared

\* The steps of a loop that leave the PA as it is, and register nothing.
LEMMA NextActs ==
  ASSUME FieldsInv, NEW p \in PAs, UNCHANGED paVars, worker[p].pc \notin Taking,
         \/ \E clear : NextSG(p, clear)
         \/ \E status : PatchNext(p, status),
         faults' = faults \/ (Fault /\ faults' # 0),
         \A i \in SGs : backends'[p][i] \subseteq backends[p][i]
  PROVE  Acts(p)
<1>1. IsWorker(worker[p])
  BY DEF FieldsInv
<1>2. CASE \E clear : NextSG(p, clear)
  <2>1. PICK clear, w : /\ Goto(p, w)
                        /\ w = [worker[p] EXCEPT !.i = @ + 1, !.clear = @ /\ clear]
    BY <1>2 DEF NextSG
  <2>2. IsWorker(w) /\ w.pc = worker[p].pc /\ w.mem = worker[p].mem
    BY <1>1, <2>1 DEF IsWorker
  <2> QED
    BY <2>1, <2>2, Written, GotoActs
<1>3. CASE \E status : PatchNext(p, status)
  <2>1. PICK status, w : Goto(p, w) /\ w = [worker[p] EXCEPT !.to = status]
    BY <1>3 DEF PatchNext
  <2>2. IsWorker(w) /\ w.pc = worker[p].pc /\ w.mem = worker[p].mem
    BY <1>1, <2>1 DEF IsWorker
  <2> QED
    BY <2>1, <2>2, Written, GotoActs
<1> QED
  BY <1>2, <1>3

\* A call that removes.
LEMMA RemoveShrinks ==
  ASSUME CloudAsync = FALSE, FieldsInv, NEW p \in PAs, NEW gone, CloudRemove(p, gone)
  PROVE  \A i \in SGs : backends'[p][i] = backends[p][i] \ gone[i]
BY DEF CloudRemove, FieldsInv

\* The patch of a server status.
LEMMA PatchActs ==
  ASSUME FieldsInv, NEW p \in PAs, PatchServerStatus(p)
  PROVE  Acts(p)
<1>1. IsPA(pa[p]) /\ IsWorker(worker[p])
  BY DEF FieldsInv
<1>2. PICK r : r = [pa[p] EXCEPT !.ss[worker[p].i] = worker[p].to]
  OBVIOUS
<1>3. IsPA(r) /\ r.ip = pa[p].ip /\ r.pod = pa[p].pod /\ r.phase = pa[p].phase
  BY <1>1, <1>2 DEF IsPA
<1>4. PICK m : m = [Decode(worker[p].mem, r) EXCEPT !.ss[worker[p].i] = worker[p].to]
  OBVIOUS
<1>5. m.ip \in {worker[p].mem.ip, pa[p].ip}
  BY <1>3, <1>4 DEF Decode
<1>6. PICK w : w = [worker[p] EXCEPT !.mem = m, !.memOK = TRUE, !.to = "none", !.i = @ + 1,
                       !.clear = @ /\ worker[p].to = Goal(worker[p].pc)]
  OBVIOUS
<1>7. IsWorker(w) /\ w.pc = worker[p].pc /\ w.mem = m
  BY <1>1, <1>6 DEF IsWorker
<1>8. /\ pa'[p] = r /\ worker'[p] = w /\ backends'[p] = backends[p] /\ faults' = faults
      /\ worker[p].to # "none"
  BY <1>2, <1>4, <1>6, Written DEF PatchServerStatus
<1>9. Before(p) => Cleared(r, paCache[p], w, backends[p], lifeCache[p])
  BY <1>3, <1>5, <1>7, <1>8 DEF Before, Cleared
<1> QED
  BY <1>3, <1>7, <1>8, <1>9 DEF Acts

\* The loops of handleBinding, handleDisable and handleReleasing.
LEMMA LoopActs ==
  ASSUME CloudAsync = FALSE, FieldsInv, NEW p \in PAs,
         \/ SkipSG(p) \/ Throttled(p) \/ PollAdding(p) \/ AddServers(p) \/ PollRemoving(p)
         \/ RemoveServer(p) \/ ListAndRemove(p)
  PROVE  Acts(p)
<1>1. IsPA(pa[p]) /\ IsWorker(worker[p])
  BY DEF FieldsInv
<1>2. worker[p].pc \in {"bind", "disable", "release"} /\ worker[p].pc \notin Taking
  BY DEF SkipSG, Throttled, PollAdding, AddServers, PollRemoving, RemoveServer, ListAndRemove,
     AtSG, InLoop, At, Taking
<1>3. CASE SkipSG(p) \/ Throttled(p) \/ PollAdding(p) \/ PollRemoving(p)
  <2>1. \A i \in SGs : backends'[p][i] \subseteq backends[p][i]
    BY <1>3, Written DEF SkipSG, Throttled, PollAdding, PollRemoving
  <2> QED
    BY <1>2, <1>3, <2>1, NextActs, FaultCounts
    DEF SkipSG, Throttled, PollAdding, PollRemoving
<1>4. CASE RemoveServer(p)
  <2>1. CASE Goto(p, Idle) /\ UNCHANGED cloudVars
    BY <1>4, <2>1, IdleActs DEF RemoveServer
  <2>2. CASE ~(Goto(p, Idle) /\ UNCHANGED cloudVars)
    <3>1. UNCHANGED cloudVars \/ \E gone : CloudRemove(p, gone)
      BY <1>4, <2>2 DEF RemoveServer
    <3>2. \A i \in SGs : backends'[p][i] \subseteq backends[p][i]
      BY <3>1, Written, RemoveShrinks
    <3> QED
      BY <1>2, <1>4, <2>2, <3>2, NextActs DEF RemoveServer
  <2> QED
    BY <2>1, <2>2
<1>5. CASE ListAndRemove(p)
  <2>1. UNCHANGED cloudVars \/ \E gone : CloudRemove(p, gone)
    BY <1>5 DEF ListAndRemove
  <2>2. \A i \in SGs : backends'[p][i] \subseteq backends[p][i]
    BY <2>1, Written, RemoveShrinks
  <2> QED
    BY <1>2, <1>5, <2>2, NextActs, FaultCounts DEF ListAndRemove
<1>6. CASE AddServers(p)
  <2>1. CASE UNCHANGED cloudVars
    <3>1. \A i \in SGs : backends'[p][i] \subseteq backends[p][i]
      BY <2>1, Written
    <3> QED
      BY <1>2, <1>6, <3>1, NextActs DEF AddServers
  <2>2. CASE CloudAdd(p, worker[p].i, worker[p].mem.ip)
    <3>1. PICK w : Goto(p, w) /\ w = [worker[p] EXCEPT !.to = "Adding"]
      BY <1>6 DEF AddServers, PatchNext
    <3>2. IsWorker(w) /\ w.pc = worker[p].pc /\ w.mem = worker[p].mem
      BY <1>1, <3>1 DEF IsWorker
    <3>3. /\ worker'[p] = w /\ pa'[p] = pa[p] /\ faults' = faults
          /\ worker[p].pc = "bind"
      BY <1>6, <3>1, Written DEF AddServers, AtSG, InLoop, At
    <3>4. \A i \in SGs : backends'[p][i] \subseteq backends[p][i] \cup {worker[p].mem.ip}
      BY <2>2 DEF CloudAdd, FieldsInv
    <3>5. Before(p) => Cleared(pa[p], paCache[p], w, backends'[p], lifeCache[p])
      BY <3>2, <3>3, <3>4 DEF Before, Cleared, Taking, Leaving, Left, Serving
    <3> QED
      BY <1>1, <3>2, <3>3, <3>5 DEF Acts
  <2> QED
    BY <1>6, <2>1, <2>2 DEF AddServers
<1> QED
  BY <1>3, <1>4, <1>5, <1>6

\* The end of a loop.
LEMMA EndActs ==
  ASSUME FieldsInv, NEW p \in PAs,
         FinishBinding(p) \/ FinishDisable(p) \/ FinishReleasing(p)
  PROVE  Acts(p)
<1>1. IsPA(pa[p]) /\ IsWorker(worker[p])
  BY DEF FieldsInv
<1>2. ASSUME NEW label, NEW phase, EndLoop(p, label, phase),
             \/ label = "bind" /\ phase = "Bound"
             \/ label = "disable" /\ phase = "Disabled"
      PROVE  Acts(p)
  <2>1. PICK r : r = [pa[p] EXCEPT !.phase = phase, !.ss = worker[p].mem.ss]
    OBVIOUS
  <2>2. IsPA(r) /\ r.phase = phase /\ r.pod = pa[p].pod /\ r.ip = pa[p].ip
    BY <1>1, <2>1 DEF IsPA
  <2>3. /\ pa'[p] = r \/ UNCHANGED paVars
        /\ worker'[p] = Idle /\ backends'[p] = backends[p] /\ faults' = faults
        /\ Goto(p, Idle) /\ UNCHANGED cloudVars /\ worker[p].pc = label
    BY <1>2, <2>1, Written DEF EndLoop, LoopDone, At
  <2>4. Before(p) => Cleared(r, paCache[p], Idle, backends[p], lifeCache[p])
    <3>1. Before(p) /\ lifeCache[p] = "live" /\ label = "disable" =>
            paCache[p].phase # "Binding"
      BY <2>3 DEF Before, Cleared
    <3> QED
      BY <1>2, <2>2, <3>1, Fresh, ClearedTurns DEF Before, Serving
  <2>5. CASE pa'[p] = r
    BY <2>2, <2>3, <2>4, <2>5, Fresh DEF Acts
  <2>6. CASE UNCHANGED paVars
    BY <2>3, <2>6, IdleActs
  <2> QED
    BY <2>3, <2>5, <2>6
<1>3. CASE FinishReleasing(p)
  <2>1. PICK w : w = [worker[p] EXCEPT !.pc = "clearPodClaim"]
    OBVIOUS
  <2>2. IsWorker(w) /\ w.pc = "clearPodClaim" /\ w.mem = worker[p].mem
    BY <1>1, <2>1 DEF IsWorker
  <2>3. worker[p].pc = "release"
    BY <1>3 DEF FinishReleasing, LoopDone, At
  <2>4. \A i \in SGs : backends'[p][i] \subseteq backends[p][i]
    BY <1>3, Written DEF FinishReleasing
  <2>5. Goto(p, w) \/ Goto(p, Idle)
    BY <1>3, <2>1 DEF FinishReleasing
  <2> QED
    BY <1>3, <2>2, <2>3, <2>4, <2>5, Written, GotoActs, IdleActs DEF FinishReleasing, Leaving
<1> QED
  BY <1>2, <1>3 DEF FinishBinding, FinishDisable

\* clearPodClaim.
LEMMA PodClaimActs ==
  ASSUME FieldsInv, NEW p \in PAs,
         ClearPodClaim(p) \/ ClearPodClaimAgain(p) \/ PatchPodClaimFails(p)
  PROVE  Acts(p)
<1>1. IsWorker(worker[p])
  BY DEF FieldsInv
<1>2. PICK next : /\ worker'[p] = [worker[p] EXCEPT !.pc = next]
                  /\ \/ {next, worker[p].pc} \subseteq Leaving
                     \/ {next, worker[p].pc} \subseteq Left
  <2>1. ASSUME NEW label, NEW patch, NEW next, ReadPodClaim(p, label, patch, next)
        PROVE  /\ worker[p].pc = label
               /\ \E l \in {patch, next} : worker'[p] = [worker[p] EXCEPT !.pc = l]
    BY <2>1, Written DEF ReadPodClaim, At
  <2>2. ASSUME NEW label, NEW next, PatchPodClaim(p, label, next)
        PROVE  worker[p].pc = label /\ worker'[p] = [worker[p] EXCEPT !.pc = next]
    <3>1. PICK d, r, w : /\ worker' = [Overtaken(d, r) EXCEPT ![p] = w]
                         /\ w = [worker[p] EXCEPT !.pc = next]
      BY <2>2 DEF PatchPodClaim
    <3>2. worker'[p] = w
      BY <3>1, Written
    <3> QED
      BY <2>2, <3>1, <3>2 DEF PatchPodClaim, At
  <2>3. CASE ClearPodClaim(p)
    BY <2>1, <2>2, <2>3 DEF ClearPodClaim, Leaving
  <2>4. CASE ClearPodClaimAgain(p)
    <3>1. CASE ReadPodClaim(p, "clearPodClaimAgain", "patchPodClaimAgain", "clearSpec")
      <4>1. PICK l \in {"patchPodClaimAgain", "clearSpec"} :
              worker'[p] = [worker[p] EXCEPT !.pc = l]
        BY <2>1, <3>1
      <4>2. {l, worker[p].pc} \subseteq Left
        BY <2>1, <3>1 DEF Left
      <4> QED
        BY <4>1, <4>2
    <3>2. CASE PatchPodClaim(p, "patchPodClaimAgain", "clearSpec")
      BY <2>2, <3>2 DEF Left
    <3> QED
      BY <2>4, <3>1, <3>2 DEF ClearPodClaimAgain
  <2>5. CASE PatchPodClaimFails(p)
    <3>1. CASE At(p, "patchPodClaim")
      BY <2>5, <3>1, Written DEF PatchPodClaimFails, At, Leaving
    <3>2. CASE At(p, "patchPodClaimAgain")
      BY <2>5, <3>2, Written DEF PatchPodClaimFails, At, Left
    <3> QED
      BY <2>5, <3>1, <3>2 DEF PatchPodClaimFails
  <2> QED
    BY <2>3, <2>4, <2>5
<1>3. PICK w : w = [worker[p] EXCEPT !.pc = next] /\ worker'[p] = w
  BY <1>2
<1>4. IsWorker(w) /\ w.pc = next /\ w.mem = worker[p].mem
  BY <1>1, <1>3 DEF IsWorker
<1>5. UNCHANGED <<paVars, cloudVars>> /\ (faults' = faults \/ (Fault /\ faults' # 0))
  BY FaultCounts DEF ClearPodClaim, ClearPodClaimAgain, ReadPodClaim, PatchPodClaim,
     PatchPodClaimFails
<1>6. \A i \in SGs : backends'[p][i] \subseteq backends[p][i]
  BY <1>5, Written
<1> QED
  BY <1>2, <1>3, <1>4, <1>5, <1>6, GotoActs

\* The last RemoveServers and what follows it.
LEMMA EmptyActs ==
  ASSUME CloudAsync = FALSE, FieldsInv, NEW p \in PAs,
         RemoveServers(p) \/ ClearSpec(p) \/ SetAvailable(p)
  PROVE  Acts(p)
<1>1. IsPA(pa[p]) /\ IsWorker(worker[p])
  BY DEF FieldsInv
<1>2. CASE RemoveServers(p)
  <2>1. PICK w : Goto(p, w) /\ w = [worker[p] EXCEPT !.pc = "clearPodClaimAgain"]
    BY <1>2 DEF RemoveServers
  <2>2. IsWorker(w) /\ w.pc = "clearPodClaimAgain"
    BY <1>1, <2>1 DEF IsWorker
  <2>3. worker'[p] = w /\ pa'[p] = pa[p] /\ worker[p].pc = "removeServers"
    BY <1>2, <2>1, Written DEF RemoveServers, At
  <2>4. PICK missed :
          /\ missed \subseteq {i \in SGs : worker[p].mem.ip \in backends[p][i]}
          /\ IF missed = {} THEN UNCHANGED faults ELSE Fault
          /\ \A i \in SGs : backends'[p][i] = backends[p][i] \
               (IF worker[p].mem.ip \in backends[p][i] /\ i \notin missed
                  THEN {worker[p].mem.ip} ELSE {})
    <3>1. PICK present : present = {i \in SGs : worker[p].mem.ip \in backends[p][i]}
      OBVIOUS
    <3>2. PICK missed, gone :
            /\ missed \subseteq present
            /\ IF missed = {} THEN UNCHANGED faults ELSE Fault
            /\ gone = [i \in SGs |-> IF i \in present \ missed
                                       THEN {worker[p].mem.ip} ELSE {}]
            /\ CloudRemove(p, gone)
      BY <1>2, <3>1 DEF RemoveServers
    <3>3. \A i \in SGs : backends'[p][i] = backends[p][i] \ gone[i]
      BY <3>2, RemoveShrinks
    <3>4. \A i \in SGs :
            gone[i] = IF worker[p].mem.ip \in backends[p][i] /\ i \notin missed
                        THEN {worker[p].mem.ip} ELSE {}
      BY <3>1, <3>2
    <3> QED
      BY <3>1, <3>2, <3>3, <3>4
  <2>5. ASSUME faults' = 0, Before(p)
        PROVE  Empty(backends'[p])
    <3>1. missed = {}
      BY <2>4, <2>5, FaultCounts
    <3>2. Empty(backends[p]) \/ \A i \in SGs : backends[p][i] \subseteq {worker[p].mem.ip}
      BY <2>3, <2>5 DEF Before, Cleared, Leaving
    <3> QED
      BY <2>4, <3>1, <3>2 DEF Empty
  <2>6. ASSUME Before(p)
        PROVE  lifeCache[p] = "live" => pa[p].phase # "Binding" /\ paCache[p].phase # "Binding"
    BY <2>3, <2>6 DEF Before, Cleared, Leaving
  <2>7. faults' = 0 => faults = 0
    BY <2>4, FaultCounts
  <2>8. ASSUME faults' = 0, Before(p)
        PROVE  Cleared(pa[p], paCache[p], w, backends'[p], lifeCache[p])
    BY <2>2, <2>5, <2>6, <2>8, ClearedAnew DEF Left
  <2> QED
    BY <1>1, <2>2, <2>3, <2>7, <2>8 DEF Acts
<1>3. ASSUME ClearSpec(p) \/ SetAvailable(p),
             ~(Goto(p, Idle) /\ UNCHANGED <<paVars, cloudVars>>)
      PROVE  Acts(p)
  <2>1. PICK r, w :
          /\ WritePA(p, r) /\ Goto(p, w)
          /\ \/ /\ r = [pa[p] EXCEPT !.pod = Null, !.ip = Null, !.since = FALSE]
                /\ w = [worker[p] EXCEPT !.pc = "setAvailable"]
             \/ /\ r = [pa[p] EXCEPT !.phase = "Available", !.ss = [i \in SGs |-> ""]]
                /\ w = Idle
    BY <1>3 DEF ClearSpec, SetAvailable
  <2>2. /\ IsPA(r) /\ IsWorker(w) /\ w.pc \in {"idle", "setAvailable"}
        /\ r.phase \in {pa[p].phase, "Available"}
    BY <1>1, <2>1, Fresh DEF IsPA, IsWorker
  <2>3. /\ pa'[p] = r /\ worker'[p] = w /\ backends'[p] = backends[p] /\ faults' = faults
        /\ worker[p].pc \in Left
    BY <1>3, <2>1, Written DEF ClearSpec, SetAvailable, At, Left
  <2>4. Before(p) =>
          /\ Empty(backends[p])
          /\ lifeCache[p] = "live" => r.phase # "Binding" /\ paCache[p].phase # "Binding"
    BY <2>2, <2>3 DEF Before, Cleared
  <2> QED
    BY <2>2, <2>3, <2>4, ClearedAnew DEF Acts, Left
<1> QED
  BY <1>2, <1>3, IdleActs DEF ClearSpec, SetAvailable

\* Every step of a worker of PortAllocation, where a deletion leaves it to it.
LEMMA WorkerActs ==
  ASSUME CloudAsync = FALSE, FieldsInv, NEW p \in PAs, Base(p),
         WorkerStep(p) \/ WorkerFails(p)
  PROVE  Acts(p)
<1>1. CASE \/ AbortBinding(p) \/ HandleBound(p) \/ DisabledPodGone(p) \/ ReEnable(p)
  BY <1>1, MoveActs DEF AbortBinding, HandleBound, DisabledPodGone, ReEnable
<1>2. CASE HandleBinding(p) \/ HandleDisable(p) \/ HandleReleasing(p)
  BY <1>2, StartActs DEF Base
<1>3. CASE Abort(p)
  BY <1>3, IdleActs, FaultCounts DEF Abort
<1>4. RollBack(p) => CurrentPA(p)
  BY DEF Base, Conflict, RollBack
<1> QED
  BY <1>1, <1>2, <1>3, <1>4, ClaimActs, ResumeActs, LoopActs, EndActs, PodClaimActs,
     EmptyActs, PatchActs DEF WorkerStep, WorkerFails

-----------------------------------------------------------------------------
(* The steps of a deletion.                                                 *)

\* The steps that PortAllocation does not have, but for the last two.
LEMMA DeletionActs ==
  ASSUME CloudAsync = FALSE, FieldsInv, NEW p \in PAs,
         StartDeletion(p) \/ Forget(p) \/ WaitForCloud(p) \/ GiveUp(p)
  PROVE  Acts(p) /\ Spares(p)
<1>1. IsPA(pa[p]) /\ IsPA(paCache[p]) /\ IsWorker(worker[p])
  BY DEF FieldsInv
<1>2. faults' = faults \/ (Fault /\ faults' # 0)
  BY FaultCounts DEF StartDeletion, Forget, WaitForCloud, GiveUp
<1>3. OwnOnly(p) /\ UNCHANGED lifeVars
  BY DEF StartDeletion, Forget, WaitForCloud, GiveUp, OwnOnly
<1>4. CASE StartDeletion(p)
  <2>1. PICK r, m, w : /\ r = [pa[p] EXCEPT !.phase = "Deleting"]
                       /\ m = [paCache[p] EXCEPT !.phase = "Deleting"]
                       /\ w = [Idle EXCEPT !.pc = First(p), !.mem = m, !.memOK = paSynced[p]]
    OBVIOUS
  <2>2. /\ IsPA(r) /\ r.phase = "Deleting" /\ r.pod = pa[p].pod /\ r.ip = pa[p].ip
        /\ m.ip = paCache[p].ip
    BY <1>1, <2>1 DEF IsPA
  <2>3. IsWorker(w) /\ w.pc \in {"removeServers", "deleteSGs"} /\ w.mem = m
    BY <2>1, Fresh DEF First, IsWorker
  <2>4. /\ pa'[p] \in {r, pa[p]} /\ worker'[p] = w /\ backends'[p] = backends[p]
        /\ lifeCache[p] = "deleting"
    BY <1>4, <2>1, Written DEF StartDeletion
  <2>5. ASSUME Before(p), NEW v \in {r, pa[p]}
        PROVE  Cleared(v, paCache[p], w, backends[p], lifeCache[p])
    BY <2>2, <2>3, <2>4, <2>5 DEF Before, Cleared, Taking, Leaving, Left
  <2> QED
    BY <1>1, <1>2, <1>3, <2>2, <2>3, <2>4, <2>5, OwnSpares DEF Acts
<1>5. CASE Forget(p)
  <2>1. PICK r : r = Unreserved(p)
    OBVIOUS
  <2>2. PICK w : w = [worker[p] EXCEPT !.pc = "deleteSGs"]
    OBVIOUS
  <2>3. IsPA(r) /\ r.phase = pa[p].phase /\ IsWorker(w) /\ w.pc = "deleteSGs"
    BY <1>1, <2>1, <2>2 DEF Unreserved, IsPA, IsWorker
  <2>4. /\ pa'[p] \in {r, pa[p]} /\ worker'[p] = w /\ backends'[p] = backends[p]
        /\ worker[p].pc \in Left
    BY <1>5, <2>1, <2>2, Written DEF Forget, At, Left
  <2>5. Before(p) =>
          /\ Empty(backends[p])
          /\ lifeCache[p] = "live" => pa[p].phase # "Binding" /\ paCache[p].phase # "Binding"
    BY <2>4 DEF Before, Cleared
  <2>6. ASSUME Before(p), NEW v \in {r, pa[p]}
        PROVE  Cleared(v, paCache[p], w, backends[p], lifeCache[p])
    BY <2>3, <2>5, <2>6, ClearedAnew
  <2> QED
    BY <1>1, <1>2, <1>3, <2>3, <2>4, <2>6, OwnSpares DEF Acts
<1>6. CASE WaitForCloud(p) \/ GiveUp(p)
  BY <1>2, <1>3, <1>6, IdleActs, OwnSpares DEF WaitForCloud, GiveUp
<1> QED
  BY <1>4, <1>5, <1>6

\* The SGs go.
LEMMA DeleteSGsActs ==
  ASSUME FieldsInv, NEW p \in PAs, DeleteSGs(p)
  PROVE  Acts(p) /\ Spares(p)
<1>1. PICK w : Goto(p, w) /\ w = [worker[p] EXCEPT !.pc = "removeFinalizer"]
  BY DEF DeleteSGs
<1>2. IsPA(pa[p]) /\ IsWorker(w) /\ w.pc = "removeFinalizer"
  BY <1>1 DEF FieldsInv, IsWorker
<1>3. /\ DOMAIN worker' = PAs /\ worker'[p] = w
      /\ \A q \in PAs \ {p} : SameWorker(worker[q], worker'[q])
  BY <1>1 DEF Goto, FieldsInv, SameWorker
<1>4. /\ DOMAIN backends' = PAs /\ \A q \in PAs : DOMAIN backends'[q] = SGs
      /\ \A q \in PAs \ {p} : backends'[q] = backends[q]
      /\ Empty(backends'[p]) /\ \A i \in SGs : backends'[p][i] \subseteq backends[p][i]
  BY DEF DeleteSGs, Empty, FieldsInv
<1>5. /\ UNCHANGED <<pa, paSynced, paCache, faults, life, lifeCache>>
      /\ worker[p].pc = "deleteSGs"
  BY DEF DeleteSGs, paVars, cacheVars, lifeVars, At
<1>6. Spares(p)
  BY <1>3, <1>4, <1>5 DEF Spares, FieldsInv
<1>7. ASSUME Before(p)
      PROVE  ClearedGoes(pa[p], paCache[p], worker[p], w, backends'[p], lifeCache[p])
  BY <1>2, <1>4, <1>5, <1>7 DEF Before, Cleared, ClearedGoes, Left
<1>8. Acts(p)
  BY <1>2, <1>3, <1>4, <1>5, <1>7, KeepsCleared
<1> QED
  BY <1>6, <1>8

\* The PA goes.
LEMMA RemoveFinalizerActs ==
  ASSUME FieldsInv, NEW p \in PAs, RemoveFinalizer(p)
  PROVE  Acts(p) /\ Spares(p)
<1>1. /\ DOMAIN worker' = PAs /\ worker'[p] = Idle
      /\ \A q \in PAs \ {p} : SameWorker(worker[q], worker'[q])
  BY DEF RemoveFinalizer, Goto, FieldsInv, SameWorker
<1>2. PICK r : r = [EmptyPA EXCEPT !.phase = "Deleting"]
  OBVIOUS
<1>3. IsPA(r) /\ r.phase = "Deleting"
  BY <1>2, Fresh DEF IsPA
<1>4. /\ DOMAIN pa' = PAs /\ pa'[p] \in {pa[p], r}
      /\ paSynced' \in [PAs -> BOOLEAN]
      /\ paSynced'[p] => pa'[p] = pa[p] /\ paSynced[p]
      /\ \A q \in PAs \ {p} : pa'[q] = pa[q] /\ paSynced'[q] = paSynced[q]
      /\ DOMAIN life' = PAs /\ \A q \in PAs : life[q] # "live" => life'[q] # "live"
  BY <1>2 DEF RemoveFinalizer, paVars, FieldsInv
<1>5. UNCHANGED <<paCache, backends, faults, lifeCache>> /\ worker[p].pc \in Left
  BY DEF RemoveFinalizer, At, cacheVars, cloudVars, Left
<1>6. Spares(p)
  BY <1>1, <1>4, <1>5 DEF Spares, FieldsInv
<1>7. ASSUME Before(p)
      PROVE  Cleared(pa'[p], paCache[p], Idle, backends[p], lifeCache[p])
  <2>1. /\ Empty(backends[p])
        /\ lifeCache[p] = "live" => pa[p].phase # "Binding" /\ paCache[p].phase # "Binding"
    BY <1>5, <1>7 DEF Before, Cleared
  <2> QED
    BY <1>3, <1>4, <2>1, Fresh, ClearedAnew
<1>8. IsPA(pa'[p]) /\ IsWorker(worker'[p])
  BY <1>1, <1>3, <1>4, Fresh DEF FieldsInv
<1> QED
  BY <1>1, <1>5, <1>6, <1>7, <1>8 DEF Acts

-----------------------------------------------------------------------------
(* Users, informers and Pods.                                               *)

\* A worker that is moved by others, and a cached PA that catches up.
LEMMA StillCleared ==
  ASSUME DeletionInv, UNCHANGED <<pa, backends, faults>>,
         DOMAIN worker' = PAs, DOMAIN paCache' = PAs, paSynced' \in [PAs -> BOOLEAN],
         DOMAIN life' = PAs, DOMAIN lifeCache' = PAs,
         \A q \in PAs :
           /\ SameWorker(worker[q], worker'[q])
           /\ paSynced'[q] => paCache'[q] = pa[q]
           /\ life[q] # "live" => life'[q] # "live"
           /\ \/ paCache'[q] = paCache[q] /\ lifeCache'[q] = lifeCache[q]
              \/ paCache'[q] = pa[q] /\ lifeCache'[q] = life[q]
  PROVE  DeletionInv'
<1>1. FieldsInv'
  BY DEF DeletionInv, FieldsInv, SameWorker
<1>2. ASSUME faults = 0, NEW q \in PAs
      PROVE  Cleared(pa[q], paCache'[q], worker'[q], backends[q], lifeCache'[q])
  <2>1. Before(q) /\ SameWorker(worker[q], worker'[q])
    BY <1>2 DEF DeletionInv, ClearedInv, Before
  <2>2. Cleared(pa[q], paCache[q], worker'[q], backends[q], lifeCache[q])
    <3>1. ClearedGoes(pa[q], paCache[q], worker[q], worker'[q], backends[q], lifeCache[q])
      BY <2>1 DEF SameWorker, ClearedGoes
    <3> QED
      BY <2>1, <3>1, ClearedStays DEF Before
  <2>3. life[q] = "live" => lifeCache[q] = "live"
    BY DEF DeletionInv, FieldsInv
  <2>4. CASE paCache'[q] = pa[q] /\ lifeCache'[q] = life[q]
    BY <2>2, <2>3, <2>4 DEF Cleared, Taking, Serving
  <2> QED
    BY <2>2, <2>4
<1>3. ClearedInv'
  BY <1>2 DEF ClearedInv
<1> QED
  BY <1>1, <1>3 DEF DeletionInv

\* They keep the invariant.
LEMMA OthersKeep ==
  ASSUME DeletionInv,
         \/ \E p \in PAs : DeletePA(p) \/ SyncLife(p)
         \/ \E d \in Pods : (PodStep(d) \/ SyncPod(d)) /\ UNCHANGED lifeVars
         \/ UNCHANGED deletionVars
  PROVE  DeletionInv'
<1> USE DEF DeletionInv
<1>1. ASSUME NEW p \in PAs, DeletePA(p) PROVE DeletionInv'
  <2>1. PICK w : w = [worker[p] EXCEPT !.memOK = FALSE]
    OBVIOUS
  <2>2. SameWorker(worker[p], w) /\ \A q \in PAs : SameWorker(worker[q], worker[q])
    BY <2>1 DEF FieldsInv, IsWorker, SameWorker
  <2>3. worker' = [worker EXCEPT ![p] = w]
    BY <1>1, <2>1 DEF DeletePA
  <2>4. /\ UNCHANGED <<pa, backends, faults, paCache, lifeCache>>
        /\ paSynced' = [paSynced EXCEPT ![p] = FALSE]
        /\ life' = [life EXCEPT ![p] = "deleting"]
    BY <1>1 DEF DeletePA, cacheVars, cloudVars
  <2> QED
    BY <2>2, <2>3, <2>4, StillCleared DEF FieldsInv
<1>2. ASSUME NEW p \in PAs, SyncLife(p) PROVE DeletionInv'
  <2>1. \A q \in PAs : SameWorker(worker[q], worker'[q])
    BY <1>2 DEF SyncLife, SyncPA, FieldsInv, SameWorker
  <2> QED
    BY <1>2, <2>1, StillCleared DEF SyncLife, SyncPA, cloudVars, FieldsInv
<1>3. ASSUME NEW d \in Pods, PodStep(d), UNCHANGED lifeVars PROVE DeletionInv'
  <2>1. PICK r : PodChange(d, r)
    BY <1>3 DEF PodStep, PodCreate, PodGetsIP, PodDelete, EditDisabled, EditPool
  <2>2. /\ worker' = Overtaken(d, r)
        /\ UNCHANGED <<pa, paSynced, paCache, backends, faults, life, lifeCache>>
    BY <1>3, <2>1 DEF PodChange, paVars, cacheVars, cloudVars, lifeVars
  <2> QED
    BY <2>2, OvertakenFields, StillCleared DEF FieldsInv
<1>4. ASSUME \/ UNCHANGED deletionVars
             \/ \E d \in Pods : SyncPod(d) /\ UNCHANGED lifeVars
      PROVE  DeletionInv'
  <2>1. UNCHANGED <<pa, paSynced, paCache, worker, backends, faults, life, lifeCache>>
    BY <1>4 DEF SyncPod, paVars, cloudVars, lifeVars, deletionVars, vars
  <2>2. \A q \in PAs : SameWorker(worker[q], worker'[q])
    BY <2>1 DEF FieldsInv, SameWorker
  <2> QED
    BY <2>1, <2>2, StillCleared DEF FieldsInv
<1> QED
  BY <1>1, <1>2, <1>3, <1>4

-----------------------------------------------------------------------------
(* The theorem on backends.                                                 *)

\* At first nothing is registered, and every PA is live.
LEMMA InitCleared == DeletionInit => DeletionInv
<1> SUFFICES ASSUME DeletionInit PROVE DeletionInv
  OBVIOUS
<1>1. FieldsInv
  BY Fresh DEF DeletionInit, Init, FieldsInv
<1>2. ClearedInv
  <2>1. ASSUME NEW p \in PAs
        PROVE  Cleared(pa[p], paCache[p], worker[p], backends[p], lifeCache[p])
    <3>1. /\ pa[p] = EmptyPA /\ paCache[p] = EmptyPA /\ worker[p] = Idle
          /\ Empty(backends[p])
      BY DEF DeletionInit, Init, Empty
    <3> QED
      BY <3>1, Fresh, ClearedAnew
  <2> QED
    BY <2>1 DEF ClearedInv
<1> QED
  BY <1>1, <1>2 DEF DeletionInv

\* A worker's step counts one fault at most.
LEMMA WorkerFaults ==
  ASSUME NEW p \in PAs, WorkerStep(p) \/ WorkerFails(p)
  PROVE  faults' = faults \/ Fault
<1>1. CASE WorkerFails(p)
  BY <1>1 DEF WorkerFails, Abort, ClaimPodFails, ResumeClaimFails, Throttled, PatchPodClaimFails
<1>2. CASE RemoveServers(p) \/ ListAndRemove(p)
  BY <1>2 DEF RemoveServers, ListAndRemove
<1>3. CASE /\ WorkerStep(p) /\ ~RemoveServers(p) /\ ~ListAndRemove(p)
  <2>1. UNCHANGED faults
    BY <1>3 DEF WorkerStep, HandleAvailable, ClaimPod, RollBack, SetBinding, ResumeConfirmed,
       ResumeClaim, ResumeClear, SetPodIP, SkipSG, PatchServerStatus, HandleBinding,
       AbortBinding, PollAdding, AddServers, FinishBinding, HandleBound, HandleDisable,
       PollRemoving, RemoveServer, FinishDisable, DisabledPodGone, ReEnable, HandleReleasing,
       FinishReleasing, ClearPodClaim, ClearPodClaimAgain, ClearSpec, SetAvailable,
       EndLoop, ReadPodClaim, PatchPodClaim, MovePhase
  <2> QED
    BY <2>1
<1> QED
  BY <1>1, <1>2, <1>3

\* The invariant is inductive.
LEMMA DeletionStep ==
  ASSUME CloudAsync = FALSE, DeletionInv, [DeletionNext]_deletionVars
  PROVE  DeletionInv'
<1>1. FieldsInv
  BY DEF DeletionInv
<1>2. ASSUME NEW p \in PAs, BaseStep(p) \/ BaseFault(p) PROVE DeletionInv'
  <2>1. Base(p) /\ (WorkerStep(p) \/ WorkerFails(p)) /\ UNCHANGED lifeVars
    BY <1>2 DEF BaseStep, BaseFault, WorkerFails
  <2>2. Acts(p) /\ OwnOnly(p)
    BY <1>1, <2>1, WorkerActs, OwnWrites
  <2>3. faults' = faults \/ Fault
    BY <2>1, WorkerFaults
  <2> QED
    BY <1>1, <2>1, <2>2, <2>3, OwnSpares, OneByOne
<1>3. ASSUME NEW p \in PAs, Deletion(p) \/ WaitForCloud(p) \/ GiveUp(p) PROVE DeletionInv'
  BY <1>1, <1>3, DeletionActs, DeleteSGsActs, RemoveFinalizerActs, OneByOne DEF Deletion
<1> QED
  BY <1>2, <1>3, OthersKeep DEF DeletionNext

\* A PA with a deletion timestamp that has let its Pod go has no backend left, wherever
\* the deletion cut in, as long as every call succeeds: the first part of handleDeletion
\* takes up a release that resetToAvailable had begun.
THEOREM LetGoLeavesNothing ==
  ASSUME CloudAsync = FALSE
  PROVE  DeletionSpec => []LetGoIsEmpty
<1>1. DeletionInv => LetGoIsEmpty
  BY DEF DeletionInv, ClearedInv, Cleared, Empty, LetGoIsEmpty
<1> QED
  BY <1>1, InitCleared, DeletionStep, PTL DEF DeletionSpec

-----------------------------------------------------------------------------
(* Claims and bindings: the invariant.                                      *)

\* Reads do not lag, and users leave the pool annotation alone.
CurrentCaches == CacheLag = {}
PoolKept == "pool" \notin UserEdits

\* No Pod is followed by another of its name.  (Only OwnClaimCleared asks for it.)
PodsOnce == MaxIncarnations <= 1

\* No Pod carries the claim of PA p.
Unclaimed(p) == \A d \in Pods : ~HasClaim(pod, d, p)

\* PA p is on its way out and has let its Pod go.
LetGo(p) == pa[p].pod = Null /\ lifeCache[p] # "live"

\* Nobody who still wants Pod d has the claim on it.
Free(d) == pod[d].claim = Null \/ LetGo(pod[d].claim)

\* Pod d will not be created again.
Gone(d) == pod[d] = Null /\ incarnation[d] = MaxIncarnations

\* Where a release may be, and a deletion, and the steps that only a deletion takes.
Loops      == {"bind", "disable", "release"}
Ends       == {"removeServers", "clearPodClaimAgain", "clearSpec"}
ReleasePCs == {"release", "clearPodClaim", "setAvailable"} \cup Ends
OnlyParts  == {"patchPodClaimAgain", "deleteSGs", "removeFinalizer"}

\* The phases of a PA that has the Pod it names.
Holding == {"Binding", "Bound", "Disabled"}

\* The addresses that a Pod of name d may have.
Addresses(d) == {d} \X (1..MaxIncarnations)

\* Worker w is in a handler of the phase of its PA r, or in a deletion of it; l is what
\* the cache says of the life of the PA and f the number of faults.
Placed(r, w, l, f) ==
    /\ IF r.pod = Null THEN r.ip = Null ELSE r.pod \in Pods /\ r.ip \in Addresses(r.pod)
    /\ f = 0 /\ r.phase \in Holding => r.pod # Null
    /\ w.pc \in {"claimPod", "rollback", "setPodIP", "setBinding"} =>
         r.phase = "Available" /\ r.pod # Null
    /\ w.pc \in {"claimPod", "setBinding"} => w.mem.ip = r.ip
    /\ w.pc = "setPodIP" => w.mem.ip \in Addresses(r.pod)
    /\ w.pc = "bind"    => r.phase = "Binding"
    /\ w.pc = "disable" => r.phase = "Bound"
    /\ w.pc \in ReleasePCs =>
         w.mem.phase = "Deleting" \/ (r.phase = "Releasing" /\ w.mem.phase = "Releasing")
    /\ w.mem.phase = "Deleting" =>
         l # "live" /\ (f = 0 => r.phase = "Deleting") /\ w.pc \in Ends \cup OnlyParts
    /\ w.pc \in OnlyParts => w.mem.phase = "Deleting"
    /\ w.pc # "patchPodClaim"
    /\ w.to # "none" => w.pc \in Loops
    /\ w.pc \notin {"idle", "setAvailable", "deleteSGs", "removeFinalizer"} => w.mem.pod = r.pod
    /\ w.podOK \in BOOLEAN /\ w = [x \in DOMAIN w |-> w[x]]

\* PA r and its worker w know addresses of Pods that have been created.
Counted(r, w) ==
    /\ r.pod # Null => r.ip[2] <= incarnation[r.pod]
    /\ w.pc = "setPodIP" => w.mem.ip[2] <= incarnation[r.pod]

\* The claim that worker w of PA p is about to set, or to clear.
Setting(w) ==
    /\ w.pc = "claimPod" /\ pod[w.mem.pod] # Null /\ Free(w.mem.pod)
    /\ w.mem.ip = <<w.mem.pod, pod[w.mem.pod].uid>>

Clearing(p, w) ==
    /\ w.mem.pod # Null
    /\ PodsOnce => HasClaim(pod, w.mem.pod, p) \/ Gone(w.mem.pod)

\* The claims of PA p, whose record is r and whose worker is w.
Keyed(p, r, w) ==
    /\ \A d \in Pods : HasClaim(pod, d, p) => r.pod = d \/ LetGo(p)
    /\ w.pc \in {"claimPod", "rollback"} \/ r.phase = "Releasing" => Unclaimed(p)
    /\ w.podOK = TRUE => Setting(w)
    /\ w.pc = "patchPodClaimAgain" => Clearing(p, w)
    /\ Counted(r, w)

\* Every Pod is in the pool, has a number that was counted, and claims a PA or none.
IsPod(r) == DOMAIN r = {"uid", "hasIP", "claim", "inPool", "disabled"}

PodsCounted ==
    /\ DOMAIN pod = Pods /\ DOMAIN podCache = Pods
    /\ podSynced \in [Pods -> BOOLEAN]
    /\ incarnation \in [Pods -> 0..MaxIncarnations]
    /\ \A d \in Pods :
         /\ podSynced[d] => podCache[d] = pod[d]
         /\ pod[d] # Null =>
              /\ IsPod(pod[d]) /\ pod[d].uid \in 1..incarnation[d] /\ pod[d].inPool = TRUE
              /\ pod[d].claim \in PAs \cup {Null}

AllPlaced == \A p \in PAs : Placed(pa[p], worker[p], lifeCache[p], faults)
AllKeyed  == \A p \in PAs : Keyed(p, pa[p], worker[p])

ClaimInv == PodsCounted /\ AllPlaced /\ AllKeyed

\* PA r, or its worker w, holds address ip.
Holds(r, w, ip) ==
    \/ r.phase \in Holding /\ r.ip = ip
    \/ w.pc \in {"setPodIP", "setBinding"} /\ w.mem.ip = ip

\* Until a fault, a PA that holds the address of a running Pod has the claim on that
\* Pod, and an address has one holder, even when its Pod is gone.  (As long as no worker
\* clears the claim of another PA.)
HoldersClaim ==
    \A p \in PAs : \A d \in Pods :
        pod[d] # Null /\ Holds(pa[p], worker[p], <<d, pod[d].uid>>) => HasClaim(pod, d, p)

OneHolder ==
    \A p, q \in PAs : \A ip \in IPs :
        Holds(pa[p], worker[p], ip) /\ Holds(pa[q], worker[q], ip) => p = q

HolderInv == faults = 0 => HoldersClaim /\ OneHolder

-----------------------------------------------------------------------------
(* Steps that leave the Pods alone.                                         *)

\* What the worker of PA p does in one step is lawful if the claims allow it.
Lawful(p) ==
    /\ Placed(pa'[p], worker'[p], lifeCache[p], faults')
    /\ Counted(pa'[p], worker'[p])
    /\ \/ pa'[p].pod = pa[p].pod
       \/ pa'[p].pod = Null /\ (Unclaimed(p) \/ lifeCache[p] # "live")
       \/ pa[p].pod = Null /\ Unclaimed(p) /\ lifeCache[p] = "live"
    /\ worker'[p].pc \in {"claimPod", "rollback"} \/ pa'[p].phase = "Releasing" => Unclaimed(p)
    /\ worker'[p].podOK = TRUE => Setting(worker'[p])
    /\ worker'[p].pc = "patchPodClaimAgain" => Clearing(p, worker'[p])
    /\ faults' = 0 =>
         \A ip \in IPs : Holds(pa'[p], worker'[p], ip) =>
           \/ Holds(pa[p], worker[p], ip)
           \/ \E d \in Pods : HasClaim(pod, d, p) /\ ip = <<d, pod[d].uid>>

\* A PA is written and its worker moves; the others, the Pods and the caches stay.
Alone(p) ==
    /\ UNCHANGED <<podVars, podCache, lifeCache>>
    /\ \A q \in PAs \ {p} : pa'[q] = pa[q] /\ worker'[q] = worker[q]
    /\ faults \in Nat /\ faults' \in Nat /\ (faults' = 0 => faults = 0)

LEMMA LawfulKeeps ==
  ASSUME ClaimInv, NEW p \in PAs, Alone(p), Lawful(p)
  PROVE  ClaimInv' /\ (HolderInv => HolderInv')
<1>1. \A q \in PAs : LetGo(q) => LetGo(q)'
  <2>1. ASSUME NEW q \in PAs, LetGo(q), q = p PROVE pa'[p].pod = Null
    BY <2>1 DEF LetGo, Lawful
  <2> QED
    BY <2>1 DEF LetGo, Alone
<1>2. UNCHANGED <<pod, podCache, podSynced, incarnation, lifeCache>>
  BY DEF Alone, podVars
<1>3. PodsCounted'
  BY <1>2 DEF ClaimInv, PodsCounted
<1>4. \A d \in Pods : \A q : HasClaim(pod', d, q) <=> HasClaim(pod, d, q)
  BY <1>2 DEF HasClaim
<1>5. \A d \in Pods : pod[d] # Null /\ Free(d) => Free(d)'
  BY <1>1, <1>2 DEF Free, ClaimInv, PodsCounted
<1>6. ASSUME NEW q \in PAs, NEW w, Setting(w), w.mem.pod \in Pods
      PROVE  Setting(w)'
  BY <1>2, <1>5, <1>6 DEF Setting
<1>7. ASSUME NEW q \in PAs, NEW w, Clearing(q, w)
      PROVE  Clearing(q, w)'
  BY <1>2, <1>7 DEF Clearing, HasClaim, Gone, PodsOnce
<1>8. ASSUME NEW q \in PAs, q # p
      PROVE  Placed(pa'[q], worker'[q], lifeCache'[q], faults') /\ Keyed(q, pa[q], worker[q])'
  <2>1. /\ pa'[q] = pa[q] /\ worker'[q] = worker[q]
        /\ Placed(pa[q], worker[q], lifeCache[q], faults) /\ Keyed(q, pa[q], worker[q])
    BY <1>8 DEF Alone, ClaimInv, AllPlaced, AllKeyed
  <2>2. Placed(pa[q], worker[q], lifeCache[q], faults')
    BY <2>1 DEF Placed, Alone
  <2>3. worker[q].podOK = TRUE => worker[q].mem.pod \in Pods
    BY <2>1 DEF Placed, Keyed, Setting
  <2>4. Unclaimed(q) => Unclaimed(q)'
    BY <1>4 DEF Unclaimed
  <2>5. Counted(pa[q], worker[q]) => Counted(pa[q], worker[q])'
    BY <1>2, <2>1 DEF Counted
  <2> QED
    BY <1>1, <1>2, <1>4, <1>6, <1>7, <2>1, <2>2, <2>3, <2>4, <2>5 DEF Keyed
<1>9. Placed(pa'[p], worker'[p], lifeCache'[p], faults') /\ Keyed(p, pa[p], worker[p])'
  <2>1. Keyed(p, pa[p], worker[p]) /\ Placed(pa'[p], worker'[p], lifeCache[p], faults')
    BY DEF ClaimInv, AllKeyed, Lawful
  <2>2. worker'[p].podOK = TRUE => Setting(worker'[p]) /\ worker'[p].mem.pod \in Pods
    BY <2>1 DEF Placed, Lawful, Setting
  <2>3. \A d \in Pods : HasClaim(pod', d, p) => pa'[p].pod = d \/ LetGo(p)'
    BY <1>1, <1>2, <1>4, <2>1 DEF Keyed, Lawful, Unclaimed, LetGo
  <2>4. Counted(pa[p], worker[p])'
    BY <1>2 DEF Counted, Lawful
  <2>5. worker'[p].pc \in {"claimPod", "rollback"} \/ pa'[p].phase = "Releasing" =>
          Unclaimed(p)'
    BY <1>4 DEF Lawful, Unclaimed
  <2>6. worker'[p].podOK = TRUE => Setting(worker[p])'
    BY <1>2, <1>5, <2>2 DEF Setting
  <2>7. worker'[p].pc = "patchPodClaimAgain" => Clearing(p, worker[p])'
    BY <1>2 DEF Lawful, Clearing, HasClaim, Gone, PodsOnce
  <2> QED
    BY <1>2, <2>1, <2>3, <2>4, <2>5, <2>6, <2>7 DEF Keyed
<1>10. ASSUME faults' = 0, NEW q \in PAs, NEW ip \in IPs, Holds(pa[q], worker[q], ip)'
       PROVE  \/ Holds(pa[q], worker[q], ip)
              \/ q = p /\ \E d \in Pods : HasClaim(pod, d, p) /\ ip = <<d, pod[d].uid>>
  BY <1>10 DEF Alone, Lawful
<1>11. ASSUME HolderInv, faults' = 0
       PROVE  HoldersClaim' /\ OneHolder'
  <2>1. HoldersClaim /\ OneHolder
    BY <1>11 DEF HolderInv, Alone
  <2>2. \A d \in Pods : pod[d] # Null => <<d, pod[d].uid>> \in IPs
    BY ConstantsAssumption DEF ClaimInv, PodsCounted, IPs
  <2>3. HoldersClaim'
    <3> SUFFICES ASSUME NEW q \in PAs, NEW d \in Pods, pod[d] # Null,
                        Holds(pa[q], worker[q], <<d, pod[d].uid>>)'
                 PROVE  HasClaim(pod, d, q)
      BY <1>2, <1>4 DEF HoldersClaim
    <3>1. Holds(pa'[q], worker'[q], <<d, pod[d].uid>>)
      BY <1>2
    <3>2. \/ Holds(pa[q], worker[q], <<d, pod[d].uid>>)
          \/ q = p /\ \E e \in Pods : HasClaim(pod, e, p) /\ <<d, pod[d].uid>> = <<e, pod[e].uid>>
      BY <1>10, <1>11, <2>2, <3>1
    <3>3. CASE Holds(pa[q], worker[q], <<d, pod[d].uid>>)
      BY <2>1, <3>3 DEF HoldersClaim
    <3>4. CASE q = p /\ \E e \in Pods : HasClaim(pod, e, p) /\ <<d, pod[d].uid>> = <<e, pod[e].uid>>
      BY <3>4
    <3> QED
      BY <3>2, <3>3, <3>4
  <2>4. OneHolder'
    <3>1. ASSUME NEW q \in PAs, NEW ip \in IPs, NEW d \in Pods, HasClaim(pod, d, p),
                 ip = <<d, pod[d].uid>>, Holds(pa[q], worker[q], ip)
          PROVE  q = p
      BY <2>1, <3>1 DEF HoldersClaim, HasClaim
    <3> SUFFICES ASSUME NEW q \in PAs, NEW s \in PAs, NEW ip \in IPs,
                        Holds(pa[q], worker[q], ip)', Holds(pa[s], worker[s], ip)'
                 PROVE  q = s
      BY DEF OneHolder
    <3>2. /\ \/ Holds(pa[q], worker[q], ip)
             \/ q = p /\ \E d \in Pods : HasClaim(pod, d, p) /\ ip = <<d, pod[d].uid>>
          /\ \/ Holds(pa[s], worker[s], ip)
             \/ s = p /\ \E d \in Pods : HasClaim(pod, d, p) /\ ip = <<d, pod[d].uid>>
      BY <1>10, <1>11
    <3> QED
      BY <2>1, <3>1, <3>2 DEF OneHolder
  <2> QED
    BY <2>3, <2>4
<1> QED
  BY <1>3, <1>8, <1>9, <1>11 DEF ClaimInv, AllPlaced, AllKeyed, HolderInv

-----------------------------------------------------------------------------
(* Steps that write a Pod.                                                  *)

\* What a write of Pod d by somebody else leaves to PA q.
LEMMA OthersClaims ==
  ASSUME FieldsInv, ClaimInv, NEW q \in PAs, NEW d \in Pods, NEW r,
         pod' = [pod EXCEPT ![d] = r], pa'[q] = pa[q], worker'[q] = Overtaken(d, r)[q],
         UNCHANGED <<lifeCache, faults>>, \A s \in PAs : LetGo(s) => LetGo(s)',
         \A e \in Pods : HasClaim(pod', e, q) => HasClaim(pod, e, q),
         \A e \in Pods : e # d => incarnation'[e] = incarnation[e],
         incarnation[d] <= incarnation'[d], incarnation'[d] \in Nat,
         Clearing(q, worker[q]) /\ worker[q].pc = "patchPodClaimAgain" /\ worker[q].mem.pod = d
           /\ PodsOnce => HasClaim(pod', d, q) \/ Gone(d)'
  PROVE  /\ Placed(pa'[q], worker'[q], lifeCache'[q], faults')
         /\ Keyed(q, pa[q], worker[q])'
         /\ \A ip : Holds(pa[q], worker[q], ip)' => Holds(pa[q], worker[q], ip)
<1>1. Placed(pa[q], worker[q], lifeCache[q], faults) /\ Keyed(q, pa[q], worker[q])
  BY DEF ClaimInv, AllPlaced, AllKeyed
<1>2. IsWorker(worker[q])
  BY DEF FieldsInv
<1>3. \/ worker'[q] = worker[q] /\ ~(worker[q].mem.pod = d /\ r # pod[d])
      \/ worker'[q] = [worker[q] EXCEPT !.podOK = FALSE]
  BY DEF Overtaken
<1>4. /\ worker'[q].pc = worker[q].pc /\ worker'[q].mem = worker[q].mem
      /\ worker'[q].to = worker[q].to
      /\ worker'[q].podOK \in BOOLEAN /\ worker'[q] = [x \in DOMAIN worker'[q] |-> worker'[q][x]]
      /\ worker'[q].podOK = TRUE =>
           worker[q].podOK = TRUE /\ ~(worker[q].mem.pod = d /\ r # pod[d])
  BY <1>1, <1>2, <1>3 DEF IsWorker, Placed
<1>5. Placed(pa'[q], worker'[q], lifeCache'[q], faults')
  BY <1>1, <1>4 DEF Placed
<1>6. PICK e : e = worker[q].mem.pod
  OBVIOUS
<1>7. e # Null /\ worker[q].pc \in {"claimPod", "patchPodClaimAgain"} =>
        e \in Pods /\ e = pa[q].pod
  BY <1>1, <1>6 DEF Placed
<1>8. worker'[q].podOK = TRUE => Setting(worker[q])'
  <2> SUFFICES ASSUME worker'[q].podOK = TRUE
               PROVE  Setting(worker[q])'
    OBVIOUS
  <2>1. /\ e \in Pods /\ pod[e] # Null /\ Free(e) /\ worker[q].pc = "claimPod"
        /\ worker[q].mem.ip = <<e, pod[e].uid>>
    BY <1>1, <1>4, <1>6 DEF Placed, Keyed, Setting
  <2>2. pod'[e] = pod[e] /\ pod[e].claim \in PAs \cup {Null}
    BY <1>4, <1>6, <2>1 DEF ClaimInv, PodsCounted
  <2>3. Free(e)'
    BY <2>1, <2>2 DEF Free
  <2> QED
    BY <1>4, <1>6, <2>1, <2>2, <2>3 DEF Setting
<1>9. worker[q].pc = "patchPodClaimAgain" => Clearing(q, worker[q])'
  <2> SUFFICES ASSUME worker[q].pc = "patchPodClaimAgain"
               PROVE  e # Null /\ (PodsOnce => HasClaim(pod', e, q) \/ Gone(e)')
    BY <1>4, <1>6 DEF Clearing, PodsOnce
  <2>1. Clearing(q, worker[q])
    BY <1>1 DEF Keyed
  <2>2. e \in Pods /\ e # Null /\ (PodsOnce => HasClaim(pod, e, q) \/ Gone(e))
    BY <1>6, <1>7, <2>1 DEF Clearing
  <2>3. e # d => pod'[e] = pod[e] /\ incarnation'[e] = incarnation[e]
    BY <2>2 DEF ClaimInv, PodsCounted
  <2>4. CASE e # d
    BY <2>2, <2>3, <2>4 DEF HasClaim, Gone
  <2>5. CASE e = d
    BY <1>6, <2>1, <2>2, <2>5
  <2> QED
    BY <2>4, <2>5
<1>10. Counted(pa[q], worker[q])'
  <2>1. /\ pa[q].pod # Null => pa[q].pod \in Pods /\ pa[q].ip[2] \in Nat
        /\ worker[q].pc = "setPodIP" => pa[q].pod \in Pods /\ worker[q].mem.ip[2] \in Nat
    BY <1>1, ConstantsAssumption DEF Placed, Addresses
  <2>2. \A c \in Pods : /\ incarnation[c] \in Nat /\ incarnation'[c] \in Nat
                        /\ incarnation[c] <= incarnation'[c]
    BY ConstantsAssumption DEF ClaimInv, PodsCounted
  <2> QED
    BY <1>1, <1>4, <2>1, <2>2 DEF Keyed, Counted
<1>11. Keyed(q, pa[q], worker[q])'
  <2>1. \A c \in Pods : HasClaim(pod', c, q) => pa'[q].pod = c \/ LetGo(q)'
    BY <1>1 DEF Keyed
  <2>2. worker'[q].pc \in {"claimPod", "rollback"} \/ pa'[q].phase = "Releasing" =>
          Unclaimed(q)'
    BY <1>1, <1>4 DEF Keyed, Unclaimed
  <2> QED
    BY <1>4, <1>8, <1>9, <1>10, <2>1, <2>2 DEF Keyed
<1>12. \A ip : Holds(pa[q], worker[q], ip)' => Holds(pa[q], worker[q], ip)
  BY <1>4 DEF Holds
<1> QED
  BY <1>5, <1>11, <1>12

\* A Pod that is written has a number that was counted, and its pool, or is gone.
LEMMA PodsStayCounted ==
  ASSUME PodsCounted, NEW d \in Pods, NEW r, WritePod(d, r), UNCHANGED podCache,
         r # Null => /\ IsPod(r) /\ r.uid \in 1..incarnation'[d] /\ r.inPool = TRUE
                     /\ r.claim \in PAs \cup {Null},
         incarnation' \in [Pods -> 0..MaxIncarnations],
         \A e \in Pods : e # d => incarnation'[e] = incarnation[e]
  PROVE  PodsCounted'
BY DEF PodsCounted, WritePod

\* An address that is held is one of the Pod that the PA names, and was counted.
LEMMA HeldCounted ==
  ASSUME ClaimInv, NEW q \in PAs, NEW d \in Pods, NEW n, faults = 0,
         Holds(pa[q], worker[q], <<d, n>>)
  PROVE  pa[q].pod = d /\ n <= incarnation[d]
<1>1. Placed(pa[q], worker[q], lifeCache[q], faults) /\ Counted(pa[q], worker[q])
  BY DEF ClaimInv, AllPlaced, AllKeyed, Keyed
<1>2. PICK ip : ip = <<d, n>> /\ ip[1] = d /\ ip[2] = n
  OBVIOUS
<1>3. /\ pa[q].pod # Null /\ ip \in Addresses(pa[q].pod)
      /\ ip = pa[q].ip \/ (worker[q].pc = "setPodIP" /\ ip = worker[q].mem.ip)
  BY <1>1, <1>2 DEF Holds, Placed
<1>4. ip[1] = pa[q].pod
  BY <1>3 DEF Addresses
<1> QED
  BY <1>1, <1>2, <1>3, <1>4 DEF Counted

\* A worker sets the claim of its PA on the Pod that the PA names, with its address.
ClaimsPod(p, d, w) ==
    /\ d \in Pods /\ pod[d] # Null /\ Free(d) /\ pa[p].pod = d /\ pa[p].phase = "Available"
    /\ SetClaim(p, d, w)
    /\ UNCHANGED <<pa, podCache, incarnation, lifeCache, faults>>
    /\ w.pc \in {"setPodIP", "setBinding", "idle"} /\ w.podOK = FALSE
    /\ w.pc # "idle" => w.mem.ip = <<d, pod[d].uid>>
    /\ Placed(pa[p], w, lifeCache[p], faults)

LEMMA ClaimSetKeeps ==
  ASSUME FieldsInv, ClaimInv, NEW p \in PAs, NEW d, NEW w, ClaimsPod(p, d, w)
  PROVE  ClaimInv' /\ (HolderInv => HolderInv')
<1>1. PICK r : r = [pod[d] EXCEPT !.claim = p]
  OBVIOUS
<1>2. /\ d \in Pods /\ pod[d] # Null /\ IsPod(pod[d]) /\ pod[d].uid \in 1..incarnation[d]
      /\ pod[d].inPool = TRUE /\ pod[d].claim \in PAs \cup {Null}
      /\ incarnation \in [Pods -> 0..MaxIncarnations]
  BY DEF ClaimsPod, ClaimInv, PodsCounted
<1>3. IsPod(r) /\ r.uid = pod[d].uid /\ r.inPool = TRUE /\ r.claim = p
  BY <1>1, <1>2 DEF IsPod
<1>4. /\ WritePod(d, r) /\ pod' = [pod EXCEPT ![d] = r]
      /\ worker' = [Overtaken(d, r) EXCEPT ![p] = w]
      /\ UNCHANGED <<pa, podCache, incarnation, lifeCache, faults>>
  BY <1>1 DEF ClaimsPod, SetClaim, WritePod
<1>5. PodsCounted'
  BY <1>2, <1>3, <1>4, PodsStayCounted DEF ClaimInv
<1>6. /\ worker'[p] = w
      /\ \A q \in PAs \ {p} : worker'[q] = Overtaken(d, r)[q]
  BY <1>4 DEF Overtaken, FieldsInv
<1>7. /\ pod'[d] = r /\ \A e \in Pods \ {d} : pod'[e] = pod[e]
      /\ \A s \in PAs : LetGo(s) => LetGo(s)'
  BY <1>2, <1>4 DEF ClaimInv, PodsCounted, LetGo
<1>8. ASSUME NEW q \in PAs, HasClaim(pod, d, q)
      PROVE  LetGo(q)
  BY <1>8, ConstantsAssumption DEF ClaimsPod, Free, HasClaim
<1>9. ASSUME NEW q \in PAs, q # p
      PROVE  /\ \A e \in Pods : HasClaim(pod', e, q) => HasClaim(pod, e, q) /\ e # d
             /\ Placed(pa'[q], worker'[q], lifeCache'[q], faults')
             /\ Keyed(q, pa[q], worker[q])'
             /\ \A ip : Holds(pa[q], worker[q], ip)' => Holds(pa[q], worker[q], ip)
  <2>1. \A e \in Pods : HasClaim(pod', e, q) => HasClaim(pod, e, q) /\ e # d
    BY <1>3, <1>7, <1>9 DEF HasClaim
  <2>2. ~(HasClaim(pod, d, q) /\ worker[q].pc = "patchPodClaimAgain" /\ worker[q].mem.pod = d)
    <3>1. Placed(pa[q], worker[q], lifeCache[q], faults)
      BY DEF ClaimInv, AllPlaced
    <3> QED
      BY <1>2, <1>8, <3>1, ConstantsAssumption DEF Placed, LetGo
  <2>3. ~(/\ Clearing(q, worker[q]) /\ worker[q].pc = "patchPodClaimAgain"
          /\ worker[q].mem.pod = d /\ PodsOnce)
    BY <1>2, <2>2 DEF Clearing, Gone
  <2>4. /\ pa'[q] = pa[q] /\ worker'[q] = Overtaken(d, r)[q]
        /\ UNCHANGED <<lifeCache, faults>> /\ incarnation' = incarnation
    BY <1>4, <1>6, <1>9
  <2>5. \A e \in Pods : HasClaim(pod', e, q) => HasClaim(pod, e, q)
    BY <2>1
  <2>6. incarnation'[d] \in Nat /\ incarnation[d] <= incarnation'[d]
    BY <1>2, <2>4, ConstantsAssumption
  <2>7. /\ Placed(pa'[q], worker'[q], lifeCache'[q], faults')
        /\ Keyed(q, pa[q], worker[q])'
        /\ \A ip : Holds(pa[q], worker[q], ip)' => Holds(pa[q], worker[q], ip)
    BY <1>2, <1>4, <1>7, <2>3, <2>4, <2>5, <2>6, OthersClaims
  <2> QED
    BY <2>1, <2>7
<1>10. Placed(pa'[p], worker'[p], lifeCache'[p], faults') /\ Keyed(p, pa[p], worker[p])'
  <2>1. Placed(pa'[p], worker'[p], lifeCache'[p], faults')
    BY <1>4, <1>6 DEF ClaimsPod
  <2>2. /\ w.pc \notin {"claimPod", "rollback", "patchPodClaimAgain"} /\ w.podOK = FALSE
        /\ pa[p].phase = "Available" /\ pa[p].pod = d
    BY DEF ClaimsPod
  <2>3. Keyed(p, pa[p], worker[p])
    BY DEF ClaimInv, AllKeyed
  <2>4. \A e \in Pods : HasClaim(pod', e, p) => pa'[p].pod = e \/ LetGo(p)'
    BY <1>4, <1>7, <2>2, <2>3 DEF Keyed, HasClaim
  <2>5. Counted(pa[p], worker[p])'
    <3>1. w.pc = "setPodIP" => w.mem.ip = <<d, pod[d].uid>> /\ w.mem.ip[2] = pod[d].uid
      BY DEF ClaimsPod
    <3> QED
      BY <1>2, <1>4, <1>6, <2>2, <2>3, <3>1 DEF Keyed, Counted
  <2> QED
    BY <1>4, <1>6, <2>1, <2>2, <2>4, <2>5 DEF Keyed
<1>11. PICK address : address = <<d, pod[d].uid>>
  OBVIOUS
<1>12. ASSUME HolderInv, faults = 0, NEW q \in PAs, q # p, NEW n, n = pod[d].uid,
              Holds(pa[q], worker[q], <<d, n>>)
       PROVE  FALSE
  <2>1. LetGo(q)
    BY <1>2, <1>8, <1>12 DEF HolderInv, HoldersClaim
  <2>2. pa[q].pod = d
    BY <1>2, <1>12, HeldCounted
  <2> QED
    BY <1>2, <2>1, <2>2, ConstantsAssumption DEF LetGo
<1>13. ASSUME NEW ip, Holds(pa[p], worker[p], ip)'
       PROVE  ip = address
  BY <1>4, <1>6, <1>11, <1>13 DEF Holds, Holding, ClaimsPod
<1>14. ASSUME HolderInv, faults' = 0
       PROVE  HoldersClaim'
  <2>1. faults = 0 /\ HoldersClaim
    BY <1>4, <1>14 DEF HolderInv
  <2>2. ASSUME NEW q \in PAs, NEW e \in Pods, pod'[e] # Null,
               Holds(pa[q], worker[q], <<e, pod[e].uid>>)'
        PROVE  HasClaim(pod', e, q)
    <3>1. CASE q = p
      <4>1. PICK n : n = pod'[e].uid /\ Holds(pa[p], worker[p], <<e, n>>)'
        BY <2>2, <3>1
      <4>2. <<e, n>> = <<d, pod[d].uid>>
        BY <1>11, <1>13, <4>1
      <4>3. e = d
        BY <4>2
      <4> QED
        BY <1>3, <1>7, <2>2, <3>1, <4>3 DEF HasClaim
    <3>2. CASE q # p
      <4>1. Holds(pa[q], worker[q], <<e, pod'[e].uid>>)
        BY <1>9, <2>2, <3>2
      <4>2. e # d
        BY <1>3, <1>7, <1>12, <1>14, <2>1, <3>2, <4>1
      <4>3. pod'[e] = pod[e]
        BY <1>7, <4>2
      <4> QED
        BY <2>1, <2>2, <4>1, <4>3 DEF HoldersClaim, HasClaim
    <3> QED
      BY <3>1, <3>2
  <2> QED
    BY <2>2 DEF HoldersClaim
<1>15. ASSUME HolderInv, faults' = 0
       PROVE  OneHolder'
  <2>1. faults = 0 /\ OneHolder
    BY <1>4, <1>15 DEF HolderInv
  <2>2. ASSUME NEW q \in PAs, NEW s \in PAs, NEW ip \in IPs,
               Holds(pa[q], worker[q], ip)', Holds(pa[s], worker[s], ip)'
        PROVE  q = s
    <3>1. CASE q # p /\ s # p
      BY <1>9, <2>1, <2>2, <3>1 DEF OneHolder
    <3>2. ASSUME NEW t \in PAs, t # p, Holds(pa[t], worker[t], ip)',
                 Holds(pa[p], worker[p], ip)'
          PROVE  FALSE
      <4>1. Holds(pa[t], worker[t], ip) /\ ip = address
        BY <1>9, <1>13, <3>2
      <4> QED
        BY <1>11, <1>12, <1>15, <2>1, <3>2, <4>1
    <3> QED
      BY <2>2, <3>1, <3>2
  <2> QED
    BY <2>2 DEF OneHolder
<1> QED
  BY <1>5, <1>9, <1>10, <1>14, <1>15 DEF ClaimInv, AllPlaced, AllKeyed, HolderInv

\* A worker of a deletion drops a claim.  If no Pod is followed by another of its name,
\* that is the claim of its PA, unless the Pod is gone for good.
LEMMA ClaimClearedKeeps ==
  ASSUME FieldsInv, ClaimInv, NEW p \in PAs,
         PatchPodClaim(p, "patchPodClaimAgain", "clearSpec"), UNCHANGED lifeCache
  PROVE  /\ ClaimInv'
         /\ /\ HolderInv
            /\ pod'[worker[p].mem.pod] # Null =>
                 \A q \in PAs : HasClaim(pod, worker[p].mem.pod, q) => q = p
            => HolderInv'
         /\ worker[p].mem.pod \in Pods /\ Clearing(p, worker[p])
<1>1. PICK d : d = worker[p].mem.pod
  OBVIOUS
<1>2. PICK r : r = IF pod[d] = Null THEN Null ELSE [pod[d] EXCEPT !.claim = Null]
  OBVIOUS
<1>3. PICK w : w = [worker[p] EXCEPT !.pc = "clearSpec"]
  OBVIOUS
<1>4. /\ WritePod(d, r) /\ pod' = [pod EXCEPT ![d] = r]
      /\ worker' = [Overtaken(d, r) EXCEPT ![p] = w]
      /\ UNCHANGED <<pa, podCache, incarnation, lifeCache, faults>>
      /\ worker[p].pc = "patchPodClaimAgain"
  BY <1>1, <1>2, <1>3 DEF PatchPodClaim, WritePod, At, paVars, cacheVars
<1>5. /\ Placed(pa[p], worker[p], lifeCache[p], faults) /\ Keyed(p, pa[p], worker[p])
      /\ IsWorker(worker[p])
  BY DEF ClaimInv, AllPlaced, AllKeyed, FieldsInv
<1>6. /\ d \in Pods /\ d = pa[p].pod /\ Clearing(p, worker[p])
      /\ worker[p].mem.phase = "Deleting" /\ worker[p].podOK = FALSE
  BY <1>1, <1>4, <1>5 DEF Placed, Keyed, OnlyParts, Setting, Clearing
<1>7. /\ w.pc = "clearSpec" /\ w.mem = worker[p].mem /\ w.to = worker[p].to
      /\ w.podOK = worker[p].podOK /\ w = [x \in DOMAIN w |-> w[x]]
  BY <1>3, <1>5 DEF IsWorker
<1>8. /\ r = Null \/ (pod[d] # Null /\ r.claim = Null /\ r.uid = pod[d].uid)
      /\ r # Null => /\ IsPod(r) /\ r.uid \in 1..incarnation[d] /\ r.inPool = TRUE
                     /\ r.claim \in PAs \cup {Null}
      /\ incarnation \in [Pods -> 0..MaxIncarnations]
  BY <1>2, <1>6 DEF ClaimInv, PodsCounted, IsPod
<1>9. PodsCounted'
  BY <1>4, <1>6, <1>8, PodsStayCounted DEF ClaimInv
<1>10. /\ worker'[p] = w /\ \A q \in PAs \ {p} : worker'[q] = Overtaken(d, r)[q]
       /\ pod'[d] = r /\ \A e \in Pods \ {d} : pod'[e] = pod[e]
       /\ \A s \in PAs : LetGo(s) => LetGo(s)'
  BY <1>4, <1>6 DEF Overtaken, FieldsInv, ClaimInv, PodsCounted, LetGo
<1>11. \A q \in PAs : ~HasClaim(pod', d, q)
  BY <1>8, <1>10, ConstantsAssumption DEF HasClaim
<1>12. \A q \in PAs : \A e \in Pods : HasClaim(pod', e, q) => HasClaim(pod, e, q)
  BY <1>10, <1>11 DEF HasClaim
<1>13. PodsOnce => ((HasClaim(pod, d, p) \/ Gone(d)) /\ (Gone(d) => Gone(d)'))
  BY <1>1, <1>2, <1>4, <1>6, <1>10 DEF Clearing, Gone
<1>14. ASSUME NEW q \in PAs, q # p
       PROVE  /\ Placed(pa'[q], worker'[q], lifeCache'[q], faults')
              /\ Keyed(q, pa[q], worker[q])'
              /\ \A ip : Holds(pa[q], worker[q], ip)' => Holds(pa[q], worker[q], ip)
  <2>1. Clearing(q, worker[q]) /\ worker[q].mem.pod = d /\ PodsOnce =>
          HasClaim(pod', d, q) \/ Gone(d)'
    <3>1. ~(HasClaim(pod, d, p) /\ HasClaim(pod, d, q))
      BY <1>14 DEF HasClaim
    <3>2. HasClaim(pod, d, p) => ~Gone(d)
      BY DEF HasClaim, Gone
    <3> QED
      BY <1>13, <3>1, <3>2 DEF Clearing
  <2>2. /\ pa'[q] = pa[q] /\ worker'[q] = Overtaken(d, r)[q]
        /\ UNCHANGED <<lifeCache, faults>> /\ incarnation' = incarnation
    BY <1>4, <1>10, <1>14
  <2>3. \A e \in Pods : HasClaim(pod', e, q) => HasClaim(pod, e, q)
    BY <1>12
  <2>4. incarnation'[d] \in Nat /\ incarnation[d] <= incarnation'[d]
    BY <1>6, <1>8, <2>2, ConstantsAssumption
  <2> QED
    BY <1>4, <1>6, <1>10, <2>1, <2>2, <2>3, <2>4, OthersClaims
<1>15. Placed(pa'[p], worker'[p], lifeCache'[p], faults')
  <2>1. /\ w.mem.pod = pa[p].pod /\ w.mem.phase = "Deleting" /\ w.podOK \in BOOLEAN
        /\ w.to # "none" => worker[p].pc \in Loops
    BY <1>1, <1>5, <1>6, <1>7 DEF Placed
  <2>2. w.pc = "clearSpec" /\ w.pc \in Ends /\ w.pc \notin OnlyParts /\ worker[p].pc \notin Loops
    BY <1>4, <1>7 DEF Ends, OnlyParts, Loops
  <2>3. Placed(pa[p], w, lifeCache[p], faults)
    BY <1>5, <1>6, <1>7, <2>1, <2>2 DEF Placed
  <2> QED
    BY <1>4, <1>10, <2>3
<1>16. Keyed(p, pa[p], worker[p])'
  <2>1. \A e \in Pods : HasClaim(pod', e, p) => pa'[p].pod = e \/ LetGo(p)'
    BY <1>4, <1>5, <1>10, <1>12 DEF Keyed
  <2>2. pa'[p].phase = "Releasing" => Unclaimed(p)'
    BY <1>4, <1>5, <1>12 DEF Keyed, Unclaimed
  <2>3. Counted(pa[p], worker[p])'
    BY <1>4, <1>5, <1>7, <1>10 DEF Keyed, Counted
  <2> QED
    BY <1>4, <1>6, <1>7, <1>10, <2>1, <2>2, <2>3 DEF Keyed
<1>17. ASSUME faults = 0, NEW ip, Holds(pa[p], worker[p], ip)'
       PROVE  FALSE
  BY <1>4, <1>5, <1>6, <1>7, <1>10, <1>17 DEF Placed, Holds, Holding
<1>18. ASSUME HolderInv, pod'[d] # Null => \A q \in PAs : HasClaim(pod, d, q) => q = p,
              faults' = 0
       PROVE  HoldersClaim' /\ OneHolder'
  <2>1. faults = 0 /\ HoldersClaim /\ OneHolder
    BY <1>4, <1>18 DEF HolderInv
  <2>2. ASSUME NEW q \in PAs, NEW e \in Pods, pod'[e] # Null,
               Holds(pa[q], worker[q], <<e, pod[e].uid>>)'
        PROVE  HasClaim(pod', e, q)
    <3>1. q # p /\ Holds(pa[q], worker[q], <<e, pod'[e].uid>>)
      BY <1>14, <1>17, <2>1, <2>2
    <3>2. pod[e] # Null /\ pod'[e].uid = pod[e].uid
      BY <1>8, <1>10, <2>2
    <3>3. HasClaim(pod, e, q)
      BY <2>1, <3>1, <3>2 DEF HoldersClaim
    <3>4. e # d
      BY <1>18, <2>2, <3>1, <3>3
    <3> QED
      BY <1>10, <3>3, <3>4 DEF HasClaim
  <2>3. OneHolder'
    BY <1>14, <1>17, <2>1 DEF OneHolder
  <2> QED
    BY <2>2, <2>3 DEF HoldersClaim
<1> QED
  BY <1>1, <1>6, <1>9, <1>14, <1>15, <1>16, <1>18 DEF ClaimInv, AllPlaced, AllKeyed, HolderInv

\* Workloads and users.
LEMMA PodKeeps ==
  ASSUME PoolKept, FieldsInv, ClaimInv, NEW d \in Pods, PodStep(d), UNCHANGED lifeVars
  PROVE  /\ ClaimInv' /\ (HolderInv => HolderInv')
         /\ pod[d] # Null /\ pod'[d] # Null => pod'[d].claim = pod[d].claim
         /\ \A e \in Pods \ {d} : pod'[e] = pod[e]
<1>1. PICK r : PodChange(d, r) /\ pod' = [pod EXCEPT ![d] = r] /\ worker' = Overtaken(d, r)
               /\ WritePod(d, r) /\ UNCHANGED <<pa, podCache, lifeCache, faults>>
  BY DEF PodStep, PodCreate, PodGetsIP, PodDelete, EditDisabled, EditPool, PodChange, WritePod,
     paVars, cacheVars, lifeVars
<1>2. /\ pod'[d] = r /\ \A e \in Pods \ {d} : pod'[e] = pod[e]
      /\ \A s \in PAs : LetGo(s) => LetGo(s)'
      /\ \A q \in PAs : worker'[q] = Overtaken(d, r)[q]
  BY <1>1 DEF ClaimInv, PodsCounted, LetGo
<1>3. /\ incarnation \in [Pods -> 0..MaxIncarnations] /\ MaxIncarnations \in Nat
      /\ pod[d] # Null => /\ IsPod(pod[d]) /\ pod[d].uid \in 1..incarnation[d]
                          /\ pod[d].inPool = TRUE /\ pod[d].claim \in PAs \cup {Null}
  BY ConstantsAssumption DEF ClaimInv, PodsCounted
<1>4. \/ r = Null /\ pod[d] # Null /\ UNCHANGED incarnation
      \/ /\ pod[d] # Null /\ r.claim = pod[d].claim /\ UNCHANGED incarnation
         /\ IsPod(r) /\ r.uid = pod[d].uid /\ r.inPool = TRUE
      \/ /\ pod[d] = Null /\ r.claim = Null /\ IsPod(r) /\ r.uid = incarnation[d] + 1
         /\ r.inPool = TRUE /\ incarnation[d] < MaxIncarnations
         /\ incarnation' = [incarnation EXCEPT ![d] = @ + 1]
  <2>1. CASE PodCreate(d)
    <3>1. PICK n : n = incarnation[d] + 1
      OBVIOUS
    <3>2. pod'[d] = [uid |-> n, hasIP |-> FALSE, claim |-> Null, inPool |-> TRUE,
                     disabled |-> FALSE]
      BY <2>1, <3>1 DEF PodCreate, PodChange, WritePod, ClaimInv, PodsCounted
    <3>3. /\ incarnation' = [incarnation EXCEPT ![d] = @ + 1] /\ pod[d] = Null
          /\ incarnation[d] < MaxIncarnations
      BY <2>1 DEF PodCreate
    <3>4. r.claim = Null /\ IsPod(r) /\ r.uid = n /\ r.inPool = TRUE
      BY <1>2, <3>2 DEF IsPod
    <3> QED
      BY <3>1, <3>3, <3>4
  <2>2. CASE PodDelete(d)
    <3>1. pod'[d] = Null
      BY <2>2 DEF PodDelete, PodChange, WritePod, ClaimInv, PodsCounted
    <3> QED
      BY <1>2, <2>2, <3>1 DEF PodDelete
  <2>3. CASE PodGetsIP(d) \/ EditDisabled(d) \/ EditPool(d)
    <3>1. pod[d] # Null /\ UNCHANGED incarnation
      BY <2>3 DEF PodGetsIP, EditDisabled, EditPool
    <3>2. pod'[d] \in {[pod[d] EXCEPT !.hasIP = TRUE], [pod[d] EXCEPT !.disabled = ~@]}
      BY <2>3 DEF PodGetsIP, EditDisabled, EditPool, PodChange, WritePod, ClaimInv, PodsCounted,
         PoolKept
    <3> QED
      BY <1>2, <1>3, <3>1, <3>2 DEF IsPod
  <2> QED
    BY <2>1, <2>2, <2>3 DEF PodStep
<1>5. /\ incarnation' \in [Pods -> 0..MaxIncarnations]
      /\ \A e \in Pods : e # d => incarnation'[e] = incarnation[e]
      /\ incarnation'[d] \in Nat /\ incarnation[d] <= incarnation'[d]
  BY <1>3, <1>4
<1>6. r # Null => /\ IsPod(r) /\ r.uid \in 1..incarnation'[d] /\ r.inPool = TRUE
                  /\ r.claim \in PAs \cup {Null}
  BY <1>3, <1>4
<1>7. PodsCounted'
  BY <1>1, <1>5, <1>6, PodsStayCounted DEF ClaimInv
<1>8. \A q \in PAs : \A e \in Pods : HasClaim(pod', e, q) => HasClaim(pod, e, q)
  BY <1>2, <1>4, ConstantsAssumption DEF HasClaim
<1>9. ASSUME NEW q \in PAs
      PROVE  /\ Placed(pa'[q], worker'[q], lifeCache'[q], faults')
             /\ Keyed(q, pa[q], worker[q])'
             /\ \A ip : Holds(pa[q], worker[q], ip)' => Holds(pa[q], worker[q], ip)
  <2>1. Clearing(q, worker[q]) /\ worker[q].mem.pod = d /\ PodsOnce =>
          HasClaim(pod', d, q) \/ Gone(d)'
    <3> SUFFICES ASSUME PodsOnce, HasClaim(pod, d, q) \/ Gone(d)
                 PROVE  HasClaim(pod', d, q) \/ Gone(d)'
      BY DEF Clearing
    <3>1. CASE HasClaim(pod, d, q)
      <4>1. pod[d] # Null /\ pod[d].claim = q /\ incarnation[d] = 1 /\ MaxIncarnations = 1
        BY <1>3, <3>1 DEF HasClaim, PodsOnce
      <4> QED
        BY <1>2, <1>4, <4>1 DEF HasClaim, Gone
    <3>2. CASE Gone(d)
      BY <1>2, <1>3, <1>4, <3>2 DEF Gone
    <3> QED
      BY <3>1, <3>2
  <2>2. pa'[q] = pa[q] /\ worker'[q] = Overtaken(d, r)[q] /\ UNCHANGED <<lifeCache, faults>>
    BY <1>1, <1>2
  <2>3. \A e \in Pods : HasClaim(pod', e, q) => HasClaim(pod, e, q)
    BY <1>8
  <2> QED
    BY <1>1, <1>2, <1>5, <2>1, <2>2, <2>3, OthersClaims
<1>10. ASSUME HolderInv, faults' = 0
       PROVE  HoldersClaim' /\ OneHolder'
  <2>1. faults = 0 /\ HoldersClaim /\ OneHolder
    BY <1>1, <1>10 DEF HolderInv
  <2>2. ASSUME NEW q \in PAs, NEW e \in Pods, NEW n, n = pod'[e].uid, pod'[e] # Null,
               Holds(pa[q], worker[q], <<e, n>>)'
        PROVE  HasClaim(pod', e, q)
    <3>1. Holds(pa[q], worker[q], <<e, n>>)
      BY <1>9, <2>2
    <3>2. n <= incarnation[e]
      BY <2>1, <3>1, HeldCounted
    <3>3. pod[e] # Null /\ pod'[e].claim = pod[e].claim /\ pod[e].uid = n
      BY <1>2, <1>3, <1>4, <2>2, <3>2
    <3> QED
      BY <2>1, <2>2, <3>1, <3>3 DEF HoldersClaim, HasClaim
  <2>3. OneHolder'
    BY <1>9, <2>1 DEF OneHolder
  <2> QED
    BY <2>2, <2>3 DEF HoldersClaim
<1> QED
  BY <1>2, <1>4, <1>7, <1>9, <1>10 DEF ClaimInv, AllPlaced, AllKeyed, HolderInv

\* The Pods as they are, and a worker that at most loses its PA.
LEMMA OthersSpare ==
  ASSUME FieldsInv, ClaimInv, PodsCounted',
         UNCHANGED <<pa, pod, incarnation, faults>>, DOMAIN worker' = PAs,
         \A q \in PAs :
           /\ worker'[q] \in {worker[q], [worker[q] EXCEPT !.memOK = FALSE]}
           /\ lifeCache[q] # "live" => lifeCache'[q] # "live"
  PROVE  ClaimInv' /\ (HolderInv => HolderInv')
<1>1. ASSUME NEW q \in PAs
      PROVE  /\ worker'[q].pc = worker[q].pc /\ worker'[q].mem = worker[q].mem
             /\ worker'[q].to = worker[q].to /\ worker'[q].podOK = worker[q].podOK
             /\ Placed(pa'[q], worker'[q], lifeCache'[q], faults')
  <2>1. IsWorker(worker[q]) /\ Placed(pa[q], worker[q], lifeCache[q], faults)
    BY DEF FieldsInv, ClaimInv, AllPlaced
  <2>2. /\ worker'[q].pc = worker[q].pc /\ worker'[q].mem = worker[q].mem
        /\ worker'[q].to = worker[q].to /\ worker'[q].podOK = worker[q].podOK
        /\ worker'[q] = [x \in DOMAIN worker'[q] |-> worker'[q][x]]
    BY <2>1 DEF IsWorker, Placed
  <2> QED
    BY <2>1, <2>2 DEF Placed
<1>2. \A s \in PAs : LetGo(s) => LetGo(s)'
  BY DEF LetGo
<1>3. \A d \in Pods : pod[d] # Null /\ Free(d) => Free(d)'
  BY <1>2 DEF Free, ClaimInv, PodsCounted
<1>4. ASSUME NEW q \in PAs PROVE Keyed(q, pa[q], worker[q])'
  <2>1. Keyed(q, pa[q], worker[q]) /\ Placed(pa[q], worker[q], lifeCache[q], faults)
    BY DEF ClaimInv, AllKeyed, AllPlaced
  <2>2. worker[q].podOK = TRUE => worker[q].mem.pod \in Pods
    BY <2>1 DEF Placed, Keyed, Setting
  <2>3. worker'[q].podOK = TRUE => Setting(worker[q])'
    BY <1>1, <1>3, <2>1, <2>2 DEF Keyed, Setting
  <2>4. worker'[q].pc = "patchPodClaimAgain" => Clearing(q, worker[q])'
    BY <1>1, <2>1 DEF Keyed, Clearing, Gone, HasClaim, PodsOnce
  <2>5. Counted(pa[q], worker[q])'
    BY <1>1, <2>1 DEF Keyed, Counted
  <2>6. Unclaimed(q) => Unclaimed(q)'
    BY DEF Unclaimed
  <2> QED
    BY <1>1, <1>2, <2>1, <2>3, <2>4, <2>5, <2>6 DEF Keyed
<1>5. \A q \in PAs : \A ip : Holds(pa[q], worker[q], ip)' <=> Holds(pa[q], worker[q], ip)
  BY <1>1 DEF Holds
<1>6. HolderInv => HolderInv'
  <2>1. HoldersClaim => HoldersClaim'
    BY <1>5 DEF HoldersClaim, HasClaim
  <2>2. OneHolder => OneHolder'
    BY <1>5 DEF OneHolder
  <2> QED
    BY <2>1, <2>2 DEF HolderInv
<1> QED
  BY <1>1, <1>4, <1>6 DEF ClaimInv, AllPlaced, AllKeyed

\* Users that delete PAs, and the informers.
LEMMA InformersKeep ==
  ASSUME FieldsInv, ClaimInv,
         \/ \E p \in PAs : DeletePA(p) \/ SyncLife(p)
         \/ \E d \in Pods : SyncPod(d) /\ UNCHANGED lifeVars
         \/ UNCHANGED deletionVars
  PROVE  ClaimInv' /\ (HolderInv => HolderInv') /\ UNCHANGED pod
<1>1. UNCHANGED <<pa, pod, incarnation, faults>> /\ PodsCounted'
  <2>1. CASE \E p \in PAs : DeletePA(p) \/ SyncLife(p)
    BY <2>1 DEF DeletePA, SyncLife, SyncPA, podVars, cacheVars, ClaimInv, PodsCounted
  <2>2. CASE \E d \in Pods : SyncPod(d)
    BY <2>2 DEF SyncPod, paVars, ClaimInv, PodsCounted
  <2>3. CASE UNCHANGED deletionVars
    BY <2>3 DEF vars, deletionVars, ClaimInv, PodsCounted
  <2> QED
    BY <2>1, <2>2, <2>3
<1>2. /\ DOMAIN worker' = PAs
      /\ \A q \in PAs : worker'[q] \in {worker[q], [worker[q] EXCEPT !.memOK = FALSE]}
  BY DEF DeletePA, SyncLife, SyncPA, SyncPod, vars, deletionVars, FieldsInv
<1>3. \A q \in PAs : lifeCache[q] # "live" => lifeCache'[q] # "live"
  BY DEF DeletePA, SyncLife, SyncPod, lifeVars, deletionVars, FieldsInv
<1> QED
  BY <1>1, <1>2, <1>3, OthersSpare

-----------------------------------------------------------------------------
(* What the workers do is lawful.                                           *)

\* What a worker reads is as it is.
LEMMA ReadsCurrent ==
  ASSUME CurrentCaches, FieldsInv, ClaimInv, NEW p \in PAs, CacheReadable(p)
  PROVE  /\ paSynced[p] = TRUE /\ \A q \in PAs : paCache[q] = pa[q]
         /\ \A d \in Pods : podSynced[d] = TRUE /\ podCache[d] = pod[d]
BY DEF CurrentCaches, CacheReadable, FieldsInv, ClaimInv, PodsCounted

\* The invariant, for one PA.
LEMMA OnePA ==
  ASSUME FieldsInv, ClaimInv, NEW p \in PAs
  PROVE  /\ Placed(pa[p], worker[p], lifeCache[p], faults) /\ Keyed(p, pa[p], worker[p])
         /\ IsPA(pa[p]) /\ IsPA(paCache[p]) /\ IsWorker(worker[p])
         /\ worker[p].pc # "claimPod" => worker[p].podOK = FALSE
         /\ pa[p].pod \in Pods \cup {Null}
<1>1. Placed(pa[p], worker[p], lifeCache[p], faults) /\ Keyed(p, pa[p], worker[p])
  BY DEF ClaimInv, AllPlaced, AllKeyed
<1> QED
  BY <1>1 DEF FieldsInv, Placed, Keyed, Setting

\* A worker between two reconciles, as the one that starts afresh.
Resting(w) ==
    /\ w.pc = "idle" /\ w.podOK = FALSE /\ w.to = "none"
    /\ w.mem.phase # "Deleting" /\ w = [x \in DOMAIN w |-> w[x]]

LEMMA IdleFresh ==
    /\ Idle.pc = "idle" /\ Idle.podOK = FALSE /\ Idle.to = "none"
    /\ Idle.mem.phase = "Available" /\ Idle = [x \in DOMAIN Idle |-> Idle[x]]
    /\ IsWorker(Idle) /\ Resting(Idle)
BY DEF Idle, EmptyPA, IsWorker, Resting

LEMMA IdleRests ==
  ASSUME FieldsInv, ClaimInv, NEW p \in PAs, worker[p].pc = "idle"
  PROVE  Resting(worker[p])
BY OnePA DEF Resting, Placed, Ends, OnlyParts, Loops

\* A PA names a Pod with its address, and has one as long as it holds one.
Named(r, f) ==
    /\ IF r.pod = Null THEN r.ip = Null ELSE r.pod \in Pods /\ r.ip \in Addresses(r.pod)
    /\ f = 0 /\ r.phase \in Holding => r.pod # Null

LEMMA IdlePlaced ==
  ASSUME NEW r, NEW w, NEW l, NEW f, Named(r, f), Resting(w)
  PROVE  Placed(r, w, l, f)
BY DEF Placed, Named, Resting, ReleasePCs, Ends, OnlyParts, Loops

\* The reservation as it is: the worker goes on, with no Pod in hand ...
LEMMA GoesOnLawful ==
  ASSUME FieldsInv, ClaimInv, NEW p \in PAs, NEW w, worker'[p] = w, faults' = 0 => faults = 0,
         pa'[p].pod = pa[p].pod, pa'[p].ip = pa[p].ip, pa'[p].phase = pa[p].phase,
         \/ w = Idle
         \/ /\ Placed(pa[p], w, lifeCache[p], faults') /\ w.podOK = FALSE
            /\ w.pc \notin {"claimPod", "rollback", "patchPodClaimAgain", "setPodIP",
                            "setBinding"}
  PROVE  Lawful(p)
<1>1. Placed(pa[p], worker[p], lifeCache[p], faults) /\ Keyed(p, pa[p], worker[p])
  BY OnePA
<1>2. Named(pa[p], faults')
  BY <1>1 DEF Placed, Named
<1>3. Placed(pa[p], w, lifeCache[p], faults')
  BY <1>2, IdlePlaced, IdleFresh
<1>4. Placed(pa'[p], w, lifeCache[p], faults')
  BY <1>3 DEF Placed
<1>5. /\ w.pc \notin {"claimPod", "rollback", "patchPodClaimAgain", "setPodIP", "setBinding"}
      /\ w.podOK = FALSE
  BY IdleFresh
<1>6. /\ pa[p].phase = "Releasing" => Unclaimed(p)
      /\ Counted(pa'[p], w)
  BY <1>1, <1>5 DEF Keyed, Counted
<1>7. \A ip : Holds(pa'[p], w, ip) => Holds(pa[p], worker[p], ip)
  BY <1>5 DEF Holds
<1> QED
  BY <1>4, <1>5, <1>6, <1>7 DEF Lawful

\* The PA has the Pod that it names, or is about to be Binding to it.
Keeps(p) == pa[p].phase \in Holding \/ worker[p].pc = "setBinding"

\* ... or the reconcile ends with a new phase ...
LEMMA TurnsLawful ==
  ASSUME FieldsInv, ClaimInv, NEW p \in PAs, Resting(worker'[p]), faults' = 0 => faults = 0,
         pa'[p].pod = pa[p].pod, pa'[p].ip = pa[p].ip,
         pa'[p].phase = "Releasing" => Unclaimed(p),
         pa'[p].phase \in Holding => Keeps(p) /\ (faults = 0 => pa[p].pod # Null)
  PROVE  Lawful(p)
<1>1. Named(pa'[p], faults')
  BY OnePA DEF Placed, Named
<1>2. Placed(pa'[p], worker'[p], lifeCache[p], faults')
  BY <1>1, IdlePlaced
<1>3. /\ Placed(pa[p], worker[p], lifeCache[p], faults) /\ Counted(pa[p], worker[p])
      /\ worker'[p].pc = "idle" /\ worker'[p].podOK = FALSE
  BY OnePA DEF Keyed, Resting
<1>4. Counted(pa'[p], worker'[p])
  BY <1>3 DEF Counted
<1>5. \A ip : Holds(pa'[p], worker'[p], ip) => Holds(pa[p], worker[p], ip)
  BY <1>3 DEF Holds, Keeps, Placed
<1> QED
  BY <1>2, <1>3, <1>4, <1>5 DEF Lawful

\* ... or the PA lets its Pod go.
LEMMA LetsGoLawful ==
  ASSUME FieldsInv, ClaimInv, NEW p \in PAs, NEW w, worker'[p] = w, faults' = 0 => faults = 0,
         pa'[p].pod = Null, pa'[p].ip = Null, pa'[p].phase \in Holding => faults' # 0,
         pa'[p].phase = "Releasing" => Unclaimed(p),
         Unclaimed(p) \/ lifeCache[p] # "live",
         \/ Resting(w)
         \/ /\ w.pc = "setAvailable" /\ pa'[p].phase = "Releasing" /\ w.mem.phase = "Releasing"
            /\ w.podOK = FALSE /\ w.to = "none" /\ w = [x \in DOMAIN w |-> w[x]]
         \/ /\ w.pc = "deleteSGs" /\ w.mem.phase = "Deleting" /\ lifeCache[p] # "live"
            /\ faults' = 0 => pa'[p].phase = "Deleting"
            /\ w.podOK = FALSE /\ w.to = "none" /\ w = [x \in DOMAIN w |-> w[x]]
  PROVE  Lawful(p)
<1>1. Named(pa'[p], faults')
  BY DEF Named
<1>2. Placed(pa'[p], w, lifeCache[p], faults')
  <2>1. CASE Resting(w)
    BY <1>1, <2>1, IdlePlaced
  <2>2. CASE w.pc = "setAvailable"
    BY <1>1, <2>2 DEF Placed, Named, Resting, ReleasePCs, Ends, OnlyParts
  <2>3. CASE w.pc = "deleteSGs"
    BY <1>1, <2>3 DEF Placed, Named, Resting, ReleasePCs, Ends, OnlyParts
  <2> QED
    BY <2>1, <2>2, <2>3
<1>3. /\ w.pc \notin {"claimPod", "rollback", "patchPodClaimAgain", "setPodIP", "setBinding"}
      /\ w.podOK = FALSE
  BY DEF Resting
<1>4. Counted(pa'[p], w) /\ (faults' = 0 => \A ip : ~Holds(pa'[p], w, ip))
  BY <1>3 DEF Counted, Holds
<1> QED
  BY <1>2, <1>3, <1>4 DEF Lawful

\* handleAvailable, but for the claim.
LEMMA ClaimLawful ==
  ASSUME CurrentCaches, FieldsInv, ClaimInv, NEW p \in PAs, Base(p), faults' = 0 => faults = 0,
         \/ \E d \in Pods : HandleAvailable(p, d)
         \/ ClaimPodFails(p) \/ RollBack(p) \/ SetBinding(p)
  PROVE  Lawful(p)
<1>1. /\ Placed(pa[p], worker[p], lifeCache[p], faults) /\ Keyed(p, pa[p], worker[p])
      /\ IsPA(pa[p]) /\ IsWorker(worker[p])
  BY OnePA
<1>2. ASSUME NEW d \in Pods, HandleAvailable(p, d) PROVE Lawful(p)
  <2>1. PICK r : r = [pa[p] EXCEPT !.pod = d, !.ip = <<d, podCache[d].uid>>]
    OBVIOUS
  <2>2. PICK w : w = [Idle EXCEPT !.pc = "claimPod", !.mem = r, !.memOK = TRUE,
                                  !.podOK = podSynced[d]]
    OBVIOUS
  <2>3. /\ pa'[p] = r /\ worker'[p] = w /\ CacheReadable(p) /\ lifeCache[p] = "live"
        /\ paCache[p].phase = "Available" /\ paCache[p].pod = Null /\ Candidate(p, d)
    BY <1>2, <2>1, <2>2, Written DEF HandleAvailable, Reconcile, Base
  <2>4. /\ paCache[p] = pa[p] /\ podSynced[d] = TRUE /\ podCache[d] = pod[d]
        /\ \A q \in PAs : paCache[q] = pa[q]
    BY <2>3, ReadsCurrent
  <2>5. /\ pod[d] # Null /\ pod[d].uid \in 1..incarnation[d] /\ pod[d].claim \in PAs \cup {Null}
        /\ incarnation[d] \in 0..MaxIncarnations /\ MaxIncarnations \in Nat /\ d # Null
    BY <2>3, <2>4, ConstantsAssumption DEF Candidate, ClaimInv, PodsCounted
  <2>6. Unclaimed(p)
    BY <1>1, <2>3, <2>4, ConstantsAssumption DEF Keyed, Unclaimed, LetGo
  <2>7. Free(d)
    <3>1. pod[d].claim # p
      BY <2>5, <2>6 DEF Unclaimed, HasClaim
    <3>2. CASE pod[d].claim = Null
      BY <3>2 DEF Free
    <3>3. CASE pod[d].claim # Null
      <4>1. PICK q \in PAs : q = pod[d].claim /\ pa[q].pod # d
        BY <2>3, <2>4, <2>5, <3>1, <3>3 DEF Candidate, StaleClaim
      <4>2. Keyed(q, pa[q], worker[q]) /\ HasClaim(pod, d, q)
        BY <2>5, <4>1 DEF ClaimInv, AllKeyed, HasClaim
      <4> QED
        BY <4>1, <4>2 DEF Free, Keyed
    <3> QED
      BY <3>2, <3>3
  <2>8. /\ r.pod = d /\ r.ip = <<d, pod[d].uid>> /\ r.phase = "Available"
        /\ r.ip \in Addresses(d) /\ r.ip[2] = pod[d].uid
    <3>1. PICK n : n = pod[d].uid /\ n \in 1..MaxIncarnations
      BY <2>5
    <3> QED
      BY <1>1, <2>1, <2>3, <2>4, <3>1 DEF IsPA, Addresses
  <2>9. /\ w.pc = "claimPod" /\ w.mem = r /\ w.podOK = TRUE /\ w.to = "none"
        /\ w = [x \in DOMAIN w |-> w[x]]
    BY <2>2, <2>4, IdleFresh DEF IsWorker
  <2>10. Placed(r, w, lifeCache[p], faults')
    BY <2>5, <2>8, <2>9 DEF Placed, ReleasePCs, Ends, OnlyParts, Holding
  <2>11. Setting(w)
    BY <2>5, <2>7, <2>8, <2>9 DEF Setting
  <2>12. Counted(r, w)
    BY <2>5, <2>8, <2>9 DEF Counted
  <2>13. \A ip : ~Holds(r, w, ip)
    BY <2>8, <2>9 DEF Holds, Holding
  <2>14. pa[p].pod = Null
    BY <2>3, <2>4
  <2> QED
    BY <2>3, <2>6, <2>8, <2>9, <2>10, <2>11, <2>12, <2>13, <2>14 DEF Lawful
<1>3. CASE ClaimPodFails(p)
  <2>1. PICK w : w = [worker[p] EXCEPT !.pc = "rollback", !.podOK = FALSE]
    OBVIOUS
  <2>2. worker'[p] = w /\ pa'[p] = pa[p] /\ worker[p].pc = "claimPod"
    BY <1>3, <2>1, Written DEF ClaimPodFails, At
  <2>3. /\ w.pc = "rollback" /\ w.podOK = FALSE /\ w.mem = worker[p].mem /\ w.to = worker[p].to
        /\ w = [x \in DOMAIN w |-> w[x]]
    BY <1>1, <2>1 DEF IsWorker
  <2>4. /\ pa[p].phase = "Available" /\ worker[p].mem.pod = pa[p].pod /\ pa[p].pod # Null
        /\ worker[p].mem.phase # "Deleting" /\ worker[p].to = "none" /\ Unclaimed(p)
    BY <1>1, <2>2 DEF Placed, Keyed, Ends, OnlyParts, Loops
  <2>5. Placed(pa[p], w, lifeCache[p], faults')
    BY <1>1, <2>3, <2>4 DEF Placed, ReleasePCs, Ends, OnlyParts
  <2>6. Counted(pa[p], w) /\ \A ip : ~Holds(pa[p], w, ip)
    BY <1>1, <2>3, <2>4 DEF Keyed, Counted, Holds, Holding
  <2> QED
    BY <2>2, <2>3, <2>4, <2>5, <2>6 DEF Lawful
<1>4. CASE RollBack(p)
  <2>1. PICK r : r = Unreserved(p)
    OBVIOUS
  <2>2. /\ pa'[p] = r /\ worker'[p] = Idle
        /\ pa[p].phase = "Available" /\ Unclaimed(p)
    BY <1>1, <1>4, <2>1, Written DEF RollBack, At, Placed, Keyed
  <2>3. r.pod = Null /\ r.ip = Null /\ r.phase = "Available"
    BY <1>1, <2>1, <2>2 DEF Unreserved, IsPA
  <2> QED
    BY <2>2, <2>3, LetsGoLawful, IdleFresh DEF Holding
<1>5. CASE SetBinding(p)
  <2>1. PICK r : r = [pa[p] EXCEPT !.phase = "Binding"]
    OBVIOUS
  <2>2. /\ pa'[p] \in {r, pa[p]} /\ worker'[p] = Idle
        /\ worker[p].pc = "setBinding" /\ pa[p].pod # Null
    BY <1>1, <1>5, <2>1, Written DEF SetBinding, At, Placed
  <2>3. r.pod = pa[p].pod /\ r.ip = pa[p].ip /\ r.phase = "Binding"
    BY <1>1, <2>1 DEF IsPA
  <2>4. CASE pa'[p] = r
    BY <2>2, <2>3, <2>4, TurnsLawful, IdleFresh DEF Keeps
  <2>5. CASE pa'[p] = pa[p]
    BY <2>2, <2>5, GoesOnLawful
  <2> QED
    BY <2>2, <2>4, <2>5
<1> QED
  BY <1>2, <1>3, <1>4, <1>5

\* The address of a Pod.
LEMMA AddressOf ==
  ASSUME ClaimInv, NEW d \in Pods, pod[d] # Null
  PROVE  /\ <<d, pod[d].uid>> \in Addresses(d) /\ <<d, pod[d].uid>>[2] = pod[d].uid
         /\ pod[d].uid <= incarnation[d]
<1>1. pod[d].uid \in 1..incarnation[d] /\ incarnation[d] \in 0..MaxIncarnations
  BY DEF ClaimInv, PodsCounted
<1> QED
  BY <1>1, ConstantsAssumption DEF Addresses

\* A worker that resumes.
Resumed(p, ip, w) ==
    /\ w.pc = "setPodIP" \/ (w.pc = "setBinding" /\ ip = pa[p].ip)
    /\ w.mem.ip = ip /\ w.mem.pod = pa[p].pod /\ w.mem.phase = "Available"
    /\ w.podOK = FALSE /\ w.to = "none" /\ w = [x \in DOMAIN w |-> w[x]]

LEMMA ResumeWorker ==
  ASSUME NEW p, NEW ip, NEW w, w = ResumeWith(p, ip), paCache[p] = pa[p], IsPA(pa[p]),
         pa[p].phase = "Available"
  PROVE  Resumed(p, ip, w)
<1>1. PICK m : m = [paCache[p] EXCEPT !.ip = ip]
  OBVIOUS
<1>2. m.ip = ip /\ m.pod = pa[p].pod /\ m.phase = "Available"
  BY <1>1 DEF IsPA
<1>3. w = [Idle EXCEPT !.pc = IF ip = paCache[p].ip THEN "setBinding" ELSE "setPodIP",
                       !.mem = m, !.memOK = paSynced[p]]
  BY <1>1 DEF ResumeWith
<1> QED
  BY <1>2, <1>3, IdleFresh DEF IsWorker, Resumed

\* availableResumeBind, but for the claim.
LEMMA ResumeLawful ==
  ASSUME CurrentCaches, FieldsInv, ClaimInv, NEW p \in PAs, Base(p), faults' = 0 => faults = 0,
         ResumeConfirmed(p) \/ ResumeClear(p) \/ ResumeClaimFails(p) \/ SetPodIP(p)
  PROVE  Lawful(p)
<1>1. /\ Placed(pa[p], worker[p], lifeCache[p], faults) /\ Keyed(p, pa[p], worker[p])
      /\ IsPA(pa[p]) /\ pa[p].pod \in Pods \cup {Null}
  BY OnePA
<1>2. ASSUME Resume(p)
      PROVE  /\ paCache[p] = pa[p] /\ pa[p].phase = "Available" /\ lifeCache[p] = "live"
             /\ pa[p].pod \in Pods /\ pa[p].pod # Null
             /\ CachedPod(p) = pod[pa[p].pod] /\ worker[p].pc = "idle"
             /\ \A e \in Pods : HasClaim(pod, e, p) => e = pa[p].pod
             /\ worker[p].podOK = FALSE
  <2>1. /\ paCache[p] = pa[p] /\ \A d \in Pods : podCache[d] = pod[d]
        /\ lifeCache[p] = "live" /\ worker[p].pc = "idle"
    BY <1>2, ReadsCurrent DEF Resume, Reconcile, Base, At
  <2>2. pa[p].phase = "Available" /\ pa[p].pod \in Pods /\ pa[p].pod # Null
    BY <1>1, <1>2, <2>1 DEF Resume, Reconcile
  <2>3. \A e \in Pods : HasClaim(pod, e, p) => e = pa[p].pod
    BY <1>1, <2>1 DEF Keyed, LetGo
  <2> QED
    BY <2>1, <2>2, <2>3, OnePA DEF CachedPod
<1>3. CASE ResumeConfirmed(p)
  <2>1. PICK d \in Pods : d = pa[p].pod
    BY <1>2, <1>3 DEF ResumeConfirmed
  <2>2. /\ Resume(p) /\ pod[d] # Null /\ pod[d].claim = p /\ pa[p].phase = "Available"
        /\ Goto(p, ResumeWith(p, <<d, pod[d].uid>>)) /\ pa'[p] = pa[p]
    BY <1>2, <1>3, <2>1, Written DEF ResumeConfirmed
  <2>3. PICK ip : ip = <<d, pod[d].uid>>
    OBVIOUS
  <2>4. ip \in Addresses(d) /\ ip[2] = pod[d].uid /\ pod[d].uid <= incarnation[d]
    BY <2>2, <2>3, AddressOf
  <2>5. PICK w : w = ResumeWith(p, ip)
    OBVIOUS
  <2>6. worker'[p] = w
    BY <2>2, <2>3, <2>5, Written
  <2>7. /\ w.pc = "setPodIP" \/ (w.pc = "setBinding" /\ ip = pa[p].ip)
        /\ w.mem.ip = ip /\ w.mem.pod = d /\ w.mem.phase = "Available"
        /\ w.podOK = FALSE /\ w.to = "none" /\ w = [x \in DOMAIN w |-> w[x]]
    <3>1. paCache[p] = pa[p] /\ IsPA(pa[p])
      BY <1>1, <1>2, <2>2
    <3>2. Resumed(p, ip, w)
      BY <2>2, <2>5, <3>1, ResumeWorker
    <3> QED
      BY <2>1, <3>2 DEF Resumed
  <2>8. Placed(pa[p], w, lifeCache[p], faults')
    BY <1>1, <2>1, <2>2, <2>4, <2>7, ConstantsAssumption
       DEF Placed, ReleasePCs, Ends, OnlyParts, Holding
  <2>9. Counted(pa[p], w)
    BY <1>1, <2>1, <2>4, <2>7 DEF Keyed, Counted
  <2>10. HasClaim(pod, d, p) /\ \A a : Holds(pa[p], w, a) => a = ip
    BY <2>2, <2>7 DEF HasClaim, Holds, Holding
  <2> QED
    BY <2>2, <2>3, <2>6, <2>7, <2>8, <2>9, <2>10 DEF Lawful
<1>4. CASE ResumeClear(p) \/ ResumeClaimFails(p)
  <2>1. PICK r : r = Unreserved(p)
    OBVIOUS
  <2>2. /\ Resume(p) /\ pa'[p] = r /\ worker'[p] = worker[p]
        /\ pod[pa[p].pod] = Null \/ pod[pa[p].pod].claim # p
    <3>1. Resume(p) /\ WritePA(p, r) /\ UNCHANGED worker
      BY <1>4, <2>1 DEF ResumeClear, ResumeClaimFails
    <3>2. CachedPod(p) = Null \/ CachedPod(p).claim # p
      BY <1>4, ConstantsAssumption DEF ResumeClear, ResumeClaimFails
    <3> QED
      BY <1>2, <3>1, <3>2, Written
  <2>3. r.pod = Null /\ r.ip = Null /\ r.phase = "Available"
    BY <1>1, <1>2, <2>1, <2>2 DEF Unreserved, IsPA
  <2>4. Unclaimed(p)
    BY <1>2, <2>2 DEF Unclaimed, HasClaim
  <2>5. Resting(worker[p])
    BY <1>2, <2>2, IdleRests
  <2> QED
    BY <2>2, <2>3, <2>4, <2>5, LetsGoLawful DEF Holding
<1>5. CASE SetPodIP(p)
  <2>1. PICK r : r = [pa[p] EXCEPT !.ip = worker[p].mem.ip]
    OBVIOUS
  <2>2. PICK w : w = [worker[p] EXCEPT !.pc = "setBinding"]
    OBVIOUS
  <2>3. /\ worker[p].pc = "setPodIP"
        /\ (pa'[p] = r /\ worker'[p] = w) \/ (pa'[p] = pa[p] /\ worker'[p] = Idle)
    BY <1>5, <2>1, <2>2, Written DEF SetPodIP, At
  <2>4. CASE pa'[p] = pa[p] /\ worker'[p] = Idle
    BY <2>4, GoesOnLawful
  <2>5. CASE pa'[p] = r /\ worker'[p] = w
    <3>1. r.pod = pa[p].pod /\ r.phase = pa[p].phase /\ r.ip = worker[p].mem.ip
      BY <1>1, <2>1 DEF IsPA
    <3>2. /\ w.pc = "setBinding" /\ w.mem = worker[p].mem /\ w.to = worker[p].to
          /\ w.podOK = worker[p].podOK /\ w = [x \in DOMAIN w |-> w[x]]
      BY <1>1, <2>2, OnePA DEF IsWorker
    <3>3. /\ pa[p].phase = "Available" /\ pa[p].pod # Null /\ pa[p].pod \in Pods
          /\ worker[p].mem.ip \in Addresses(pa[p].pod) /\ worker[p].mem.pod = pa[p].pod
          /\ worker[p].mem.phase # "Deleting" /\ worker[p].to = "none"
          /\ worker[p].podOK = FALSE /\ worker[p].mem.ip[2] <= incarnation[pa[p].pod]
      BY <1>1, <2>3, OnePA DEF Placed, Keyed, Counted, Ends, OnlyParts, Loops
    <3>4. Placed(r, w, lifeCache[p], faults')
      BY <3>1, <3>2, <3>3 DEF Placed, ReleasePCs, Ends, OnlyParts, Holding
    <3>5. Counted(r, w)
      BY <3>1, <3>2, <3>3 DEF Counted
    <3>6. \A ip : Holds(r, w, ip) => Holds(pa[p], worker[p], ip)
      BY <2>3, <3>1, <3>2, <3>3 DEF Holds, Holding
    <3> QED
      BY <2>5, <3>1, <3>2, <3>3, <3>4, <3>5, <3>6 DEF Lawful
  <2> QED
    BY <2>3, <2>4, <2>5
<1> QED
  BY <1>3, <1>4, <1>5

\* A handler that ends in one CAS on the status.
LEMMA MoveLawful ==
  ASSUME CurrentCaches, FieldsInv, ClaimInv, NEW p \in PAs, Base(p), faults' = 0 => faults = 0,
         AbortBinding(p) \/ HandleBound(p) \/ DisabledPodGone(p) \/ ReEnable(p)
  PROVE  Lawful(p)
<1>1. /\ Placed(pa[p], worker[p], lifeCache[p], faults) /\ Keyed(p, pa[p], worker[p])
      /\ IsPA(pa[p]) /\ pa[p].pod \in Pods \cup {Null}
  BY OnePA
<1>2. PICK phase : /\ MovePhase(p, phase) /\ phase \in {"Releasing", "Binding"}
                   /\ phase = "Binding" => ReEnable(p)
  BY DEF AbortBinding, HandleBound, DisabledPodGone, ReEnable
<1>3. PICK from \in Holding : Reconcile(p, from)
  BY DEF AbortBinding, HandleBound, DisabledPodGone, ReEnable, Holding
<1>4. /\ paCache[p] = pa[p] /\ \A d \in Pods : podCache[d] = pod[d]
      /\ worker[p].pc = "idle" /\ lifeCache[p] = "live" /\ pa[p].phase = from
  BY <1>3, ReadsCurrent DEF Reconcile, At, Base
<1>5. PICK r : r = [pa[p] EXCEPT !.phase = phase]
  OBVIOUS
<1>6. r.pod = pa[p].pod /\ r.ip = pa[p].ip /\ r.phase = phase
  BY <1>1, <1>5 DEF IsPA
<1>7. pa'[p] = r /\ worker'[p] = worker[p]
  BY <1>2, <1>5, Written DEF MovePhase
<1>8. ASSUME phase = "Releasing" PROVE Unclaimed(p)
  <2>1. pa[p].pod # Null => CachedPod(p) = pod[pa[p].pod]
    BY <1>1, <1>4 DEF CachedPod
  <2>2. \/ pa[p].pod = Null
        \/ pod[pa[p].pod] = Null \/ pod[pa[p].pod].claim # p
    <3>1. CASE AbortBinding(p)
      <4>1. ASSUME pa[p].pod # Null PROVE pa[p].ip # Null
        <5>1. pa[p].pod \in Pods /\ pa[p].ip \in Addresses(pa[p].pod)
          BY <1>1, <4>1 DEF Placed
        <5> QED
          BY <5>1, NullIsNoAddress DEF Addresses
      <4> QED
        BY <1>4, <2>1, <3>1, <4>1 DEF AbortBinding, StillClaimed
    <3>2. CASE HandleBound(p)
      <4>1. pa[p].pod # Null /\ pod[pa[p].pod] # Null => pod[pa[p].pod].inPool = TRUE
        BY <1>1 DEF ClaimInv, PodsCounted
      <4> QED
        BY <2>1, <3>2, <4>1 DEF HandleBound, BoundPodGone, BoundPodLost
    <3>3. CASE DisabledPodGone(p)
      BY <2>1, <3>3 DEF DisabledPodGone
    <3>4. CASE ReEnable(p)
      <4>1. pa'[p].phase = "Binding"
        BY <3>4, <1>1, Written DEF ReEnable, MovePhase, IsPA
      <4> QED
        BY <1>6, <1>7, <1>8, <4>1
    <3> QED
      BY <3>1, <3>2, <3>3, <3>4
  <2>3. \A d \in Pods : HasClaim(pod, d, p) => pa[p].pod = d
    BY <1>1, <1>4 DEF Keyed, LetGo
  <2> QED
    BY <2>2, <2>3, ConstantsAssumption DEF Unclaimed, HasClaim
<1>9. Resting(worker'[p])
  BY <1>4, <1>7, IdleRests
<1>10. Keeps(p) /\ (faults = 0 => pa[p].pod # Null)
  BY <1>1, <1>4 DEF Keeps, Placed
<1> QED
  BY <1>6, <1>7, <1>8, <1>9, <1>10, TurnsLawful

\* The start of a loop.
LEMMA StartLawful ==
  ASSUME CurrentCaches, FieldsInv, ClaimInv, NEW p \in PAs, Base(p), faults' = 0 => faults = 0,
         HandleBinding(p) \/ HandleDisable(p) \/ HandleReleasing(p)
  PROVE  Lawful(p)
<1>1. /\ Placed(pa[p], worker[p], lifeCache[p], faults) /\ Keyed(p, pa[p], worker[p])
      /\ IsPA(pa[p])
  BY OnePA
<1>2. CacheReadable(p)
  BY DEF HandleBinding, HandleDisable, HandleReleasing, Reconcile
<1>3. paCache[p] = pa[p]
  BY <1>2, ReadsCurrent
<1>4. PICK r : r = [pa[p] EXCEPT !.since = TRUE]
  OBVIOUS
<1>5. IsPA(r) /\ r.pod = pa[p].pod /\ r.ip = pa[p].ip /\ r.phase = pa[p].phase
  BY <1>1, <1>4 DEF IsPA
<1>6. PICK label, copy, current :
        /\ StartLoop(p, label, copy, current)
        /\ copy.pod = pa[p].pod /\ copy.phase = pa[p].phase
        /\ \/ label = "bind" /\ pa[p].phase = "Binding"
           \/ label = "disable" /\ pa[p].phase = "Bound"
           \/ label = "release" /\ pa[p].phase = "Releasing"
  <2>1. CASE HandleBinding(p)
    BY <1>3, <2>1 DEF HandleBinding, Reconcile
  <2>2. CASE HandleDisable(p)
    BY <1>3, <2>2 DEF HandleDisable, Reconcile
  <2>3. CASE HandleReleasing(p)
    <3>1. /\ Decode(paCache[p], r).pod = pa[p].pod
          /\ Decode(paCache[p], r).phase = pa[p].phase
      BY <1>3, <1>5 DEF Decode
    <3> QED
      BY <1>3, <1>4, <2>3, <3>1 DEF HandleReleasing, Reconcile
  <2> QED
    BY <2>1, <2>2, <2>3
<1>7. PICK w : w = [Idle EXCEPT !.pc = label, !.mem = copy, !.memOK = current]
  OBVIOUS
<1>8. /\ worker'[p] = w /\ w.pc = label /\ w.mem = copy /\ w.podOK = FALSE /\ w.to = "none"
      /\ w = [x \in DOMAIN w |-> w[x]]
  BY <1>6, <1>7, IdleFresh, Written DEF StartLoop, IsWorker
<1>9. pa'[p] \in {pa[p], r}
  BY <1>4, Written DEF HandleBinding, HandleDisable, HandleReleasing
<1>10. Placed(pa[p], w, lifeCache[p], faults')
  BY <1>1, <1>6, <1>8 DEF Placed, ReleasePCs, Ends, OnlyParts, Loops
<1> QED
  BY <1>5, <1>6, <1>8, <1>9, <1>10, GoesOnLawful

\* A step inside a loop.
LEMMA LoopOnLawful ==
  ASSUME FieldsInv, ClaimInv, NEW p \in PAs, NEW w, worker'[p] = w, faults' = 0 => faults = 0,
         pa'[p].pod = pa[p].pod, pa'[p].ip = pa[p].ip, pa'[p].phase = pa[p].phase,
         worker[p].pc \in Loops, w.pc = worker[p].pc, w.podOK = worker[p].podOK,
         w = [x \in DOMAIN w |-> w[x]], w.mem.pod \in {worker[p].mem.pod, pa[p].pod},
         w.mem.phase \in {worker[p].mem.phase, pa[p].phase}
  PROVE  Lawful(p)
<1>1. /\ Placed(pa[p], worker[p], lifeCache[p], faults) /\ Keyed(p, pa[p], worker[p])
      /\ worker[p].pc # "claimPod" => worker[p].podOK = FALSE
  BY OnePA
<1>2. worker[p].pc \in {"bind", "disable", "release"} /\ w.podOK = FALSE
  BY <1>1 DEF Loops
<1>3. w.mem.pod = pa[p].pod /\ w.mem.phase # "Deleting"
      /\ (w.pc = "release" => pa[p].phase = "Releasing" /\ w.mem.phase = "Releasing")
  BY <1>1, <1>2 DEF Placed, ReleasePCs, Ends, OnlyParts
<1>4. Placed(pa[p], w, lifeCache[p], faults')
  BY <1>1, <1>2, <1>3 DEF Placed, ReleasePCs, Ends, OnlyParts, Loops
<1> QED
  BY <1>2, <1>4, GoesOnLawful

\* A step from a loop to the end of a release, and on to its end.
LEMMA ReleaseOnLawful ==
  ASSUME FieldsInv, ClaimInv, NEW p \in PAs, NEW w, worker'[p] = w, faults' = 0 => faults = 0,
         pa'[p].pod = pa[p].pod, pa'[p].ip = pa[p].ip, pa'[p].phase = pa[p].phase,
         \/ worker[p].pc = "release" /\ w.pc = "clearPodClaim"
         \/ /\ worker[p].pc \in {"clearPodClaim", "patchPodClaimAgain"} \cup Ends
            /\ w.pc \in Ends,
         w.to = "none", w.podOK = worker[p].podOK, w = [x \in DOMAIN w |-> w[x]],
         w.mem = worker[p].mem
  PROVE  Lawful(p)
<1>1. /\ Placed(pa[p], worker[p], lifeCache[p], faults) /\ Keyed(p, pa[p], worker[p])
      /\ worker[p].pc # "claimPod" => worker[p].podOK = FALSE
  BY OnePA
<1>2. /\ worker[p].pc \in {"release", "clearPodClaim", "patchPodClaimAgain", "removeServers",
                           "clearPodClaimAgain", "clearSpec"}
      /\ w.pc \in {"clearPodClaim", "removeServers", "clearPodClaimAgain", "clearSpec"}
      /\ w.pc = "clearPodClaim" => worker[p].pc = "release"
      /\ w.podOK = FALSE
  BY <1>1 DEF Ends
<1>3. /\ w.mem.pod = pa[p].pod
      /\ w.mem.phase = "Deleting" \/ (pa[p].phase = "Releasing" /\ w.mem.phase = "Releasing")
      /\ w.mem.phase = "Deleting" => /\ lifeCache[p] # "live" /\ w.pc # "clearPodClaim"
                                     /\ faults' = 0 => pa[p].phase = "Deleting"
  BY <1>1, <1>2 DEF Placed, ReleasePCs, Ends, OnlyParts
<1>4. Placed(pa[p], w, lifeCache[p], faults')
  BY <1>1, <1>2, <1>3 DEF Placed, ReleasePCs, Ends, OnlyParts, Loops
<1> QED
  BY <1>2, <1>4, GoesOnLawful

\* The loops of handleBinding, handleDisable and handleReleasing.
LEMMA LoopLawful ==
  ASSUME FieldsInv, ClaimInv, NEW p \in PAs, faults' = 0 => faults = 0,
         \/ SkipSG(p) \/ Throttled(p) \/ PollAdding(p) \/ AddServers(p) \/ PollRemoving(p)
         \/ RemoveServer(p) \/ ListAndRemove(p) \/ PatchServerStatus(p)
  PROVE  Lawful(p)
<1>1. /\ Placed(pa[p], worker[p], lifeCache[p], faults) /\ IsPA(pa[p]) /\ IsWorker(worker[p])
      /\ worker[p].pc # "claimPod" => worker[p].podOK = FALSE
  BY OnePA
<1>2. CASE PatchServerStatus(p)
  <2>1. PICK r : r = [pa[p] EXCEPT !.ss[worker[p].i] = worker[p].to]
    OBVIOUS
  <2>2. r.ip = pa[p].ip /\ r.pod = pa[p].pod /\ r.phase = pa[p].phase
    BY <1>1, <2>1 DEF IsPA
  <2>3. PICK m : m = [Decode(worker[p].mem, r) EXCEPT !.ss[worker[p].i] = worker[p].to]
    OBVIOUS
  <2>4. m.phase = pa[p].phase /\ m.pod \in {worker[p].mem.pod, pa[p].pod}
    BY <2>2, <2>3 DEF Decode
  <2>5. PICK w : w = [worker[p] EXCEPT !.mem = m, !.memOK = TRUE, !.to = "none", !.i = @ + 1,
                         !.clear = @ /\ worker[p].to = Goal(worker[p].pc)]
    OBVIOUS
  <2>6. /\ w.pc = worker[p].pc /\ w.mem = m /\ w.podOK = worker[p].podOK
        /\ w = [x \in DOMAIN w |-> w[x]]
    BY <1>1, <2>5 DEF IsWorker
  <2>7. pa'[p] = r /\ worker'[p] = w /\ worker[p].to # "none"
    BY <1>2, <2>1, <2>3, <2>5, Written DEF PatchServerStatus
  <2>8. worker[p].pc \in Loops
    BY <1>1, <2>7 DEF Placed
  <2> QED
    BY <2>2, <2>4, <2>6, <2>7, <2>8, LoopOnLawful
<1>3. CASE ~PatchServerStatus(p)
  <2>1. worker[p].pc \in Loops /\ UNCHANGED paVars
    BY <1>3 DEF SkipSG, Throttled, PollAdding, AddServers, PollRemoving, RemoveServer,
       ListAndRemove, AtSG, InLoop, At, Loops
  <2>2. \/ Goto(p, Idle) \/ \E clear : NextSG(p, clear) \/ \E status : PatchNext(p, status)
    BY <1>3 DEF SkipSG, Throttled, PollAdding, AddServers, PollRemoving, RemoveServer,
       ListAndRemove
  <2>3. PICK w : /\ worker'[p] = w
                 /\ \/ w = Idle
                    \/ \E clear : w = [worker[p] EXCEPT !.i = @ + 1, !.clear = @ /\ clear]
                    \/ \E status : w = [worker[p] EXCEPT !.to = status]
    BY <2>2, Written DEF NextSG, PatchNext
  <2>4. pa'[p] = pa[p]
    BY <2>1, Written
  <2>5. CASE w = Idle
    BY <2>3, <2>4, <2>5, GoesOnLawful
  <2>6. CASE w # Idle
    <3>1. /\ w.pc = worker[p].pc /\ w.mem = worker[p].mem /\ w.podOK = worker[p].podOK
          /\ w = [x \in DOMAIN w |-> w[x]]
      BY <1>1, <2>3, <2>6 DEF IsWorker
    <3> QED
      BY <2>1, <2>3, <2>4, <3>1, LoopOnLawful
  <2> QED
    BY <2>5, <2>6
<1> QED
  BY <1>2, <1>3

\* The end of a loop.
LEMMA EndLawful ==
  ASSUME FieldsInv, ClaimInv, NEW p \in PAs, faults' = 0 => faults = 0,
         FinishBinding(p) \/ FinishDisable(p) \/ FinishReleasing(p)
  PROVE  Lawful(p)
<1>1. /\ Placed(pa[p], worker[p], lifeCache[p], faults) /\ IsPA(pa[p]) /\ IsWorker(worker[p])
  BY OnePA
<1>2. ASSUME NEW label, NEW phase, EndLoop(p, label, phase),
             \/ label = "bind" /\ phase = "Bound"
             \/ label = "disable" /\ phase = "Disabled"
      PROVE  Lawful(p)
  <2>1. PICK r : r = [pa[p] EXCEPT !.phase = phase, !.ss = worker[p].mem.ss]
    OBVIOUS
  <2>2. r.phase = phase /\ r.pod = pa[p].pod /\ r.ip = pa[p].ip
    BY <1>1, <2>1 DEF IsPA
  <2>3. pa'[p] \in {r, pa[p]} /\ worker'[p] = Idle /\ worker[p].pc = label
    BY <1>2, <2>1, Written DEF EndLoop, LoopDone, At
  <2>4. Keeps(p) /\ (faults = 0 => pa[p].pod # Null)
    BY <1>1, <1>2, <2>3 DEF Placed, Keeps, Holding
  <2>5. CASE pa'[p] = r
    BY <1>2, <2>2, <2>3, <2>4, <2>5, TurnsLawful, IdleFresh
  <2>6. CASE pa'[p] = pa[p]
    BY <2>3, <2>6, GoesOnLawful
  <2> QED
    BY <2>3, <2>5, <2>6
<1>3. CASE FinishReleasing(p)
  <2>1. PICK w : w = [worker[p] EXCEPT !.pc = "clearPodClaim"]
    OBVIOUS
  <2>2. /\ w.pc = "clearPodClaim" /\ w.mem = worker[p].mem /\ w.to = worker[p].to
        /\ w.podOK = worker[p].podOK /\ w = [x \in DOMAIN w |-> w[x]]
    BY <1>1, <2>1 DEF IsWorker
  <2>3. /\ worker[p].pc = "release" /\ worker[p].to = "none" /\ pa'[p] = pa[p]
        /\ worker'[p] \in {w, Idle}
    BY <1>3, <2>1, Written DEF FinishReleasing, LoopDone, At
  <2>4. CASE worker'[p] = w
    BY <2>2, <2>3, <2>4, ReleaseOnLawful
  <2>5. CASE worker'[p] = Idle
    BY <2>3, <2>5, GoesOnLawful
  <2> QED
    BY <2>3, <2>4, <2>5
<1> QED
  BY <1>2, <1>3 DEF FinishBinding, FinishDisable

\* The rest of a release, which a deletion shares.
LEMMA ReleaseLawful ==
  ASSUME CurrentCaches, FieldsInv, ClaimInv, NEW p \in PAs, Base(p), faults' = 0 => faults = 0,
         \/ ReadPodClaim(p, "clearPodClaim", "patchPodClaim", "removeServers")
         \/ ReadPodClaim(p, "clearPodClaimAgain", "patchPodClaimAgain", "clearSpec")
         \/ PatchPodClaimFails(p) \/ RemoveServers(p)
         \/ ClearSpec(p) \/ SetAvailable(p) \/ Abort(p)
  PROVE  Lawful(p)
<1>1. /\ Placed(pa[p], worker[p], lifeCache[p], faults) /\ Keyed(p, pa[p], worker[p])
      /\ IsPA(pa[p]) /\ IsWorker(worker[p]) /\ pa[p].pod \in Pods \cup {Null}
  BY OnePA
<1>2. ASSUME worker[p].pc \in {"clearPodClaim", "removeServers", "clearPodClaimAgain",
                                "patchPodClaimAgain", "clearSpec"}
      PROVE  /\ worker[p].to = "none" /\ worker[p].podOK = FALSE
             /\ worker[p].mem.pod = pa[p].pod
  BY <1>1, <1>2, OnePA DEF Placed, Loops
<1>3. ASSUME SeesOwnClaim(p), CacheReadable(p), worker[p].mem.pod = pa[p].pod
      PROVE  worker[p].mem.pod # Null /\ HasClaim(pod, worker[p].mem.pod, p) /\ ~Unclaimed(p)
  BY <1>1, <1>3, ReadsCurrent DEF SeesOwnClaim, HasClaim, Unclaimed
<1>4. CASE ReadPodClaim(p, "clearPodClaim", "patchPodClaim", "removeServers")
  <2>1. PICK w : w = [worker[p] EXCEPT !.pc = "removeServers"]
    OBVIOUS
  <2>2. worker[p].pc = "clearPodClaim" /\ CacheReadable(p) /\ pa'[p] = pa[p]
    BY <1>4, Written DEF ReadPodClaim, At
  <2>3. pa[p].phase = "Releasing" /\ worker[p].mem.pod = pa[p].pod
    BY <1>1, <2>2 DEF Placed, ReleasePCs, Ends, OnlyParts
  <2>4. ~SeesOwnClaim(p)
    BY <1>1, <1>3, <2>2, <2>3 DEF Keyed
  <2>5. worker'[p] = w
    BY <1>4, <2>1, <2>4, Written DEF ReadPodClaim
  <2>6. /\ w.pc = "removeServers" /\ w.mem = worker[p].mem /\ w.to = "none"
        /\ w.podOK = worker[p].podOK /\ w = [x \in DOMAIN w |-> w[x]]
    BY <1>1, <1>2, <2>1, <2>2 DEF IsWorker
  <2> QED
    BY <2>2, <2>5, <2>6, ReleaseOnLawful DEF Ends
<1>5. CASE ReadPodClaim(p, "clearPodClaimAgain", "patchPodClaimAgain", "clearSpec")
  <2>1. PICK label : /\ label = IF SeesOwnClaim(p) THEN "patchPodClaimAgain" ELSE "clearSpec"
    OBVIOUS
  <2>2. PICK w : w = [worker[p] EXCEPT !.pc = label]
    OBVIOUS
  <2>3. /\ worker[p].pc = "clearPodClaimAgain" /\ CacheReadable(p) /\ pa'[p] = pa[p]
        /\ worker'[p] = w
    BY <1>5, <2>1, <2>2, Written DEF ReadPodClaim, At
  <2>4. /\ w.pc = label /\ w.mem = worker[p].mem /\ w.to = "none" /\ w.podOK = worker[p].podOK
        /\ w.podOK = FALSE /\ w = [x \in DOMAIN w |-> w[x]] /\ w.mem.pod = pa[p].pod
    BY <1>1, <1>2, <2>2, <2>3 DEF IsWorker
  <2>5. CASE ~SeesOwnClaim(p)
    BY <2>1, <2>3, <2>4, <2>5, ReleaseOnLawful DEF Ends
  <2>6. CASE SeesOwnClaim(p)
    <3>1. w.mem.pod # Null /\ HasClaim(pod, w.mem.pod, p) /\ ~Unclaimed(p) /\ Clearing(p, w)
      BY <1>3, <2>3, <2>4, <2>6 DEF Clearing
    <3>2. w.mem.phase = "Deleting"
      BY <1>1, <2>3, <2>4, <3>1 DEF Placed, Keyed, ReleasePCs, Ends
    <3>3. lifeCache[p] # "live" /\ (faults' = 0 => pa[p].phase = "Deleting")
      BY <1>1, <2>4, <3>2 DEF Placed
    <3>4. w.pc = "patchPodClaimAgain"
      BY <2>1, <2>4, <2>6
    <3>5. Placed(pa[p], w, lifeCache[p], faults')
      BY <1>1, <2>4, <3>2, <3>3, <3>4 DEF Placed, ReleasePCs, Ends, OnlyParts, Loops
    <3>6. pa[p].phase # "Releasing"
      BY <1>1, <3>1 DEF Keyed
    <3>7. Counted(pa[p], w) /\ (faults' = 0 => \A ip : ~Holds(pa[p], w, ip))
      BY <1>1, <3>3, <3>4 DEF Keyed, Counted, Holds, Holding
    <3> QED
      BY <2>3, <2>4, <3>1, <3>4, <3>5, <3>6, <3>7 DEF Lawful
  <2> QED
    BY <2>5, <2>6
<1>6. CASE PatchPodClaimFails(p) \/ RemoveServers(p)
  <2>1. PICK label : /\ label = IF RemoveServers(p) THEN "clearPodClaimAgain" ELSE "clearSpec"
    OBVIOUS
  <2>2. PICK w : w = [worker[p] EXCEPT !.pc = label]
    OBVIOUS
  <2>3. worker[p].pc # "patchPodClaim"
    BY <1>1 DEF Placed
  <2>4. /\ worker[p].pc \in {"removeServers", "patchPodClaimAgain"} /\ pa'[p] = pa[p]
        /\ worker'[p] = w
    BY <1>6, <2>1, <2>2, <2>3, Written DEF PatchPodClaimFails, RemoveServers, At
  <2>5. /\ w.pc = label /\ w.mem = worker[p].mem /\ w.to = "none" /\ w.podOK = worker[p].podOK
        /\ w = [x \in DOMAIN w |-> w[x]]
    BY <1>1, <1>2, <2>2, <2>4 DEF IsWorker
  <2> QED
    BY <2>1, <2>4, <2>5, ReleaseOnLawful DEF Ends
<1>7. CASE ClearSpec(p)
  <2>1. PICK r : r = [pa[p] EXCEPT !.pod = Null, !.ip = Null, !.since = FALSE]
    OBVIOUS
  <2>2. PICK w : w = [worker[p] EXCEPT !.pc = "setAvailable"]
    OBVIOUS
  <2>3. worker[p].pc = "clearSpec" /\ worker[p].mem.phase # "Deleting"
    BY <1>7 DEF ClearSpec, Base, At, InDeletion
  <2>4. /\ pa[p].phase = "Releasing" /\ worker[p].mem.phase = "Releasing"
    BY <1>1, <2>3 DEF Placed, ReleasePCs, Ends
  <2>5. Unclaimed(p)
    BY <1>1, <2>4 DEF Keyed
  <2>6. r.pod = Null /\ r.ip = Null /\ r.phase = "Releasing"
    BY <1>1, <2>1, <2>4 DEF IsPA
  <2>7. /\ w.pc = "setAvailable" /\ w.mem = worker[p].mem /\ w.to = "none" /\ w.podOK = FALSE
        /\ w = [x \in DOMAIN w |-> w[x]]
    BY <1>1, <1>2, <2>2, <2>3 DEF IsWorker
  <2>8. \/ pa'[p] = r /\ worker'[p] = w
        \/ pa'[p] = pa[p] /\ worker'[p] = Idle
    BY <1>7, <2>1, <2>2, Written DEF ClearSpec
  <2>9. CASE pa'[p] = r /\ worker'[p] = w
    BY <2>4, <2>5, <2>6, <2>7, <2>9, LetsGoLawful DEF Holding
  <2>10. CASE pa'[p] = pa[p] /\ worker'[p] = Idle
    BY <2>10, GoesOnLawful
  <2> QED
    BY <2>8, <2>9, <2>10
<1>8. CASE SetAvailable(p)
  <2>1. PICK r : r = [pa[p] EXCEPT !.phase = "Available", !.ss = [i \in SGs |-> ""]]
    OBVIOUS
  <2>2. r.pod = pa[p].pod /\ r.ip = pa[p].ip /\ r.phase = "Available"
    BY <1>1, <2>1 DEF IsPA
  <2>3. pa'[p] = r /\ worker'[p] = Idle
    BY <1>8, <2>1, Written DEF SetAvailable
  <2> QED
    BY <2>2, <2>3, IdleFresh, TurnsLawful DEF Holding
<1>9. CASE Abort(p)
  <2>1. worker'[p] = Idle /\ pa'[p] = pa[p]
    BY <1>9, Written DEF Abort
  <2> QED
    BY <2>1, GoesOnLawful
<1> QED
  BY <1>4, <1>5, <1>6, <1>7, <1>8, <1>9

\* What only a deletion does.
LEMMA DeletionLawful ==
  ASSUME CurrentCaches, FieldsInv, ClaimInv, NEW p \in PAs, faults' = 0 => faults = 0,
         Deletion(p) \/ WaitForCloud(p) \/ GiveUp(p)
  PROVE  Lawful(p)
<1>1. /\ Placed(pa[p], worker[p], lifeCache[p], faults) /\ Keyed(p, pa[p], worker[p])
      /\ IsPA(pa[p]) /\ IsWorker(worker[p])
  BY OnePA
<1>2. ASSUME worker[p].pc \in {"clearSpec", "deleteSGs", "removeFinalizer"},
             worker[p].pc = "clearSpec" => InDeletion(p)
      PROVE  /\ worker[p].to = "none" /\ worker[p].podOK = FALSE
             /\ worker[p].mem.phase = "Deleting" /\ lifeCache[p] # "live"
             /\ faults' = 0 => pa[p].phase = "Deleting"
  BY <1>1, <1>2, OnePA DEF Placed, Loops, OnlyParts, InDeletion
<1>3. CASE StartDeletion(p)
  <2>1. PICK r : r = [pa[p] EXCEPT !.phase = "Deleting"]
    OBVIOUS
  <2>2. PICK m : m = [paCache[p] EXCEPT !.phase = "Deleting"]
    OBVIOUS
  <2>3. PICK w : w = [Idle EXCEPT !.pc = First(p), !.mem = m, !.memOK = paSynced[p]]
    OBVIOUS
  <2>4. /\ CacheReadable(p) /\ lifeCache[p] = "deleting" /\ worker'[p] = w
        /\ pa'[p] = r \/ (Fault /\ pa'[p] = pa[p])
    BY <1>3, <2>1, <2>2, <2>3, ReadsCurrent, Written DEF StartDeletion
  <2>5. paCache[p] = pa[p]
    BY <2>4, ReadsCurrent
  <2>6. r.pod = pa[p].pod /\ r.ip = pa[p].ip /\ r.phase = "Deleting"
    BY <1>1, <2>1 DEF IsPA
  <2>7. m.pod = pa[p].pod /\ m.phase = "Deleting"
    BY <1>1, <2>2, <2>5 DEF IsPA
  <2>8. /\ w.pc \in {"removeServers", "deleteSGs"} /\ w.mem = m /\ w.to = "none"
        /\ w.podOK = FALSE /\ w = [x \in DOMAIN w |-> w[x]]
    BY <2>3, IdleFresh DEF First, IsWorker
  <2>9. /\ pa'[p].pod = pa[p].pod /\ pa'[p].ip = pa[p].ip
        /\ pa'[p].phase \in {"Deleting", pa[p].phase}
        /\ faults' = 0 => pa'[p].phase = "Deleting"
    BY <2>4, <2>6, FaultCounts
  <2>10. Placed(pa'[p], w, lifeCache[p], faults')
    BY <1>1, <2>4, <2>7, <2>8, <2>9 DEF Placed, ReleasePCs, Ends, OnlyParts, Loops, Holding
  <2>11. Counted(pa'[p], w)
    BY <1>1, <2>8, <2>9 DEF Keyed, Counted
  <2>12. faults' = 0 => \A ip : ~Holds(pa'[p], w, ip)
    BY <2>8, <2>9 DEF Holds, Holding
  <2>13. pa'[p].phase = "Releasing" => Unclaimed(p)
    BY <1>1, <2>9 DEF Keyed
  <2> QED
    BY <2>4, <2>8, <2>9, <2>10, <2>11, <2>12, <2>13 DEF Lawful
<1>4. CASE Forget(p)
  <2>1. PICK r : r = Unreserved(p)
    OBVIOUS
  <2>2. PICK w : w = [worker[p] EXCEPT !.pc = "deleteSGs"]
    OBVIOUS
  <2>3. worker[p].pc = "clearSpec" /\ InDeletion(p) /\ worker'[p] = w /\ pa'[p] \in {r, pa[p]}
    BY <1>4, <2>1, <2>2, Written DEF Forget, At
  <2>4. r.pod = Null /\ r.ip = Null /\ r.phase = pa[p].phase
    BY <1>1, <2>1 DEF Unreserved, IsPA
  <2>5. /\ w.pc = "deleteSGs" /\ w.mem.phase = "Deleting" /\ w.to = "none" /\ w.podOK = FALSE
        /\ w = [x \in DOMAIN w |-> w[x]] /\ lifeCache[p] # "live"
        /\ faults' = 0 => pa[p].phase = "Deleting"
    BY <1>1, <1>2, <2>2, <2>3 DEF IsWorker
  <2>6. CASE pa'[p] = r
    BY <1>1, <2>3, <2>4, <2>5, <2>6, LetsGoLawful DEF Holding, Keyed
  <2>7. CASE pa'[p] = pa[p]
    <3>1. Placed(pa[p], w, lifeCache[p], faults')
      BY <1>1, <2>5 DEF Placed, ReleasePCs, Ends, OnlyParts
    <3> QED
      BY <2>3, <2>5, <2>7, <3>1, GoesOnLawful
  <2> QED
    BY <2>3, <2>6, <2>7
<1>5. CASE DeleteSGs(p)
  <2>1. PICK w : w = [worker[p] EXCEPT !.pc = "removeFinalizer"]
    OBVIOUS
  <2>2. worker[p].pc = "deleteSGs" /\ worker'[p] = w /\ pa'[p] = pa[p]
    BY <1>5, <2>1, Written DEF DeleteSGs, At
  <2>3. /\ w.pc = "removeFinalizer" /\ w.mem.phase = "Deleting" /\ w.to = "none"
        /\ w.podOK = FALSE /\ w = [x \in DOMAIN w |-> w[x]] /\ lifeCache[p] # "live"
        /\ faults' = 0 => pa[p].phase = "Deleting"
    BY <1>1, <1>2, <2>1, <2>2 DEF IsWorker
  <2>4. Placed(pa[p], w, lifeCache[p], faults')
    BY <1>1, <2>3 DEF Placed, ReleasePCs, Ends, OnlyParts
  <2> QED
    BY <2>2, <2>3, <2>4, GoesOnLawful
<1>6. CASE RemoveFinalizer(p)
  <2>1. PICK r : r = [EmptyPA EXCEPT !.phase = "Deleting"]
    OBVIOUS
  <2>2. r.pod = Null /\ r.ip = Null /\ r.phase = "Deleting"
    BY <2>1 DEF EmptyPA
  <2>3. /\ worker[p].pc = "removeFinalizer" /\ worker'[p] = Idle /\ pa'[p] \in {r, pa[p]}
    BY <1>6, <2>1, Written DEF RemoveFinalizer, At, FieldsInv
  <2>4. CASE pa'[p] = r
    BY <1>2, <2>2, <2>3, <2>4, LetsGoLawful, IdleFresh DEF Holding
  <2>5. CASE pa'[p] = pa[p]
    BY <2>3, <2>5, GoesOnLawful
  <2> QED
    BY <2>3, <2>4, <2>5
<1>7. CASE WaitForCloud(p) \/ GiveUp(p)
  <2>1. worker'[p] = Idle /\ pa'[p] = pa[p]
    BY <1>7, Written DEF WaitForCloud, GiveUp
  <2> QED
    BY <2>1, GoesOnLawful
<1> QED
  BY <1>3, <1>4, <1>5, <1>6, <1>7 DEF Deletion

\* A step that writes no Pod writes its own PA and moves its own worker.
OwnStep(p) ==
    /\ UNCHANGED <<podVars, podCache>>
    /\ UNCHANGED pa \/ \E r : pa' = [pa EXCEPT ![p] = r]
    /\ UNCHANGED worker \/ \E w : worker' = [worker EXCEPT ![p] = w]

LEMMA OwnStepAlone ==
  ASSUME FieldsInv, NEW p \in PAs, OwnStep(p), faults' = faults \/ Fault, UNCHANGED lifeCache
  PROVE  Alone(p)
BY FaultCounts DEF Alone, OwnStep, FieldsInv

\* The steps of a worker of PortAllocation that write no Pod are lawful.
LEMMA WorkerAlone ==
  ASSUME CurrentCaches, FieldsInv, ClaimInv, NEW p \in PAs, Base(p),
         WorkerStep(p) \/ WorkerFails(p), UNCHANGED lifeVars,
         ~ClaimPod(p), ~ResumeClaim(p), ~PatchPodClaim(p, "patchPodClaim", "removeServers"),
         ~PatchPodClaim(p, "patchPodClaimAgain", "clearSpec")
  PROVE  Alone(p) /\ Lawful(p)
<1>1. faults' = faults \/ Fault
  BY WorkerFaults
<1>2. faults' = 0 => faults = 0
  BY <1>1, FaultCounts
<1>3. UNCHANGED lifeCache
  BY DEF lifeVars
<1>4. CASE \/ \E d \in Pods : HandleAvailable(p, d)
           \/ ClaimPodFails(p) \/ RollBack(p) \/ SetBinding(p)
  <2>1. OwnStep(p)
    BY <1>4 DEF HandleAvailable, ClaimPodFails, RollBack, SetBinding, OwnStep, WritePA, Goto,
       cacheVars, paVars
  <2> QED
    BY <1>1, <1>2, <1>3, <1>4, <2>1, ClaimLawful, OwnStepAlone
<1>5. CASE ResumeConfirmed(p) \/ ResumeClear(p) \/ ResumeClaimFails(p) \/ SetPodIP(p)
  <2>1. OwnStep(p)
    BY <1>5 DEF ResumeConfirmed, ResumeClear, ResumeClaimFails, SetPodIP, OwnStep, WritePA,
       Goto, cacheVars, paVars
  <2> QED
    BY <1>1, <1>2, <1>3, <1>5, <2>1, ResumeLawful, OwnStepAlone
<1>6. CASE AbortBinding(p) \/ HandleBound(p) \/ DisabledPodGone(p) \/ ReEnable(p)
  <2>1. OwnStep(p)
    BY <1>6 DEF AbortBinding, HandleBound, DisabledPodGone, ReEnable, MovePhase, OwnStep,
       WritePA, cacheVars
  <2> QED
    BY <1>1, <1>2, <1>3, <1>6, <2>1, MoveLawful, OwnStepAlone
<1>7. CASE HandleBinding(p) \/ HandleDisable(p) \/ HandleReleasing(p)
  <2>1. OwnStep(p)
    BY <1>7 DEF HandleBinding, HandleDisable, HandleReleasing, StartLoop, OwnStep,
       WritePA, Goto, cacheVars, paVars
  <2> QED
    BY <1>1, <1>2, <1>3, <1>7, <2>1, StartLawful, OwnStepAlone
<1>8. CASE \/ SkipSG(p) \/ Throttled(p) \/ PollAdding(p) \/ AddServers(p) \/ PollRemoving(p)
           \/ RemoveServer(p) \/ ListAndRemove(p) \/ PatchServerStatus(p)
  <2>1. OwnStep(p)
    BY <1>8 DEF SkipSG, Throttled, PollAdding, AddServers, PollRemoving, RemoveServer,
       ListAndRemove, PatchServerStatus, NextSG, PatchNext, OwnStep, WritePA, Goto, cacheVars,
       paVars
  <2> QED
    BY <1>1, <1>2, <1>3, <1>8, <2>1, LoopLawful, OwnStepAlone
<1>9. CASE FinishBinding(p) \/ FinishDisable(p) \/ FinishReleasing(p)
  <2>1. OwnStep(p)
    BY <1>9 DEF FinishBinding, FinishDisable, FinishReleasing, EndLoop, OwnStep, WritePA, Goto,
       cacheVars, paVars
  <2> QED
    BY <1>1, <1>2, <1>3, <1>9, <2>1, EndLawful, OwnStepAlone
<1>10. CASE \/ ReadPodClaim(p, "clearPodClaim", "patchPodClaim", "removeServers")
            \/ ReadPodClaim(p, "clearPodClaimAgain", "patchPodClaimAgain", "clearSpec")
            \/ PatchPodClaimFails(p) \/ RemoveServers(p)
            \/ ClearSpec(p) \/ SetAvailable(p) \/ Abort(p)
  <2>1. OwnStep(p)
    BY <1>10 DEF ReadPodClaim, PatchPodClaimFails, RemoveServers, ClearSpec, SetAvailable,
       Abort, OwnStep, WritePA, Goto, cacheVars, paVars
  <2> QED
    BY <1>1, <1>2, <1>3, <1>10, <2>1, ReleaseLawful, OwnStepAlone
<1> QED
  BY <1>4, <1>5, <1>6, <1>7, <1>8, <1>9, <1>10 DEF WorkerStep, WorkerFails, ClearPodClaim,
     ClearPodClaimAgain

\* So are those of a deletion.
LEMMA DeletionAlone ==
  ASSUME CurrentCaches, FieldsInv, ClaimInv, NEW p \in PAs,
         Deletion(p) \/ WaitForCloud(p) \/ GiveUp(p)
  PROVE  Alone(p) /\ Lawful(p)
<1>1. faults' = faults \/ Fault
  BY DEF Deletion, StartDeletion, Forget, DeleteSGs, RemoveFinalizer, WaitForCloud, GiveUp
<1>2. faults' = 0 => faults = 0
  BY <1>1, FaultCounts
<1>3. OwnStep(p) /\ UNCHANGED lifeCache
  BY DEF Deletion, StartDeletion, Forget, DeleteSGs, RemoveFinalizer, WaitForCloud, GiveUp,
     OwnStep, WritePA, Goto, cacheVars, paVars, lifeVars
<1> QED
  BY <1>1, <1>2, <1>3, DeletionLawful, OwnStepAlone

\* The steps that set a claim.
LEMMA SettersClaim ==
  ASSUME CurrentCaches, FieldsInv, ClaimInv, NEW p \in PAs, Base(p),
         ClaimPod(p) \/ ResumeClaim(p), UNCHANGED lifeVars
  PROVE  \E d, w : ClaimsPod(p, d, w)
<1>1. /\ Placed(pa[p], worker[p], lifeCache[p], faults) /\ Keyed(p, pa[p], worker[p])
      /\ IsPA(pa[p]) /\ IsWorker(worker[p]) /\ pa[p].pod \in Pods \cup {Null}
  BY OnePA
<1>2. UNCHANGED lifeCache
  BY DEF lifeVars
<1>3. CASE ClaimPod(p)
  <2>1. PICK w : w = [worker[p] EXCEPT !.pc = "setBinding", !.podOK = FALSE]
    OBVIOUS
  <2>2. PICK d : d = worker[p].mem.pod
    OBVIOUS
  <2>3. /\ worker[p].pc = "claimPod" /\ worker[p].podOK = TRUE /\ SetClaim(p, d, w)
        /\ UNCHANGED <<pa, podCache, incarnation, lifeCache, faults>>
    BY <1>1, <1>2, <1>3, <2>1, <2>2 DEF ClaimPod, At, CurrentPod, paVars, cacheVars, Placed
  <2>4. /\ d = pa[p].pod /\ d \in Pods /\ pa[p].phase = "Available" /\ pod[d] # Null /\ Free(d)
        /\ worker[p].to = "none" /\ worker[p].mem.phase # "Deleting"
        /\ worker[p].mem.ip = <<d, pod[d].uid>> /\ worker[p].mem.ip = pa[p].ip
    BY <1>1, <2>2, <2>3 DEF Placed, Keyed, Setting, Ends, OnlyParts, Loops
  <2>5. /\ w.pc = "setBinding" /\ w.podOK = FALSE /\ w.mem = worker[p].mem
        /\ w.to = worker[p].to /\ w = [x \in DOMAIN w |-> w[x]]
    BY <1>1, <2>1 DEF IsWorker
  <2>6. Placed(pa[p], w, lifeCache[p], faults)
    BY <1>1, <2>2, <2>4, <2>5, ConstantsAssumption DEF Placed, ReleasePCs, Ends, OnlyParts
  <2> QED
    BY <2>3, <2>4, <2>5, <2>6 DEF ClaimsPod
<1>4. CASE ResumeClaim(p)
  <2>1. PICK d : d = pa[p].pod
    OBVIOUS
  <2>2. /\ Reconcile(p, "Available") /\ paCache[p].pod # Null /\ paCache[p] = pa[p]
        /\ CachedPod(p) # Null /\ CachedPod(p).claim = Null /\ podCache[d] = pod[d]
    BY <1>1, <1>4, <2>1, ReadsCurrent DEF ResumeClaim, Resume, Reconcile
  <2>3. /\ d \in Pods /\ d # Null /\ pod[d] # Null /\ pod[d].claim = Null
        /\ pa[p].phase = "Available" /\ Free(d)
    BY <1>1, <2>1, <2>2 DEF CachedPod, Reconcile, Free, ClaimInv, PodsCounted
  <2>4. PICK v : v = ResumeWith(p, <<d, pod[d].uid>>)
    OBVIOUS
  <2>5. PICK w : SetClaim(p, d, w) /\ w \in {v, Idle}
    BY <1>4, <2>1, <2>2, <2>3, <2>4 DEF ResumeClaim
  <2>6. UNCHANGED <<pa, podCache, incarnation, lifeCache, faults>>
    BY <1>2, <1>4 DEF ResumeClaim, paVars, cacheVars
  <2>7. Resumed(p, <<d, pod[d].uid>>, v)
    BY <1>1, <2>2, <2>3, <2>4, ResumeWorker
  <2>8. PICK ip : ip = <<d, pod[d].uid>> /\ ip \in Addresses(d)
    BY <2>3, AddressOf
  <2>9. /\ v.pc = "setPodIP" \/ (v.pc = "setBinding" /\ ip = pa[p].ip)
        /\ v.mem.ip = ip /\ v.mem.pod = d /\ v.mem.phase = "Available"
        /\ v.podOK = FALSE /\ v.to = "none" /\ v = [x \in DOMAIN v |-> v[x]]
    BY <2>1, <2>7, <2>8 DEF Resumed
  <2>10. Placed(pa[p], v, lifeCache[p], faults)
    BY <1>1, <2>1, <2>3, <2>8, <2>9 DEF Placed, ReleasePCs, Ends, OnlyParts
  <2>11. Placed(pa[p], Idle, lifeCache[p], faults)
    <3>1. Named(pa[p], faults)
      BY <1>1 DEF Placed, Named
    <3> QED
      BY <3>1, IdlePlaced, IdleFresh
  <2> QED
    BY <2>1, <2>3, <2>5, <2>6, <2>8, <2>9, <2>10, <2>11, IdleFresh DEF ClaimsPod
<1> QED
  BY <1>3, <1>4

-----------------------------------------------------------------------------
(* The theorems on claims.                                                  *)

\* How a step may write a Pod: only workloads, users, a worker that sets the claim of
\* its PA and a worker of a deletion that drops it do.
PodWriters ==
    \/ \E p \in PAs : Alone(p) /\ Lawful(p)
    \/ \E p \in PAs : \E d, w : ClaimsPod(p, d, w)
    \/ \E p \in PAs : PatchPodClaim(p, "patchPodClaimAgain", "clearSpec") /\ UNCHANGED lifeCache
    \/ \E d \in Pods : PodStep(d) /\ UNCHANGED lifeVars
    \/ \E p \in PAs : DeletePA(p) \/ SyncLife(p)
    \/ \E d \in Pods : SyncPod(d) /\ UNCHANGED lifeVars
    \/ UNCHANGED deletionVars

LEMMA OnlyWriters ==
  ASSUME CurrentCaches, FieldsInv, ClaimInv, [DeletionNext]_deletionVars
  PROVE  PodWriters
<1>1. ASSUME NEW p \in PAs, BaseStep(p) \/ BaseFault(p) PROVE PodWriters
  <2>1. Base(p) /\ (WorkerStep(p) \/ WorkerFails(p)) /\ UNCHANGED lifeVars
    BY <1>1 DEF BaseStep, BaseFault, WorkerFails
  <2>2. ~PatchPodClaim(p, "patchPodClaim", "removeServers")
    BY OnePA DEF PatchPodClaim, At, Placed
  <2>3. CASE ClaimPod(p) \/ ResumeClaim(p)
    BY <2>1, <2>3, SettersClaim DEF PodWriters
  <2>4. CASE PatchPodClaim(p, "patchPodClaimAgain", "clearSpec")
    BY <2>1, <2>4 DEF PodWriters, lifeVars
  <2> QED
    BY <2>1, <2>2, <2>3, <2>4, WorkerAlone DEF PodWriters
<1>2. ASSUME NEW p \in PAs, Deletion(p) \/ WaitForCloud(p) \/ GiveUp(p) PROVE PodWriters
  BY <1>2, DeletionAlone DEF PodWriters
<1> QED
  BY <1>1, <1>2 DEF DeletionNext, PodWriters

\* The invariant is inductive, given the one of LetGoLeavesNothing.
LEMMA ClaimStep ==
  ASSUME CurrentCaches, PoolKept, FieldsInv, ClaimInv, [DeletionNext]_deletionVars
  PROVE  ClaimInv'
<1>1. PodWriters
  BY OnlyWriters
<1> QED
  BY <1>1, LawfulKeeps, ClaimSetKeeps, ClaimClearedKeeps, PodKeeps, InformersKeep DEF PodWriters

\* No worker clears the claim of another PA in this step.  (OwnClaimCleared says that of
\* every step.)
ClearsOwn ==
    \A d \in Pods : \A p, q \in PAs :
        /\ pod[d] # Null /\ pod[d].claim = q
        /\ pod'[d] # Null /\ pod'[d].claim = Null
        /\ worker'[p] # worker[p]
        => p = q

LEMMA HolderStep ==
  ASSUME CurrentCaches, PoolKept, FieldsInv, ClaimInv, HolderInv, [DeletionNext]_deletionVars,
         [ClearsOwn]_vars
  PROVE  HolderInv'
<1>1. ASSUME NEW p \in PAs, PatchPodClaim(p, "patchPodClaimAgain", "clearSpec"),
             UNCHANGED lifeCache
      PROVE  HolderInv'
  <2>1. PICK d : d = worker[p].mem.pod
    OBVIOUS
  <2>2. d \in Pods
    BY <1>1, <2>1, ClaimClearedKeeps
  <2>3. ASSUME pod'[d] # Null, NEW q \in PAs, HasClaim(pod, d, q)
        PROVE  q = p
    <3>1. PICK r : r = [pod[d] EXCEPT !.claim = Null]
      OBVIOUS
    <3>2. PICK w : w = [worker[p] EXCEPT !.pc = "clearSpec"]
      OBVIOUS
    <3>3. /\ pod[d] # Null /\ IsPod(pod[d]) /\ IsWorker(worker[p]) /\ pod[d].claim = q
          /\ q # Null
      BY <2>2, <2>3, ConstantsAssumption DEF HasClaim, ClaimInv, PodsCounted, FieldsInv
    <3>4. /\ pod' = [pod EXCEPT ![d] = r] /\ worker[p].pc = "patchPodClaimAgain"
          /\ worker' = [Overtaken(d, r) EXCEPT ![p] = w]
      BY <1>1, <2>1, <3>1, <3>2, <3>3 DEF PatchPodClaim, WritePod, At
    <3>5. r.claim = Null /\ DOMAIN r = DOMAIN pod[d] /\ w.pc = "clearSpec"
      BY <3>1, <3>2, <3>3 DEF IsPod, IsWorker
    <3>6. pod'[d] = r /\ worker'[p] = w
      BY <2>2, <3>4, Written DEF ClaimInv, PodsCounted
    <3>7. worker'[p] # worker[p] /\ ClearsOwn
      BY <3>4, <3>5, <3>6 DEF vars
    <3> QED
      BY <2>2, <2>3, <3>3, <3>5, <3>6, <3>7 DEF ClearsOwn
  <2> QED
    BY <1>1, <2>1, <2>3, ClaimClearedKeeps
<1> QED
  BY <1>1, OnlyWriters, LawfulKeeps, ClaimSetKeeps, PodKeeps, InformersKeep DEF PodWriters

LEMMA InitClaims == DeletionInit => ClaimInv /\ HolderInv
<1> SUFFICES ASSUME DeletionInit PROVE ClaimInv /\ HolderInv
  OBVIOUS
<1>1. ASSUME NEW p \in PAs
      PROVE  /\ pa[p] = EmptyPA /\ worker[p] = Idle /\ \A d \in Pods : ~HasClaim(pod, d, p)
             /\ \A ip : ~Holds(pa[p], worker[p], ip)
  BY IdleFresh DEF DeletionInit, Init, HasClaim, Holds, Holding, EmptyPA
<1>2. EmptyPA.phase = "Available" /\ EmptyPA.pod = Null /\ EmptyPA.ip = Null
  BY DEF EmptyPA
<1>3. PodsCounted
  BY ConstantsAssumption DEF DeletionInit, Init, PodsCounted
<1>4. ASSUME NEW p \in PAs
      PROVE  Placed(pa[p], worker[p], lifeCache[p], faults) /\ Keyed(p, pa[p], worker[p])
  <2>1. Placed(EmptyPA, Idle, lifeCache[p], faults)
    BY <1>2, IdleFresh, IdlePlaced DEF Named, Holding
  <2>2. Keyed(p, EmptyPA, Idle)
    BY <1>1, <1>2, IdleFresh DEF Keyed, Counted, Unclaimed
  <2> QED
    BY <1>1, <2>1, <2>2
<1>5. HoldersClaim /\ OneHolder
  BY <1>1 DEF HoldersClaim, OneHolder
<1> QED
  BY <1>3, <1>4, <1>5 DEF ClaimInv, AllPlaced, AllKeyed, HolderInv

\* Until a write is lost, two PAs are never Bound to one Pod, whichever PAs users delete
\* and whenever, and however often Pods are followed by others of their name, if reads do
\* not lag and no worker clears the claim of another PA: the window of clearPodClaim,
\* between its Get and its patch, is the only way in.
THEOREM DeletedNeverDoubleBound ==
  ASSUME CurrentCaches, PoolKept, CloudAsync = FALSE
  PROVE  DeletionSpec /\ OwnClaimCleared => []NoDoubleBound
<1>1. DeletionInit => DeletionInv /\ ClaimInv /\ HolderInv
  BY InitCleared, InitClaims
<1>2. /\ DeletionInv /\ ClaimInv /\ HolderInv
      /\ [DeletionNext]_deletionVars /\ [ClearsOwn]_vars
      => DeletionInv' /\ ClaimInv' /\ HolderInv'
  BY DeletionStep, ClaimStep, HolderStep DEF DeletionInv
<1>3. DeletionInv /\ ClaimInv /\ HolderInv => NoDoubleBound
  <2> SUFFICES ASSUME ClaimInv, HolderInv, faults = 0, NEW p \in PAs, NEW q \in PAs,
                      pa[p].phase = "Bound", pa[q].phase = "Bound", pa[p].ip = pa[q].ip
               PROVE  p = q
    BY DEF NoDoubleBound
  <2>1. Placed(pa[p], worker[p], lifeCache[p], faults)
    BY DEF ClaimInv, AllPlaced
  <2>2. pa[p].ip \in IPs
    BY <2>1 DEF Placed, Holding, Addresses, IPs
  <2>3. Holds(pa[p], worker[p], pa[p].ip) /\ Holds(pa[q], worker[q], pa[p].ip)
    BY DEF Holds, Holding
  <2> QED
    BY <2>2, <2>3 DEF HolderInv, OneHolder
<1>4. OwnClaimCleared => [][ClearsOwn]_vars
  BY DEF OwnClaimCleared, ClearsOwn
<1> QED
  BY <1>1, <1>2, <1>3, <1>4, PTL DEF DeletionSpec

\* No worker takes the Pod away from a PA that is Binding or Bound to it, though
\* handleAvailable takes over the claim of a PA that a deletion has emptied, however often
\* Pods are followed by others of their name.
THEOREM DeletionSparesLiveClaims ==
  ASSUME CurrentCaches, PoolKept, CloudAsync = FALSE
  PROVE  DeletionSpec => LiveClaimKept
<1> DEFINE A == \A d \in Pods : \A q \in PAs :
                  /\ pod[d] # Null /\ pod'[d] # Null
                  /\ pod[d].claim = q /\ pa[q].pod = d
                  /\ pa[q].phase \in {"Binding", "Bound"}
                  => pod'[d].claim \in {q, Null}
<1>1. DeletionInit => DeletionInv /\ ClaimInv
  BY InitCleared, InitClaims
<1>2. DeletionInv /\ ClaimInv /\ [DeletionNext]_deletionVars => DeletionInv' /\ ClaimInv'
  BY DeletionStep, ClaimStep DEF DeletionInv
<1>3. DeletionInv /\ ClaimInv /\ [DeletionNext]_deletionVars => [A]_vars
  <2> SUFFICES ASSUME DeletionInv, ClaimInv, [DeletionNext]_deletionVars
               PROVE  A
    OBVIOUS
  <2> SUFFICES ASSUME NEW d \in Pods, NEW q \in PAs, pod[d] # Null, pod'[d] # Null,
                      pod[d].claim = q, pa[q].pod = d
               PROVE  pod'[d].claim \in {q, Null}
    OBVIOUS
  <2>1. PodWriters /\ FieldsInv /\ DOMAIN pod = Pods
    BY OnlyWriters DEF DeletionInv, ClaimInv, PodsCounted
  <2>2. CASE \E p \in PAs : \E e, w : ClaimsPod(p, e, w)
    <3>1. PICK p \in PAs : \E e, w : ClaimsPod(p, e, w)
      BY <2>2
    <3>2. PICK e, w : ClaimsPod(p, e, w)
      BY <3>1
    <3>3. e # d
      BY <3>2, ConstantsAssumption DEF ClaimsPod, Free, LetGo
    <3> QED
      BY <2>1, <3>2, <3>3 DEF ClaimsPod, SetClaim, WritePod
  <2>3. CASE \E p \in PAs : PatchPodClaim(p, "patchPodClaimAgain", "clearSpec")
    <3>1. PICK e, r : /\ pod' = [pod EXCEPT ![e] = r]
                      /\ r = IF pod[e] = Null THEN Null ELSE [pod[e] EXCEPT !.claim = Null]
      BY <2>3 DEF PatchPodClaim, WritePod
    <3>2. IsPod(pod[d])
      BY DEF ClaimInv, PodsCounted
    <3> QED
      BY <2>1, <3>1, <3>2 DEF IsPod
  <2>4. CASE \E e \in Pods : PodStep(e) /\ UNCHANGED lifeVars
    BY <2>1, <2>4, PodKeeps
  <2>5. CASE \/ \E p \in PAs : DeletePA(p) \/ SyncLife(p)
             \/ \E e \in Pods : SyncPod(e) /\ UNCHANGED lifeVars
             \/ UNCHANGED deletionVars
    BY <2>1, <2>5, InformersKeep
  <2>6. CASE \E p \in PAs : Alone(p)
    BY <2>6 DEF Alone, podVars
  <2> QED
    BY <2>1, <2>2, <2>3, <2>4, <2>5, <2>6 DEF PodWriters
<1> QED
  BY <1>1, <1>2, <1>3, PTL DEF DeletionSpec, LiveClaimKept

\* A worker removes no claim but its own, in a release as in a deletion, if reads do not
\* lag and no Pod is followed by another of its name.  (Between the Get and the patch of
\* clearPodClaim, a Pod of the name may come up and be claimed.)
THEOREM DeletionClearsOwnClaims ==
  ASSUME CurrentCaches, PoolKept, PodsOnce, CloudAsync = FALSE
  PROVE  DeletionSpec => OwnClaimCleared
<1> DEFINE A == \A d \in Pods : \A p, q \in PAs :
                  /\ pod[d] # Null /\ pod[d].claim = q
                  /\ pod'[d] # Null /\ pod'[d].claim = Null
                  /\ worker'[p] # worker[p]
                  => p = q
<1>1. DeletionInit => DeletionInv /\ ClaimInv
  BY InitCleared, InitClaims
<1>2. DeletionInv /\ ClaimInv /\ [DeletionNext]_deletionVars => DeletionInv' /\ ClaimInv'
  BY DeletionStep, ClaimStep DEF DeletionInv
<1>3. DeletionInv /\ ClaimInv /\ [DeletionNext]_deletionVars => [A]_vars
  <2> SUFFICES ASSUME DeletionInv, ClaimInv, [DeletionNext]_deletionVars
               PROVE  A
    OBVIOUS
  <2> SUFFICES ASSUME NEW d \in Pods, NEW p \in PAs, NEW q \in PAs, pod[d] # Null,
                      pod[d].claim = q, pod'[d] # Null, pod'[d].claim = Null,
                      worker'[p] # worker[p]
               PROVE  p = q
    OBVIOUS
  <2>1. PodWriters /\ FieldsInv /\ DOMAIN pod = Pods /\ q # Null /\ pod'[d].claim # pod[d].claim
    BY OnlyWriters, ConstantsAssumption DEF DeletionInv, ClaimInv, PodsCounted
  <2>2. ASSUME NEW s \in PAs, NEW e, NEW w, ClaimsPod(s, e, w)
        PROVE  FALSE
    <3>1. e # d => pod'[d] = pod[d]
      BY <2>1, <2>2 DEF ClaimsPod, SetClaim, WritePod
    <3>2. IsPod(pod[d])
      BY DEF ClaimInv, PodsCounted
    <3>3. e = d => pod'[d] = [pod[d] EXCEPT !.claim = s]
      BY <2>1, <2>2 DEF ClaimsPod, SetClaim, WritePod
    <3>4. e = d => pod'[d].claim = s
      BY <3>2, <3>3 DEF IsPod
    <3> QED
      BY <2>1, <3>1, <3>4, ConstantsAssumption
  <2>3. ASSUME NEW s \in PAs, PatchPodClaim(s, "patchPodClaimAgain", "clearSpec"),
               UNCHANGED lifeCache
        PROVE  p = q
    <3>1. PICK e : e = worker[s].mem.pod
      OBVIOUS
    <3>2. PICK r : r = IF pod[e] = Null THEN Null ELSE [pod[e] EXCEPT !.claim = Null]
      OBVIOUS
    <3>3. PICK w : /\ pod' = [pod EXCEPT ![e] = r] /\ worker[s].pc = "patchPodClaimAgain"
                   /\ worker' = [Overtaken(e, r) EXCEPT ![s] = w]
      BY <2>3, <3>1, <3>2 DEF PatchPodClaim, WritePod, At
    <3>4. e = d
      BY <2>1, <3>3
    <3>5. HasClaim(pod, d, s)
      <4>1. Clearing(s, worker[s])
        BY <2>1, <2>3, ClaimClearedKeeps
      <4> QED
        BY <3>1, <3>4, <4>1 DEF Clearing, Gone
    <3>6. q = s /\ pa[s].pod = d
      <4>1. Placed(pa[s], worker[s], lifeCache[s], faults)
        BY DEF ClaimInv, AllPlaced
      <4> QED
        BY <3>1, <3>3, <3>4, <3>5, <4>1 DEF HasClaim, Placed
    <3>7. ASSUME p # s
          PROVE  FALSE
      <4>1. worker[p].mem.pod = d /\ worker'[p] = [worker[p] EXCEPT !.podOK = FALSE]
        BY <2>1, <3>3, <3>4, <3>7 DEF Overtaken
      <4>2. Placed(pa[p], worker[p], lifeCache[p], faults) /\ Keyed(p, pa[p], worker[p])
        BY DEF ClaimInv, AllPlaced, AllKeyed
      <4>3. worker[p].podOK # TRUE
        <5>1. pod[d].claim = s /\ s # Null /\ pa[s].pod = d /\ d # Null
          BY <2>1, <3>6, ConstantsAssumption
        <5>2. ~Free(d)
          BY <5>1 DEF Free, LetGo
        <5> QED
          BY <4>1, <4>2, <5>2 DEF Keyed, Setting
      <4>4. worker[p].podOK = FALSE /\ worker[p] = [x \in DOMAIN worker[p] |-> worker[p][x]]
        BY <4>2, <4>3 DEF Placed
      <4>5. [worker[p] EXCEPT !.podOK = FALSE] = worker[p]
        BY <4>4
      <4> QED
        BY <4>1, <4>5
    <3> QED
      BY <3>6, <3>7
  <2>4. ~\E e \in Pods : PodStep(e) /\ UNCHANGED lifeVars
    BY <2>1, PodKeeps
  <2>5. ~ \/ \E s \in PAs : DeletePA(s) \/ SyncLife(s)
          \/ \E e \in Pods : SyncPod(e) /\ UNCHANGED lifeVars
          \/ UNCHANGED deletionVars
    BY <2>1, InformersKeep
  <2>6. ~\E s \in PAs : Alone(s)
    BY <2>1 DEF Alone, podVars
  <2> QED
    BY <2>1, <2>2, <2>3, <2>4, <2>5, <2>6 DEF PodWriters
<1> QED
  BY <1>1, <1>2, <1>3, PTL DEF DeletionSpec, OwnClaimCleared
=============================================================================
