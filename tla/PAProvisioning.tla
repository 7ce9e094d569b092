--------------------------- MODULE PAProvisioning ---------------------------
(***************************************************************************)
(* Provisioning and deletion of one PortAllocation (PA): how its worker     *)
(* creates a server group (SG) for every port of the pool and a listener    *)
(* for every port and lane, records their cloud ids in the status of the    *)
(* PA, promotes the PA to Available, and, once the PA is deleted, waits for *)
(* the listeners to disappear with their NLBs, deletes the SGs and gives up *)
(* the finalizer.  The pool may then create a PA of the same name.          *)
(*                                                                          *)
(* What the binding life cycle (module PortAllocation) does to the PA       *)
(* between Available and deletion leaves all of this state alone.           *)
(*                                                                          *)
(* How the control flow is cut into actions.                                *)
(*  - The worker copies the cached PA at the start of a reconcile, however  *)
(*    far the cache is behind, and then walks the arrays of its copy.       *)
(*  - A cloud call that creates something and the patch that records its id *)
(*    are two steps.  A poll is one step with the patch that records its    *)
(*    outcome: what it found does not become false before the patch.        *)
(*  - A patch has no resource version and succeeds on any version of the    *)
(*    PA; an update is a compare-and-swap (CAS).                            *)
(*                                                                          *)
(* What is abstracted.                                                      *)
(*  - Cloud ids.  An SG is named by the incarnation (uid) of the PA that    *)
(*    created it and its port, which is what its client token is made of:   *)
(*    the cloud returns the same SG when the call is repeated.  (So it      *)
(*    remembers these tokens: were one forgotten before the lost patch is   *)
(*    made good, the repeated call would make a second SG and the first,    *)
(*    never recorded, would be leaked.)  A listener id is a number, 0 for   *)
(*    the empty string; the tokens of listeners are forgotten.              *)
(*  - Throttling, and calls refused while an NLB is being configured, end   *)
(*    the reconcile with nothing changed: the absence of a step.            *)
(*  - Names, endpoints' addresses, aggregates, labels and messages.         *)
(***************************************************************************)
EXTENDS Integers

CONSTANTS
    Null,        \* no PA, no listener
    NumPorts,    \* ports of the pool, hence SGs of the PA
    NumLanes,    \* lanes of the pool, each with one NLB for this PA
    MaxPAs,      \* bound: how often the PA is created
    MaxFaults,   \* bound: crashes, lost writes, listeners that fail, SGs that vanish
    SGsVanish    \* may an SG disappear that nobody here has deleted?

ASSUME ConstantsAssumption ==
    /\ NumPorts \in Nat \ {0}
    /\ NumLanes \in Nat \ {0}
    /\ MaxPAs \in Nat
    /\ MaxFaults \in Nat
    /\ SGsVanish \in BOOLEAN

VARIABLES
    pa,          \* the PA in the API server (Null: there is none)
    paCache,     \* the informer cache of the PA
    paSynced,    \* is the cached PA the current version?
    worker,      \* what the worker holds during a reconcile
    poolWrites,  \* the pool has created the PA and may yet write its phase
    uid,         \* how often the PA has been created
    sg,          \* cloud: the SGs
    listener,    \* cloud: the listener on each port of each NLB
    tokens,      \* cloud: the listener id remembered for each client token
    nlb,         \* cloud: the NLB of each lane
    made,        \* how many listeners have been created
    recorded,    \* history: the SGs whose id was ever recorded in the PA
    faults       \* how many faults have happened

k8sVars   == <<pa, paCache, paSynced, poolWrites, uid, recorded>>
cloudVars == <<sg, listener, tokens, nlb, made>>
vars == <<k8sVars, cloudVars, worker, faults>>

Ports     == 1..NumPorts
Lanes     == 1..NumLanes
Listeners == 1..(NumPorts * NumLanes)
Uids      == 1..MaxPAs
SGIds     == Uids \X Ports

\* status.listeners is indexed by portIdx * laneCount + laneIdx.
PortOf(k) == ((k - 1) \div NumLanes) + 1
LaneOf(k) == ((k - 1) % NumLanes) + 1

Phases   == {"", "Provisioning", "Available", "Deleting"}
Prefixes == {"lsn", "lsn-recreate"}

\* An element that is not in the array (not yet, or not any more) is Gone.
SGEntries       == [id : 0..MaxPAs, phase : {"Gone", "Pending", "Creating", "Active"}]
ListenerEntries == [id : Nat, phase : {"Gone", "Pending", "Creating", "Running"}]
Gone    == [id |-> 0, phase |-> "Gone"]
Pending == [id |-> 0, phase |-> "Pending"]

\* endpoints stands for the listener ids in spec.endpoints.
PARecords == [uid : Uids, phase : Phases, finalizer : BOOLEAN, deleting : BOOLEAN,
              sgs : [Ports -> SGEntries], lsns : [Listeners -> ListenerEntries],
              endpoints : [Listeners -> Nat]]

\* What the cloud knows of a listener.
CloudListeners == [id : Nat, sg : SGIds, running : BOOLEAN]

ASSUME NullIsNoRecord == Null \notin PARecords \cup CloudListeners

NewPA(u) == [uid |-> u, phase |-> "", finalizer |-> FALSE, deleting |-> FALSE,
             sgs |-> [i \in Ports |-> Gone], lsns |-> [k \in Listeners |-> Gone],
             endpoints |-> [k \in Listeners |-> 0]]

Labels == {"idle", "serverGroups", "patchSG", "listeners", "patchListener",
           "promote", "setAvailable", "deletion"}

\* mem is the in-memory PA, memOK says whether its resource version is current,
\* i is the index of the loop, id is what the cloud has just returned, ready is
\* allSGsActive or allListenersRunning.
Workers == [pc : Labels, mem : PARecords \cup {Null}, memOK : BOOLEAN,
            i : Nat, id : Nat, ready : BOOLEAN]

Idle == [pc |-> "idle", mem |-> Null, memOK |-> FALSE, i |-> 1, id |-> 0,
         ready |-> TRUE]

TypeOK ==
    /\ pa \in PARecords \cup {Null}
    /\ paCache \in PARecords \cup {Null}
    /\ paSynced \in BOOLEAN
    /\ worker \in Workers
    /\ poolWrites \in BOOLEAN
    /\ uid \in 0..MaxPAs
    /\ sg \in [SGIds -> {"none", "Creating", "Available", "Deleted"}]
    /\ listener \in [Listeners -> CloudListeners \cup {Null}]
    /\ tokens \in [Listeners -> [Prefixes -> Nat]]
    /\ nlb \in [Lanes -> {"Active", "Deleting", "Gone"}]
    /\ made \in Nat
    /\ recorded \in SUBSET SGIds
    /\ faults \in 0..MaxFaults

NoTokens == [k \in Listeners |-> [t \in Prefixes |-> 0]]

\* The pool creates PAs only once its NLBs are Active.
Init ==
    /\ pa = Null /\ paCache = Null /\ paSynced = TRUE
    /\ worker = Idle
    /\ poolWrites = FALSE
    /\ uid = 0
    /\ sg = [s \in SGIds |-> "none"]
    /\ listener = [k \in Listeners |-> Null]
    /\ tokens = NoTokens
    /\ nlb = [l \in Lanes |-> "Active"]
    /\ made = 0
    /\ recorded = {}
    /\ faults = 0

Fault == faults < MaxFaults /\ faults' = faults + 1

At(label) == worker.pc = label

\* A write that changes nothing keeps the resource version.
WritePA(r) ==
    /\ pa' = r
    /\ paSynced' = (paSynced /\ r = pa)

\* A write by someone else makes the worker's copy out of date.
Overtake(r) ==
    /\ WritePA(r)
    /\ worker' = [worker EXCEPT !.memOK = @ /\ r = pa]

SyncPA ==
    /\ ~paSynced
    /\ paCache' = pa
    /\ paSynced' = TRUE
    /\ UNCHANGED <<pa, poolWrites, uid, recorded, cloudVars, worker, faults>>

-----------------------------------------------------------------------------
(* The pool controller and users.                                           *)

CreatePA ==
    /\ pa = Null
    /\ uid < MaxPAs
    /\ \A l \in Lanes : nlb[l] = "Active"
    /\ uid' = uid + 1
    /\ Overtake(NewPA(uid + 1))
    /\ poolWrites' = TRUE
    /\ tokens' = NoTokens
    /\ UNCHANGED <<paCache, recorded, sg, listener, nlb, made, faults>>

\* After the creation the pool gets the PA from its cache and sets the phase, by
\* a CAS: if it succeeds, what the pool had got was the current PA.  A failure
\* is ignored.
InitialPhase ==
    /\ poolWrites
    /\ pa # Null
    /\ poolWrites' = FALSE
    /\ Overtake([pa EXCEPT !.phase = "Provisioning"])
    /\ UNCHANGED <<paCache, uid, recorded, cloudVars, faults>>

\* An object without a finalizer is removed at once.
DeletePA ==
    /\ pa # Null
    /\ ~pa.deleting
    /\ Overtake(IF pa.finalizer THEN [pa EXCEPT !.deleting = TRUE] ELSE Null)
    /\ UNCHANGED <<paCache, poolWrites, uid, recorded, cloudVars, faults>>

-----------------------------------------------------------------------------
(* The cloud.                                                               *)

Alive(s) == sg[s] \in {"Creating", "Available"}

\* A listener refers to the SG, which then cannot be deleted (ResourceInUse).
InUse(s) == \E k \in Listeners : listener[k] # Null /\ listener[k].sg = s

SGReady(s) ==
    /\ sg[s] = "Creating"
    /\ sg' = [sg EXCEPT ![s] = "Available"]
    /\ UNCHANGED <<k8sVars, listener, tokens, nlb, made, worker, faults>>

\* Deleted in the console, say, after its id was recorded.
SGVanishes(s) ==
    /\ SGsVanish
    /\ Alive(s) /\ ~InUse(s)
    /\ pa # Null /\ pa.uid = s[1] /\ pa.sgs[s[2]].id # 0
    /\ Fault
    /\ sg' = [sg EXCEPT ![s] = "Deleted"]
    /\ UNCHANGED <<k8sVars, listener, tokens, nlb, made, worker>>

ListenerReady(k) ==
    /\ listener[k] # Null
    /\ ~listener[k].running
    /\ listener' = [listener EXCEPT ![k].running = TRUE]
    /\ UNCHANGED <<k8sVars, sg, tokens, nlb, made, worker, faults>>

\* The job that creates a listener fails: the listener disappears.
ListenerFails(k) ==
    /\ listener[k] # Null
    /\ ~listener[k].running
    /\ Fault
    /\ listener' = [listener EXCEPT ![k] = Null]
    /\ UNCHANGED <<k8sVars, sg, tokens, nlb, made, worker>>

\* Client tokens are remembered for some hours.
ForgetToken(k, t) ==
    /\ tokens[k][t] # 0
    /\ tokens' = [tokens EXCEPT ![k][t] = 0]
    /\ UNCHANGED <<k8sVars, sg, listener, nlb, made, worker, faults>>

\* Deleting an NLB deletes its listeners first.
DeleteNLB(l) ==
    /\ nlb[l] = "Active"
    /\ nlb' = [nlb EXCEPT ![l] = "Deleting"]
    /\ UNCHANGED <<k8sVars, sg, listener, tokens, made, worker, faults>>

Cascade(l) ==
    /\ nlb[l] = "Deleting"
    /\ IF \E k \in Listeners : LaneOf(k) = l /\ listener[k] # Null
         THEN /\ \E k \in Listeners :
                   /\ LaneOf(k) = l /\ listener[k] # Null
                   /\ listener' = [listener EXCEPT ![k] = Null]
              /\ UNCHANGED nlb
         ELSE /\ nlb' = [nlb EXCEPT ![l] = "Gone"]
              /\ UNCHANGED listener
    /\ UNCHANGED <<k8sVars, sg, tokens, made, worker, faults>>

\* CreateListener on port k with a client token, to forward to s: a call that
\* repeats one the cloud remembers gets the old answer; else the port must be free
\* (if not, it is a conflict) and s must exist.
Accepted(k, t, s) == tokens[k][t] # 0 \/ (listener[k] = Null /\ Alive(s))

Answer(k, t) == IF tokens[k][t] # 0 THEN tokens[k][t] ELSE made + 1

CloudCreateListener(k, t, s) ==
    IF tokens[k][t] # 0
      THEN UNCHANGED <<listener, tokens, made>>
      ELSE /\ listener' = [listener EXCEPT ![k] =
                             [id |-> made + 1, sg |-> s, running |-> FALSE]]
           /\ tokens' = [tokens EXCEPT ![k][t] = made + 1]
           /\ made' = made + 1

\* The listener that the status names exists.
Exists(k, id) == listener[k] # Null /\ listener[k].id = id

-----------------------------------------------------------------------------
(* Reconcile and handleProvisioning.                                        *)

\* The worker dies, or a write fails with an error that ends the reconcile.
Abort ==
    /\ ~At("idle")
    /\ Fault
    /\ worker' = Idle
    /\ UNCHANGED <<k8sVars, cloudVars>>

\* Reconcile starts from the cached PA; the first three steps are one CAS each.
Reconcile(phase) ==
    /\ At("idle")
    /\ paCache # Null
    /\ ~paCache.deleting
    /\ paCache.phase = phase

OneWrite(r) ==
    /\ paSynced
    /\ WritePA(r)
    /\ UNCHANGED <<paCache, poolWrites, uid, recorded, cloudVars, worker, faults>>

AddFinalizer ==
    /\ \E phase \in Phases : Reconcile(phase)
    /\ ~paCache.finalizer
    /\ OneWrite([pa EXCEPT !.finalizer = TRUE])

FilledArrays(r) ==
    [r EXCEPT !.phase = "Provisioning", !.sgs = [i \in Ports |-> Pending],
              !.lsns = [k \in Listeners |-> Pending]]

InitStatus ==
    /\ Reconcile("")
    /\ paCache.finalizer
    /\ OneWrite(FilledArrays(pa))

\* The arrays are empty: the pool has set the phase before InitStatus.
NoArrays(r) == \A i \in Ports : r.sgs[i] = Gone

FillArrays ==
    /\ Reconcile("Provisioning")
    /\ paCache.finalizer
    /\ NoArrays(paCache)
    /\ OneWrite(FilledArrays(pa))

StartProvisioning ==
    /\ Reconcile("Provisioning")
    /\ paCache.finalizer
    /\ ~NoArrays(paCache)
    /\ worker' = [Idle EXCEPT !.pc = "serverGroups", !.mem = paCache, !.memOK = paSynced]
    /\ UNCHANGED <<k8sVars, cloudVars, faults>>

\* The response of a patch refreshes the copy and its resource version.
PatchedNext(label, r, ready) ==
    /\ WritePA(r)
    /\ worker' = [worker EXCEPT !.pc = label, !.mem = r, !.memOK = TRUE,
                                !.i = @ + 1, !.ready = @ /\ ready]
    /\ UNCHANGED <<paCache, poolWrites, uid, cloudVars, faults>>

NextElement(ready) ==
    /\ worker' = [worker EXCEPT !.i = @ + 1, !.ready = @ /\ ready]
    /\ UNCHANGED <<k8sVars, cloudVars, faults>>

CreateSG ==
    LET s == <<worker.mem.uid, worker.i>>
    IN  /\ At("serverGroups")
        /\ worker.i \in Ports
        /\ worker.mem.sgs[worker.i] = Pending
        /\ sg' = [sg EXCEPT ![s] = IF @ = "none" THEN "Creating" ELSE @]
        /\ worker' = [worker EXCEPT !.pc = "patchSG", !.id = worker.mem.uid]
        /\ UNCHANGED <<k8sVars, listener, tokens, nlb, made, faults>>

\* (Variants named Mutant... are plausible bugs in the definition that follows;
\* they show that the properties can fail.)
MutantPatchSG ==
    /\ At("patchSG")
    /\ PatchedNext("serverGroups",
         [pa EXCEPT !.sgs[worker.i] = [id |-> worker.id, phase |-> sg[<<worker.id, worker.i>>]]],
         FALSE)
    /\ recorded' = recorded \cup {<<worker.id, worker.i>>}

PatchSG ==
    /\ At("patchSG")
    /\ PatchedNext("serverGroups",
         [pa EXCEPT !.sgs[worker.i] = [id |-> worker.id, phase |-> "Creating"]], FALSE)
    /\ recorded' = recorded \cup {<<worker.id, worker.i>>}

PollSG ==
    /\ At("serverGroups")
    /\ worker.i \in Ports
    /\ LET e == worker.mem.sgs[worker.i]
       IN  /\ e.phase = "Creating"
           /\ IF sg[<<e.id, worker.i>>] = "Available"
                THEN /\ PatchedNext("serverGroups",
                          [pa EXCEPT !.sgs[worker.i] = [e EXCEPT !.phase = "Active"]], TRUE)
                     /\ UNCHANGED recorded
                ELSE NextElement(FALSE)

SkipActiveSG ==
    /\ At("serverGroups")
    /\ worker.i \in Ports
    /\ worker.mem.sgs[worker.i].phase = "Active"
    /\ NextElement(TRUE)

\* patchAggregates is left out: the worker is about to drop its copy.
EndSGs ==
    /\ At("serverGroups")
    /\ worker.i \notin Ports
    /\ worker' = IF worker.ready
                   THEN [worker EXCEPT !.pc = "listeners", !.i = 1]
                   ELSE Idle
    /\ UNCHANGED <<k8sVars, cloudVars, faults>>

AtListener(phase) ==
    /\ At("listeners")
    /\ worker.i \in Listeners
    /\ worker.mem.lsns[worker.i].phase = phase

\* The SG that listener k is to forward to.
SGOf(k) == <<worker.mem.sgs[PortOf(k)].id, PortOf(k)>>

Submit(k, t) ==
    /\ Accepted(k, t, SGOf(k))
    /\ CloudCreateListener(k, t, SGOf(k))
    /\ worker' = [worker EXCEPT !.pc = "patchListener", !.id = Answer(k, t)]
    /\ UNCHANGED <<k8sVars, sg, nlb, faults>>

\* The listener found on the port is taken for ours.
Adopt(k) ==
    /\ listener[k] # Null
    /\ worker' = [worker EXCEPT !.pc = "patchListener", !.id = listener[k].id]
    /\ UNCHANGED <<k8sVars, cloudVars, faults>>

Prefix == IF \E k \in Listeners : worker.mem.lsns[k].phase = "Running"
            THEN "lsn-recreate" ELSE "lsn"

CreateListener ==
    LET k == worker.i
    IN  /\ AtListener("Pending")
        /\ nlb[LaneOf(k)] = "Active"
        /\ Submit(k, Prefix) \/ (tokens[k][Prefix] = 0 /\ Adopt(k))

PatchListener ==
    /\ At("patchListener")
    /\ PatchedNext("listeners",
         [pa EXCEPT !.lsns[worker.i] = [id |-> worker.id, phase |-> "Creating"]], FALSE)
    /\ UNCHANGED recorded

MutantPollListener ==
    LET k == worker.i
        e == worker.mem.lsns[k]
    IN  /\ AtListener("Creating")
        /\ Exists(k, e.id)
        /\ PatchedNext("listeners",
             [pa EXCEPT !.lsns[k] = [e EXCEPT !.phase = "Running"]], TRUE)
        /\ UNCHANGED recorded

PollListener ==
    LET k == worker.i
        e == worker.mem.lsns[k]
    IN  /\ AtListener("Creating")
        /\ Exists(k, e.id)
        /\ IF listener[k].running
             THEN /\ PatchedNext("listeners",
                       [pa EXCEPT !.lsns[k] = [e EXCEPT !.phase = "Running"]], TRUE)
                  /\ UNCHANGED recorded
             ELSE NextElement(FALSE)

\* The recorded id does not exist: look the port up, or create it again.  When the
\* lookup itself fails, the code goes on to CreateListener although the port may be
\* taken.  That adds no outcome: it is a conflict, which ends the reconcile with nothing
\* changed, or the cloud remembers the token and gives the listener it was used for,
\* which is the one on the port, as if the lookup had found it.
MutantRecreateListener ==
    /\ AtListener("Creating")
    /\ ~Exists(worker.i, worker.mem.lsns[worker.i].id)
    /\ nlb[LaneOf(worker.i)] = "Active"
    /\ Adopt(worker.i) \/ (listener[worker.i] = Null /\ NextElement(FALSE))

RecreateListener ==
    LET k == worker.i
    IN  /\ AtListener("Creating")
        /\ ~Exists(k, worker.mem.lsns[k].id)
        /\ nlb[LaneOf(k)] = "Active"
        /\ Adopt(k) \/ (listener[k] = Null /\ Submit(k, "lsn-recreate"))

\* The NLB of the lane is on its way out, or the SG does not exist any more: Get or
\* CreateListener fails.
ListenerRefused ==
    LET k == worker.i
        t == IF AtListener("Pending") THEN Prefix ELSE "lsn-recreate"
    IN  /\ \/ AtListener("Pending")
           \/ AtListener("Creating") /\ ~Exists(k, worker.mem.lsns[k].id)
        /\ \/ nlb[LaneOf(k)] # "Active"
           \/ listener[k] = Null /\ ~Accepted(k, t, SGOf(k))
        /\ worker' = Idle
        /\ UNCHANGED <<k8sVars, cloudVars, faults>>

SkipRunningListener ==
    /\ AtListener("Running")
    /\ NextElement(TRUE)

EndListeners ==
    /\ At("listeners")
    /\ worker.i \notin Listeners
    /\ worker' = IF worker.ready THEN [worker EXCEPT !.pc = "promote"] ELSE Idle
    /\ UNCHANGED <<k8sVars, cloudVars, faults>>

\* The CAS on the spec; without the NLB objects there are no endpoints to write.
Promote ==
    /\ At("promote")
    /\ IF worker.memOK /\ \A l \in Lanes : nlb[l] # "Gone"
         THEN /\ WritePA([pa EXCEPT !.endpoints =
                            [k \in Listeners |-> worker.mem.lsns[k].id]])
              /\ worker' = [Idle EXCEPT !.pc = "setAvailable"]
         ELSE /\ UNCHANGED <<pa, paSynced>>
              /\ worker' = Idle
    /\ UNCHANGED <<paCache, poolWrites, uid, recorded, cloudVars, faults>>

\* A fresh Get from the cache and a CAS on the status.
SetAvailable ==
    /\ At("setAvailable")
    /\ IF paSynced
         THEN WritePA([pa EXCEPT !.phase = "Available"])
         ELSE UNCHANGED <<pa, paSynced>>
    /\ worker' = Idle
    /\ UNCHANGED <<paCache, poolWrites, uid, recorded, cloudVars, faults>>

-----------------------------------------------------------------------------
(* handleDeletion.  Its first part, for a PA that is still bound, belongs to *)
(* the binding life cycle.                                                   *)

\* An update of the status whose error is ignored: it fails when the copy is
\* out of date, and may fail otherwise.
BestEffort(w) ==
    \/ /\ w.memOK
       /\ WritePA(w.mem)
       /\ UNCHANGED faults
    \/ /\ IF w.memOK THEN Fault ELSE UNCHANGED faults
       /\ UNCHANGED <<pa, paSynced>>

StartDeletion ==
    LET w == [Idle EXCEPT !.pc = "deletion", !.memOK = paSynced,
                          !.mem = [paCache EXCEPT !.phase = "Deleting"]]
    IN  /\ At("idle")
        /\ paCache # Null
        /\ paCache.deleting
        /\ paCache.finalizer
        /\ BestEffort(w)
        /\ worker' = w
        /\ UNCHANGED <<paCache, poolWrites, uid, recorded, cloudVars>>

FirstListener(k) ==
    /\ At("deletion")
    /\ worker.mem.lsns[k].phase # "Gone"
    /\ \A j \in 1..(k - 1) : worker.mem.lsns[j].phase = "Gone"

FirstSG(i) ==
    /\ At("deletion")
    /\ \A k \in Listeners : worker.mem.lsns[k].phase = "Gone"
    /\ worker.mem.sgs[i].phase # "Gone"
    /\ \A j \in 1..(i - 1) : worker.mem.sgs[j].phase = "Gone"

\* Take the first element off the array, and save the status if it had an id.
Pop(w, id) ==
    /\ worker' = w
    /\ IF id = 0 THEN UNCHANGED <<pa, paSynced, faults>> ELSE BestEffort(w)
    /\ UNCHANGED <<paCache, poolWrites, uid, recorded>>

\* Step 2: a listener that is gone is taken off the array; the first one that
\* still exists ends the reconcile, to wait for the cascade.
MutantVerifyListener(k) ==
    LET id == worker.mem.lsns[k].id
    IN  /\ FirstListener(k)
        /\ IF id = 0
             THEN Pop([worker EXCEPT !.mem.lsns[k] = Gone], id)
             ELSE worker' = Idle /\ UNCHANGED <<k8sVars, faults>>
        /\ UNCHANGED cloudVars

VerifyListener(k) ==
    LET id == worker.mem.lsns[k].id
    IN  /\ FirstListener(k)
        /\ IF Exists(k, id)
             THEN worker' = Idle /\ UNCHANGED <<k8sVars, faults>>
             ELSE Pop([worker EXCEPT !.mem.lsns[k] = Gone], id)
        /\ UNCHANGED cloudVars

\* Step 3: an SG that is in use ends the reconcile.
MutantDeleteServerGroup(i) ==
    LET id == worker.mem.sgs[i].id
        s  == <<id, i>>
    IN  /\ FirstSG(i)
        /\ IF id = 0 \/ InUse(s)
             THEN UNCHANGED sg
             ELSE sg' = [sg EXCEPT ![s] = "Deleted"]
        /\ Pop([worker EXCEPT !.mem.sgs[i] = Gone], id)
        /\ UNCHANGED <<listener, tokens, nlb, made>>

DeleteServerGroup(i) ==
    LET id == worker.mem.sgs[i].id
        s  == <<id, i>>
    IN  /\ FirstSG(i)
        /\ IF id # 0 /\ InUse(s)
             THEN worker' = Idle /\ UNCHANGED <<k8sVars, cloudVars, faults>>
             ELSE /\ sg' = IF id = 0 THEN sg ELSE [sg EXCEPT ![s] = "Deleted"]
                  /\ Pop([worker EXCEPT !.mem.sgs[i] = Gone], id)
                  /\ UNCHANGED <<listener, tokens, nlb, made>>

\* The CAS that removes the finalizer, and with it the PA, once the arrays are empty.
MutantAllGone == At("deletion")

AllGone ==
    /\ At("deletion")
    /\ \A k \in Listeners : worker.mem.lsns[k].phase = "Gone"
    /\ \A i \in Ports : worker.mem.sgs[i].phase = "Gone"

MutantRemoveFinalizer ==
    /\ AllGone
    /\ WritePA(Null)
    /\ worker' = Idle
    /\ UNCHANGED <<paCache, poolWrites, uid, recorded, cloudVars, faults>>

RemoveFinalizer ==
    /\ AllGone
    /\ IF worker.memOK THEN WritePA(Null) ELSE UNCHANGED <<pa, paSynced>>
    /\ worker' = Idle
    /\ UNCHANGED <<paCache, poolWrites, uid, recorded, cloudVars, faults>>

-----------------------------------------------------------------------------

WorkerStep ==
    \/ AddFinalizer \/ InitStatus \/ FillArrays \/ StartProvisioning
    \/ CreateSG \/ PatchSG \/ PollSG \/ SkipActiveSG \/ EndSGs
    \/ CreateListener \/ PatchListener \/ PollListener \/ RecreateListener
    \/ ListenerRefused \/ SkipRunningListener \/ EndListeners
    \/ Promote \/ SetAvailable
    \/ StartDeletion
    \/ \E k \in Listeners : VerifyListener(k)
    \/ \E i \in Ports : DeleteServerGroup(i)
    \/ RemoveFinalizer

CloudStep ==
    \/ \E s \in SGIds : SGReady(s) \/ SGVanishes(s)
    \/ \E k \in Listeners :
         ListenerReady(k) \/ ListenerFails(k) \/ \E t \in Prefixes : ForgetToken(k, t)
    \/ \E l \in Lanes : DeleteNLB(l) \/ Cascade(l)

Next ==
    \/ CreatePA \/ InitialPhase \/ DeletePA
    \/ SyncPA \/ WorkerStep \/ Abort \/ CloudStep

Spec == Init /\ [][Next]_vars

\* The PA is requeued until it is Available or gone, the informer catches up,
\* the cloud finishes what it has accepted and forgets client tokens.  The pool,
\* users and faults owe nothing.
Fairness ==
    /\ WF_vars(WorkerStep)
    /\ WF_vars(SyncPA)
    /\ \A s \in SGIds : WF_vars(SGReady(s))
    /\ \A k \in Listeners :
         /\ WF_vars(ListenerReady(k))
         /\ \A t \in Prefixes : WF_vars(ForgetToken(k, t))
    /\ \A l \in Lanes : WF_vars(Cascade(l))

FairSpec == Spec /\ Fairness

-----------------------------------------------------------------------------
(* Safety.                                                                  *)

\* While its NLBs live, an Available PA is served: every listener runs, is the
\* one its endpoints name and forwards to an SG of this very PA, whatever was
\* lost, repeated or adopted on the way.
PromotedIsServed ==
    pa # Null /\ pa.phase = "Available" /\ (\A l \in Lanes : nlb[l] = "Active") =>
        \A k \in Listeners :
            /\ listener[k] # Null
            /\ listener[k].running
            /\ listener[k].id = pa.endpoints[k]
            /\ listener[k].sg[1] = pa.uid
            /\ Alive(listener[k].sg)

\* "All SGs deleted (or NotFound), cloud resources are cleaned up": when a PA is
\* gone, so is every SG whose id it ever recorded, even when the worker went by
\* a cached PA that did not show the id yet.  (An SG whose id was never recorded,
\* because the patch after its creation was lost, is leaked.)
RecordedSGDeleted ==
    \A s \in recorded : Alive(s) => pa # Null /\ pa.uid = s[1]

\* No listener outlives the PA it was created for, so none that is found on a
\* port and adopted forwards to the SG of an earlier PA.
ListenerHasOwner ==
    \A k \in Listeners : listener[k] # Null =>
        pa # Null /\ pa.uid = listener[k].sg[1] /\ Alive(listener[k].sg)

-----------------------------------------------------------------------------
(* Liveness, under FairSpec.                                                *)

NLBsActive == \A l \in Lanes : nlb[l] = "Active"

\* An SG of the PA is gone although the PA records it: the PA polls it for ever, or
\* tries for ever to create a listener for it.
SGLost ==
    \E i \in Ports : LET id == pa.sgs[i].id IN id # 0 /\ sg[<<id, i>>] = "Deleted"

\* A PA is provisioned in the end, whatever else fails, unless it or an NLB is
\* deleted or it has lost an SG, which nothing repairs.
EventuallyAvailable ==
    pa # Null ~> (pa = Null \/ pa.deleting \/ ~NLBsActive \/ SGLost
                    \/ pa.phase = "Available")

-----------------------------------------------------------------------------
(* Refinement: what the pool may rely on.                                   *)

Slot == INSTANCE PASlot WITH
    slot     <- IF pa = Null THEN "none"
                ELSE IF \A k \in Listeners : pa.endpoints[k] # 0 THEN "serving" ELSE "new",
    deleting <- pa # Null /\ pa.deleting,
    live     <- {l \in Lanes : nlb[l] = "Active"}

\* The PA comes into service once, and leaves only when it is deleted and its NLBs
\* are on their way out, each with the listeners the PA waits for.
SlotPromise == Slot!Spec

\* Once its NLBs are deleted, a PA that is deleted goes away: no listener, SG or
\* lost write keeps its finalizer for ever.
EventuallyGone == Slot!EventuallyLeaves
=============================================================================
