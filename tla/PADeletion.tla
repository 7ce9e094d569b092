----------------------------- MODULE PADeletion -----------------------------
(***************************************************************************)
(* Deletion of a PA at any point of the binding life cycle: the first part  *)
(* of handleDeletion, which takes the Pod's address out of the server       *)
(* groups (SGs), drops the claim and clears the reservation, each by best   *)
(* effort and without a retry.                                              *)
(*                                                                          *)
(* The second part, which waits for the listeners and deletes the SGs, is   *)
(* detailed in PAProvisioning; here it either waits or is done.             *)
(*                                                                          *)
(* handleDeletion shares its steps with resetToAvailable, so a worker of    *)
(* the base model does them; it is told apart by the phase of its copy.     *)
(* Cloud calls take effect at once here.                                    *)
(***************************************************************************)
EXTENDS PortAllocation

CONSTANT Deletable     \* bound: the PAs that someone may delete

VARIABLES
    life,        \* is a PA live, does it have a deletion timestamp, or is it gone?
    lifeCache    \* what the cached PA says of that

deletionVars == <<vars, life, lifeCache>>
lifeVars == <<life, lifeCache>>

DeletionInit ==
    /\ Init
    /\ life = [p \in PAs |-> "live"]
    /\ lifeCache = life

\* Phase Deleting is only known here.
InDeletion(p) == worker[p].mem.phase = "Deleting"

\* Someone deletes the PA: the finalizer keeps it, with a new resource version.
DeletePA(p) ==
    /\ p \in Deletable
    /\ life[p] = "live"
    /\ life' = [life EXCEPT ![p] = "deleting"]
    /\ paSynced' = [paSynced EXCEPT ![p] = FALSE]
    /\ worker' = [worker EXCEPT ![p].memOK = FALSE]
    /\ UNCHANGED <<pa, cacheVars, podVars, cloudVars, faults, lifeCache>>

SyncLife(p) ==
    /\ SyncPA(p)
    /\ lifeCache' = [lifeCache EXCEPT ![p] = life[p]]
    /\ UNCHANGED life

\* A PA that has an address lets its Pod go first.
MutantFirst(p) == IF paCache[p].ip # Null THEN "clearPodClaimAgain" ELSE "deleteSGs"
MutantFirstCloud(p) == "deleteSGs"
First(p) == IF paCache[p].ip # Null THEN "removeServers" ELSE "deleteSGs"

\* Reconcile of a PA with a deletion timestamp: the phase becomes Deleting, by a
\* CAS whose failure is ignored.
StartDeletion(p) ==
    /\ At(p, "idle")
    /\ CacheReadable(p)
    /\ lifeCache[p] = "deleting"
    /\ \/ /\ paSynced[p]
          /\ WritePA(p, [pa[p] EXCEPT !.phase = "Deleting"])
          /\ UNCHANGED faults
       \/ /\ IF paSynced[p] THEN Fault ELSE UNCHANGED faults
          /\ UNCHANGED paVars
    /\ Goto(p, [Idle EXCEPT !.pc = First(p),
                            !.mem = [paCache[p] EXCEPT !.phase = "Deleting"],
                            !.memOK = paSynced[p]])
    /\ UNCHANGED <<cacheVars, podVars, cloudVars, lifeVars>>

\* RemoveServers and ClearPodClaimAgain of the base model come first; then the
\* reservation is cleared, by a CAS whose failure is ignored.
Forget(p) ==
    /\ At(p, "clearSpec") /\ InDeletion(p)
    /\ \/ /\ CurrentPA(p)
          /\ WritePA(p, Unreserved(p))
          /\ UNCHANGED faults
       \/ /\ IF CurrentPA(p) THEN Fault ELSE UNCHANGED faults
          /\ UNCHANGED paVars
    /\ Goto(p, [worker[p] EXCEPT !.pc = "deleteSGs"])
    /\ UNCHANGED <<cacheVars, podVars, cloudVars, lifeVars>>

\* A listener or an SG is still there.
WaitForCloud(p) ==
    /\ At(p, "deleteSGs")
    /\ Goto(p, Idle)
    /\ UNCHANGED <<paVars, cacheVars, podVars, cloudVars, faults, lifeVars>>

\* The listeners are gone, so the SGs go, and with them what is registered in
\* them and what is under way.
DeleteSGs(p) ==
    /\ At(p, "deleteSGs")
    /\ backends' = [backends EXCEPT ![p] = [i \in SGs |-> {}]]
    /\ jobs' = [jobs EXCEPT ![p] = [i \in SGs |-> {}]]
    /\ Goto(p, [worker[p] EXCEPT !.pc = "removeFinalizer"])
    /\ UNCHANGED <<paVars, cacheVars, podVars, faults, lifeVars>>

\* The last CAS removes the finalizer, and the PA.
RemoveFinalizer(p) ==
    /\ At(p, "removeFinalizer")
    /\ IF CurrentPA(p) /\ life[p] = "deleting"
         THEN /\ pa' = [pa EXCEPT ![p] = [EmptyPA EXCEPT !.phase = "Deleting"]]
              /\ paSynced' = [paSynced EXCEPT ![p] = FALSE]
              /\ life' = [life EXCEPT ![p] = "gone"]
         ELSE UNCHANGED <<paVars, life>>
    /\ Goto(p, Idle)
    /\ UNCHANGED <<cacheVars, podVars, cloudVars, faults, lifeCache>>

Deletion(p) ==
    StartDeletion(p) \/ Forget(p) \/ DeleteSGs(p) \/ RemoveFinalizer(p)

\* A last write of the base model, made on a copy that the deletion has made
\* old, conflicts and ends the reconcile.
Conflict(p) == At(p, "rollback") \/ At(p, "setAvailable")

GiveUp(p) ==
    /\ Conflict(p) /\ ~CurrentPA(p)
    /\ Goto(p, Idle)
    /\ UNCHANGED <<paVars, cacheVars, podVars, cloudVars, faults, lifeVars>>

\* The base model goes on where the code is the same.
Base(p) ==
    /\ At(p, "idle") => lifeCache[p] = "live"
    /\ At(p, "clearSpec") => ~InDeletion(p)
    /\ Conflict(p) => CurrentPA(p)

BaseStep(p) ==
    /\ Base(p)
    /\ WorkerStep(p) \/ ClaimPodFails(p) \/ ResumeClaimFails(p)
    /\ UNCHANGED lifeVars

BaseFault(p) ==
    /\ Base(p)
    /\ Abort(p) \/ Throttled(p) \/ PatchPodClaimFails(p)
    /\ UNCHANGED lifeVars

DeletionNext ==
    \/ \E p \in PAs : \/ DeletePA(p) \/ Deletion(p) \/ WaitForCloud(p) \/ GiveUp(p)
                      \/ BaseStep(p) \/ BaseFault(p) \/ SyncLife(p)
    \/ \E d \in Pods : (PodStep(d) \/ SyncPod(d)) /\ UNCHANGED lifeVars

DeletionSpec == DeletionInit /\ [][DeletionNext]_deletionVars

\* As in PortAllocation.  Listeners may stay for ever (a PA that a user deletes
\* keeps those of its NLB), so nothing says that DeleteSGs happens.
DeletionFairSpec ==
    /\ DeletionSpec
    /\ \A p \in PAs :
         /\ SF_deletionVars(BaseStep(p) \/ StartDeletion(p) \/ Forget(p) \/ GiveUp(p)
                              \/ WaitForCloud(p) \/ RemoveFinalizer(p))
         /\ WF_deletionVars(SyncLife(p))
    /\ \A d \in Pods : /\ WF_deletionVars(SyncPod(d) /\ UNCHANGED lifeVars)
                       /\ WF_deletionVars(PodGetsIP(d) /\ UNCHANGED lifeVars)

-----------------------------------------------------------------------------
(* What a deletion must not break, besides OwnClaimCleared.                 *)

\* A PA with a deletion timestamp that has let its Pod go has no backend left,
\* wherever the deletion cut in, as long as every call succeeds.  (After a
\* failure it may have: nobody removes a backend when the reservation is gone.)
LetGoIsEmpty ==
    faults = 0 =>
        \A p \in PAs : life[p] = "deleting" /\ pa[p].pod = Null =>
            \A i \in SGs : backends[p][i] = {}

\* A Pod that stays in the pool, enabled, gets a PA that is not being deleted,
\* whichever PA it had and whenever that was deleted.  (One PA more than Pods.)
EventuallyRebound ==
    \A d \in Pods : <>[]Wanted(d) =>
        <>[](\E p \in PAs : life[p] = "live" /\ BoundTo(p, d))
=============================================================================
