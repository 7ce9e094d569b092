----------------------------- MODULE TwoManagers -----------------------------
(***************************************************************************)
(* Two managers run at a time.  Leader election is off unless the operator  *)
(* asks for it, so with two replicas, or during a rolling update, each of   *)
(* two processes has its own informer caches and its own worker for every   *)
(* PA, and "one worker per PA" does not hold any more.  What remains is     *)
(* optimistic locking: each manager is a copy of PortAllocation over the    *)
(* same API server and the same cloud, and what the one writes makes the    *)
(* copies that the other holds out of date.  The second manager is the old  *)
(* one of a rolling update: it stops at some time.                          *)
(*                                                                          *)
(* There are no faults here and cloud calls take effect at once: whatever   *)
(* goes wrong is the doing of two managers.                                 *)
(***************************************************************************)
EXTENDS Integers, FiniteSets

CONSTANTS PAs, Pods, Null, NumSG, MaxIncarnations, MaxFaults, CacheLag,
          CloudAsync, UserEdits

VARIABLES
    pa, pod, backends, jobs, incarnation, granted, faults,  \* shared
    paCache1, paSynced1, podCache1, podSynced1, worker1,    \* of the first manager
    paCache2, paSynced2, podCache2, podSynced2, worker2,    \* of the second
    running                                                 \* does the second run?

shared == <<pa, pod, backends, jobs, incarnation, granted, faults>>
first  == <<paCache1, paSynced1, podCache1, podSynced1, worker1>>
second == <<paCache2, paSynced2, podCache2, podSynced2, worker2>>
vars   == <<shared, first, second, running>>

M1 == INSTANCE PortAllocation
        WITH paCache <- paCache1, paSynced <- paSynced1, podCache <- podCache1,
             podSynced <- podSynced1, worker <- worker1
M2 == INSTANCE PortAllocation
        WITH paCache <- paCache2, paSynced <- paSynced2, podCache <- podCache2,
             podSynced <- podSynced2, worker <- worker2

Init == M1!Init /\ M2!Init /\ running = TRUE

-----------------------------------------------------------------------------
(* What a step of the one manager does to the other.                        *)

Same(f, x) == f'[x] = f[x]

\* Every copy of an object that was written has an old resource version.
Outdated(w) ==
    [p \in PAs |->
       [w[p] EXCEPT !.memOK = @ /\ Same(pa, p),
                    !.podOK = @ /\ (w[p].mem.pod \in Pods => Same(pod, w[p].mem.pod))]]

SecondObserves ==
    /\ paSynced2' = [p \in PAs |-> paSynced2[p] /\ Same(pa, p)]
    /\ podSynced2' = [d \in Pods |-> podSynced2[d] /\ Same(pod, d)]
    /\ worker2' = Outdated(worker2)
    /\ UNCHANGED <<paCache2, podCache2>>

FirstObserves ==
    /\ paSynced1' = [p \in PAs |-> paSynced1[p] /\ Same(pa, p)]
    /\ podSynced1' = [d \in Pods |-> podSynced1[d] /\ Same(pod, d)]
    /\ worker1' = Outdated(worker1)
    /\ UNCHANGED <<paCache1, podCache1>>

\* The roll back and the last write of resetToAvailable are CAS too; with one
\* manager they cannot conflict.
LastWrite(w, p) == w[p].pc \in {"rollback", "setAvailable"}

Conflicts(w, p) == LastWrite(w, p) /\ ~w[p].memOK

FirstWorks(p) ==
    /\ ~Conflicts(worker1, p)
    /\ M1!WorkerStep(p) \/ M1!ClaimPodFails(p) \/ M1!ResumeClaimFails(p)

FirstGivesUp(p) ==
    /\ Conflicts(worker1, p)
    /\ worker1' = [worker1 EXCEPT ![p] = M1!Idle]
    /\ UNCHANGED <<shared, paCache1, paSynced1, podCache1, podSynced1>>

FirstStep(p) == (FirstWorks(p) \/ FirstGivesUp(p)) /\ SecondObserves /\ UNCHANGED running

FirstSyncsPA(p) == M1!SyncPA(p) /\ UNCHANGED <<second, running>>
FirstSyncsPod(d) == M1!SyncPod(d) /\ UNCHANGED <<second, running>>

SecondWorks(p) ==
    /\ ~Conflicts(worker2, p)
    /\ M2!WorkerStep(p) \/ M2!ClaimPodFails(p) \/ M2!ResumeClaimFails(p)

SecondGivesUp(p) ==
    /\ Conflicts(worker2, p)
    /\ worker2' = [worker2 EXCEPT ![p] = M2!Idle]
    /\ UNCHANGED <<shared, paCache2, paSynced2, podCache2, podSynced2>>

SecondStep(p) ==
    /\ running
    /\ (SecondWorks(p) \/ SecondGivesUp(p)) /\ FirstObserves /\ UNCHANGED running

SecondSyncsPA(p) == running /\ M2!SyncPA(p) /\ UNCHANGED <<first, running>>
SecondSyncsPod(d) == running /\ M2!SyncPod(d) /\ UNCHANGED <<first, running>>

\* The old manager of a rolling update ends, in whatever it was doing.
SecondStops ==
    /\ running
    /\ running' = FALSE
    /\ UNCHANGED <<shared, first, second>>

PodChanges(d) == M1!PodStep(d) /\ SecondObserves /\ UNCHANGED running

Next ==
    \/ \E p \in PAs : FirstStep(p) \/ FirstSyncsPA(p) \/ SecondStep(p) \/ SecondSyncsPA(p)
    \/ \E d \in Pods : FirstSyncsPod(d) \/ SecondSyncsPod(d) \/ PodChanges(d)
    \/ SecondStops

Spec == Init /\ [][Next]_vars

\* The manager that stays owes what a manager owes in PortAllocation; the one
\* that goes owes nothing but to go.
FairSpec ==
    /\ Spec
    /\ \A p \in PAs : SF_vars(FirstStep(p)) /\ WF_vars(FirstSyncsPA(p))
    /\ \A d \in Pods : /\ WF_vars(FirstSyncsPod(d))
                       /\ WF_vars(M1!PodGetsIP(d) /\ SecondObserves /\ UNCHANGED running)
    /\ WF_vars(SecondStops)

-----------------------------------------------------------------------------
\* When the old manager has stopped, a Pod that stays in the pool is bound to a
\* PA and registered in all its SGs: the remaining manager repairs what the two
\* did to each other, for "binding is stable".
EventuallyServed == M1!EventuallyServed
=============================================================================
