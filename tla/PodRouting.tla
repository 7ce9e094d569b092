----------------------------- MODULE PodRouting -----------------------------
(***************************************************************************)
(* The work queue of the PortAllocation controller, on top of the binding  *)
(* life cycle: which watch events put which PAs into it, and which handlers *)
(* put their PA back.  PortAllocation lets a reconcile start at any time;   *)
(* here it starts only for a queued PA, and nothing is ever resynced, so a  *)
(* wake-up that is lost is lost for good.  (The informers resync every ten  *)
(* hours; the operator is not meant to depend on that.)                     *)
(*                                                                          *)
(* A PA that is to be queued after a delay counts as queued.  A PA that     *)
(* gets an event while its worker runs is queued again, as in the work      *)
(* queue of client-go.  A handler that writes nothing and requeues is the   *)
(* absence of a step.                                                       *)
(***************************************************************************)
EXTENDS PortAllocation

VARIABLE queued    \* the PAs in the work queue

routingVars == <<vars, queued>>

\* The first list of the informers queues every PA.
RoutingInit == Init /\ queued = PAs

-----------------------------------------------------------------------------
(* Events.                                                                  *)

\* podToPortAllocation: the sets of PAs that one version of a Pod may route
\* to.  A Pod without a claim goes to the PAs that no cached Pod reserves and
\* whose phase label says Available; failed updates of the label are ignored,
\* so it may say anything.
PodToPortAllocation(r) ==
    IF r = Null \/ ~r.inPool THEN {{}}
    ELSE IF r.claim # Null THEN {{r.claim}}
    ELSE SUBSET {p \in PAs : paCache[p].pod = Null}

\* An update routes the old and the new version, a deletion the last one.
PodEvent(d) ==
    /\ SyncPod(d)
    /\ \E old \in PodToPortAllocation(podCache[d]), new \in PodToPortAllocation(pod[d]) :
          queued' = queued \cup old \cup new

PAEvent(p) == SyncPA(p) /\ queued' = queued \cup {p}

-----------------------------------------------------------------------------
(* Workers.                                                                 *)

\* A worker that starts takes its PA from the queue.
Taken(p) == IF At(p, "idle") THEN queued \ {p} ELSE queued

\* The handlers that end with an empty result after a write; the event of the
\* write is what queues the PA again.
EmptyResult(p) ==
    \/ ResumeClear(p) \/ ResumeClaimFails(p) \/ SetAvailable(p)
    \/ (FinishBinding(p) \/ FinishDisable(p)) /\ pa'[p] # pa[p]

\* What a step of the worker does to the queue: the end of a reconcile puts the
\* PA back, at once or after a delay.
Requeue(p) ==
    queued' = IF worker'[p].pc = "idle" /\ ~EmptyResult(p)
                THEN Taken(p) \cup {p} ELSE Taken(p)

QueuedStep(p) ==
    /\ At(p, "idle") => p \in queued
    /\ WorkerStep(p) \/ ClaimPodFails(p) \/ ResumeClaimFails(p)
    /\ Requeue(p)

QueuedFault(p) ==
    /\ At(p, "idle") => p \in queued
    /\ Abort(p) \/ Throttled(p) \/ PatchPodClaimFails(p)
    /\ Requeue(p)

\* handleDisabled while the Pod stays disabled: the result is empty and nothing
\* was written.  (In Available and in Bound the handler looks again after 5 and
\* 30 seconds.)
MutantIdleDisabled(p) ==
    /\ Reconcile(p, "Disabled") \/ Reconcile(p, "Available")
    /\ CachedPod(p) # Null => CachedPod(p).disabled
    /\ p \in queued
    /\ queued' = queued \ {p}
    /\ UNCHANGED vars

IdleDisabled(p) ==
    /\ Reconcile(p, "Disabled")
    /\ CachedPod(p) # Null
    /\ CachedPod(p).disabled
    /\ p \in queued
    /\ queued' = queued \ {p}
    /\ UNCHANGED vars

\* The manager dies with its queue and its caches; the new one lists everything.
MutantRestart ==
    /\ Fault
    /\ worker' = [p \in PAs |-> Idle]
    /\ paCache' = pa /\ paSynced' = [p \in PAs |-> TRUE]
    /\ podCache' = pod /\ podSynced' = [d \in Pods |-> TRUE]
    /\ queued' = {p \in PAs : pa[p].phase # "Disabled"}
    /\ UNCHANGED <<pa, pod, incarnation, granted, cloudVars>>

Restart ==
    /\ Fault
    /\ worker' = [p \in PAs |-> Idle]
    /\ paCache' = pa /\ paSynced' = [p \in PAs |-> TRUE]
    /\ podCache' = pod /\ podSynced' = [d \in Pods |-> TRUE]
    /\ queued' = PAs
    /\ UNCHANGED <<pa, pod, incarnation, granted, cloudVars>>

RoutingNext ==
    \/ \E p \in PAs : \/ QueuedStep(p) \/ QueuedFault(p) \/ IdleDisabled(p) \/ PAEvent(p)
                      \/ (CloudStep(p) \/ CloudFails(p)) /\ UNCHANGED queued
    \/ \E d \in Pods : PodEvent(d) \/ (PodStep(d) /\ UNCHANGED queued)
    \/ Restart

RoutingSpec == RoutingInit /\ [][RoutingNext]_routingVars

\* The work queue hands out what it holds, the informers deliver, accepted cloud
\* calls take effect and a running Pod gets its address.
RoutingFairness ==
    /\ \A p \in PAs :
         /\ SF_routingVars(QueuedStep(p))
         /\ WF_routingVars(PAEvent(p))
         /\ WF_routingVars(CloudStep(p) /\ UNCHANGED queued)
    /\ \A d \in Pods : WF_routingVars(PodEvent(d))
                       /\ WF_routingVars(PodGetsIP(d) /\ UNCHANGED queued)

RoutingFairSpec == RoutingSpec /\ RoutingFairness

-----------------------------------------------------------------------------
(* What routing must guarantee.                                             *)

\* What p is waiting for: a Disabled PA waits for a change of its Pod.
PodIsDisabled(p) ==
    pa[p].pod # Null /\ pod[pa[p].pod] # Null /\ pod[pa[p].pod].disabled

\* No lost wake-up: a PA that is not queued, whose worker is idle and which has
\* no event under way, is Disabled and so is its Pod.  Every other phase goes on
\* by itself, and every change of the Pod, its deletion and the re-creation of
\* its name included, reaches the PA that waits for it through the claim.
NoLostWakeup ==
    \A p \in PAs :
        /\ p \notin queued
        /\ At(p, "idle")
        /\ paSynced[p]
        /\ \A d \in Pods : podSynced[d]
        => pa[p].phase = "Disabled" /\ PodIsDisabled(p)
=============================================================================
