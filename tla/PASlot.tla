------------------------------- MODULE PASlot -------------------------------
(***************************************************************************)
(* What the two controllers promise each other about one slot of a pool.    *)
(*                                                                          *)
(* The PortAllocation (PA) controller promises the pool that a PA comes     *)
(* into service once and leaves only when it is deleted and, if it was in   *)
(* service, when none of its NLBs is live any more.  The pool promises the  *)
(* PA that it is created on live NLBs and that none is replaced under it.   *)
(*                                                                          *)
(* Modules PAProvisioning (one PA in detail) and NLBPool (every slot of a   *)
(* pool) implement it; each plays one side and assumes the other.           *)
(***************************************************************************)
CONSTANT Lanes     \* lanes of the pool, each with one NLB for the slot

VARIABLES
    slot,      \* "none", "new" (being provisioned) or "serving"
    deleting,  \* is the PA deleted, but not gone?
    live       \* the lanes whose NLB is there and not on its way out

vars == <<slot, deleting, live>>

Init == slot = "none" /\ ~deleting /\ live \in SUBSET Lanes

\* By the pool, or by a user.
Create ==
    /\ slot = "none"
    /\ live = Lanes
    /\ slot' = "new"
    /\ UNCHANGED <<deleting, live>>

Delete ==
    /\ slot # "none"
    /\ deleting' = TRUE
    /\ UNCHANGED <<slot, live>>

\* By the PA controller: the external endpoints are published.
Serve ==
    /\ slot = "new"
    /\ slot' = "serving"
    /\ UNCHANGED <<deleting, live>>

\* The PA object disappears: at once if it never was in service.
Leave ==
    /\ \/ slot = "new"
       \/ slot = "serving" /\ deleting /\ live = {}
    /\ slot' = "none"
    /\ deleting' = FALSE
    /\ UNCHANGED live

\* NLBs come and go.
Infrastructure ==
    /\ slot # "none" => live' \subseteq live
    /\ UNCHANGED <<slot, deleting>>

Next == Create \/ Delete \/ Serve \/ Leave \/ Infrastructure

Spec == Init /\ [][Next]_vars

-----------------------------------------------------------------------------
(* What the PA controller owes the pool.                                    *)

\* Once the NLBs are gone, a deleted PA goes: finalizers "only need to delete
\* SGs" then.
EventuallyLeaves == (deleting /\ live = {}) ~> slot = "none"
=============================================================================
