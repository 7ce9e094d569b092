------------------------------ MODULE SlotPorts ------------------------------
(***************************************************************************)
(* Which port of which NLB a slot of a pool gets, and what becomes of it    *)
(* when the spec of the pool is edited.  The slots are laid out on the NLBs *)
(* of a lane by arithmetic on the slot index; the PortAllocation (PA) of a  *)
(* slot remembers the ports in its status, but its NLB and the endpoints it *)
(* publishes are computed again from the spec of the day.                   *)
(*                                                                          *)
(* One lane stands for all: the lanes have NLBs of their own and the same   *)
(* ports.  Slots are never removed here, and the pool grows by as much as   *)
(* it likes: modules PAProvisioning and NLBPool have the whole of both, for *)
(* one PA and without ports.  Waiting for listeners to run, server groups   *)
(* and client tokens are left out.                                          *)
(***************************************************************************)
EXTENDS Integers

CONSTANTS
    Null,        \* no PA, nothing recorded
    NumPorts,    \* ports in the spec of the pool, never edited
    Specs,       \* the values of the other two fields, as [min, slotsPerNLB]
    PortBound,   \* bound: the highest port of a listener
    MaxSlots,    \* bound: how many slots the pool has
    MaxEdits,    \* bound: how often the spec is edited
    Settled      \* is the spec edited only while the pool is at rest?

ASSUME SlotPortsAssumption ==
    /\ NumPorts \in Nat \ {0}
    /\ Specs \subseteq [min : Nat, slotsPerNLB : Nat \ {0}]
    /\ PortBound \in Nat
    /\ \A sp \in Specs : sp.min + sp.slotsPerNLB * NumPorts - 1 <= PortBound
    /\ MaxSlots \in Nat
    /\ MaxEdits \in Nat
    /\ Settled \in BOOLEAN

VARIABLES
    spec,        \* the spec of the pool, as the cache of the manager has it
    pa,          \* the PA of each slot
    nlbs,        \* the groups whose NLB exists
    listener,    \* cloud: the PA and port served by each listener
    edits        \* how often the spec has been edited

vars == <<spec, pa, nlbs, listener, edits>>

Slots == 0..(MaxSlots - 1)
Ports == 0..(NumPorts - 1)

\* The NLB of a slot, and the port on it, by the current spec.
NLBGroup(s) == s \div spec.slotsPerNLB

\* A mistake: the slots of an NLB are laid out as if they had one port each.
MutantListenerPort(s, k) == spec.min + (s % spec.slotsPerNLB) + k

ListenerPort(s, k) == spec.min + (s % spec.slotsPerNLB) * NumPorts + k

NLBGroups == Slots
Addresses == NLBGroups \X (0..PortBound)

\* A listener is identified by its NLB and port, as its cloud id is.
PARecords == [phase : {"", "Provisioning", "Available"},
              ports : [Ports -> 0..PortBound \cup {Null}],
              ids : [Ports -> Addresses \cup {Null}],
              endpoints : [Ports -> Addresses \cup {Null}]]

ASSUME NullIsNothing ==
    Null \notin PARecords /\ Null \notin Slots \X Ports

Unset == [k \in Ports |-> Null]
NewPA == [phase |-> "", ports |-> Unset, ids |-> Unset, endpoints |-> Unset]

TypeOK ==
    /\ spec \in Specs
    /\ pa \in [Slots -> PARecords \cup {Null}]
    /\ nlbs \subseteq NLBGroups
    /\ listener \in [Addresses -> (Slots \X Ports) \cup {Null}]
    /\ edits \in 0..MaxEdits

Init ==
    /\ spec \in Specs
    /\ pa = [s \in Slots |-> Null]
    /\ nlbs = {}
    /\ listener = [a \in Addresses |-> Null]
    /\ edits = 0

\* ensureNLBsAndEIPs, as far as the NLB of a slot: a loop over the groups, several
\* of which may be in the making at a time.
EnsureNLB(s) ==
    /\ NLBGroup(s) \notin nlbs
    /\ nlbs' = nlbs \cup {NLBGroup(s)}
    /\ UNCHANGED <<spec, pa, listener, edits>>

\* One turn of the loop of ensureSlotResources, which passes over the PAs that it
\* finds.  A crash or a Create that fails ends the loop after any turn.
EnsureSlot(s) ==
    /\ pa[s] = Null
    /\ \A t \in 0..(s - 1) : pa[t] # Null
    /\ 0..NLBGroup(s) \subseteq nlbs
    /\ pa' = [pa EXCEPT ![s] = NewPA]
    /\ UNCHANGED <<spec, nlbs, listener, edits>>

\* Every NLB has all of its slots, or none, and every PA is in service.
AtRest ==
    \A s \in Slots : pa[s] # Null =>
        /\ pa[s].phase = "Available"
        /\ \A t \in Slots : NLBGroup(t) = NLBGroup(s) => pa[t] # Null

EditSpec ==
    /\ edits < MaxEdits
    /\ Settled => AtRest
    /\ spec' \in Specs \ {spec}
    /\ edits' = edits + 1
    /\ UNCHANGED <<pa, nlbs, listener>>

\* A mistake: the ports are counted from 1.
MutantInitStatus(s) ==
    /\ pa[s] # Null /\ pa[s].phase = ""
    /\ pa' = [pa EXCEPT ![s].phase = "Provisioning",
                        ![s].ports = [k \in Ports |-> ListenerPort(s, k + 1)]]
    /\ UNCHANGED <<spec, nlbs, listener, edits>>

InitStatus(s) ==
    /\ pa[s] # Null /\ pa[s].phase = ""
    /\ pa' = [pa EXCEPT ![s].phase = "Provisioning",
                        ![s].ports = [k \in Ports |-> ListenerPort(s, k)]]
    /\ UNCHANGED <<spec, nlbs, listener, edits>>

\* The NLB of the current spec, the port of the status.
Address(s, k) == <<NLBGroup(s), pa[s].ports[k]>>

Missing(s, k) ==
    /\ pa[s] # Null /\ pa[s].phase = "Provisioning"
    /\ pa[s].ids[k] = Null
    /\ NLBGroup(s) \in nlbs

Record(s, k) == pa' = [pa EXCEPT ![s].ids[k] = Address(s, k)]

\* The patch that records the id may fail after the listener is created.
CreateListener(s, k) ==
    /\ Missing(s, k)
    /\ listener[Address(s, k)] = Null
    /\ listener' = [listener EXCEPT ![Address(s, k)] = <<s, k>>]
    /\ Record(s, k) \/ UNCHANGED pa
    /\ UNCHANGED <<spec, nlbs, edits>>

\* On Conflict.Port the listener on that port is taken for the one that an earlier
\* attempt has created; its server group is not looked at.
AdoptListener(s, k) ==
    /\ Missing(s, k)
    /\ listener[Address(s, k)] # Null
    /\ Record(s, k)
    /\ UNCHANGED <<spec, nlbs, listener, edits>>

\* A mistake: the PA is promoted whether or not its listeners are there.
MutantPromote(s) ==
    /\ pa[s] # Null /\ pa[s].phase = "Provisioning"
    /\ NLBGroup(s) \in nlbs
    /\ pa' = [pa EXCEPT ![s].phase = "Available",
                ![s].endpoints = [k \in Ports |-> <<NLBGroup(s), ListenerPort(s, k)>>]]
    /\ UNCHANGED <<spec, nlbs, listener, edits>>

\* The endpoints are computed from the current spec, their ids come from the
\* status.
Promote(s) ==
    /\ pa[s] # Null /\ pa[s].phase = "Provisioning"
    /\ \A k \in Ports : pa[s].ids[k] # Null
    /\ NLBGroup(s) \in nlbs
    /\ pa' = [pa EXCEPT ![s].phase = "Available",
                ![s].endpoints = [k \in Ports |-> <<NLBGroup(s), ListenerPort(s, k)>>]]
    /\ UNCHANGED <<spec, nlbs, listener, edits>>

Next ==
    \/ \E s \in Slots : EnsureNLB(s) \/ EnsureSlot(s)
    \/ EditSpec
    \/ \E s \in Slots : InitStatus(s) \/ Promote(s)
    \/ \E s \in Slots, k \in Ports : CreateListener(s, k) \/ AdoptListener(s, k)

Spec == Init /\ [][Next]_vars

-----------------------------------------------------------------------------

\* The listener that a PA has recorded for one of its ports is its own: it is not
\* one that the layout has given to another slot, adopted because it was there.
OwnListener ==
    \A s \in Slots, k \in Ports :
        (pa[s] # Null /\ pa[s].ids[k] # Null)
            => listener[pa[s].ids[k]] = <<s, k>>

\* What an Available PA publishes is served: on the NLB and the port of each of
\* its endpoints there is a listener, and that listener leads to the PA.
EndpointsServed ==
    \A s \in Slots, k \in Ports :
        (pa[s] # Null /\ pa[s].phase = "Available")
            => listener[pa[s].endpoints[k]] = <<s, k>>

=============================================================================
