-------------------------- MODULE SlotPortsProofs --------------------------
(***************************************************************************)
(* The layout of the slots, for any number of slots, ports and values of    *)
(* the spec: ports never collide, a PA records its own listeners only, and  *)
(* it publishes what it is served by: provided that the number of slots on  *)
(* an NLB stays, and that the spec is edited only while the pool is at rest *)
(* (AtRest).  (TypeCorrect needs neither.)                                  *)
(*                                                                          *)
(* The slots of one NLB are created one by one.  As long as one of them is  *)
(* not in service, or not even created, the spec has not been edited since  *)
(* the first of them got its ports, and all that have ports have those of   *)
(* the current spec (LaidOut); so the ports that the next one computes are  *)
(* free (Distinct), a listener that is there already is its own, and the    *)
(* endpoints computed last agree with the ports that were computed first.   *)
(***************************************************************************)
EXTENDS SlotPorts, TLAPS

\* The number of slots on an NLB is the same in all values of the spec.
SameSlots == \A a, b \in Specs : a.slotsPerNLB = b.slotsPerNLB

-----------------------------------------------------------------------------
(* The inductive invariant.                                                 *)

Ported(s) == pa[s] # Null /\ pa[s].phase # ""

\* A PA that has a phase has its ports.
PortsInv ==
    \A s \in Slots : Ported(s) =>
        \A k \in Ports : pa[s].ports[k] \in 0..PortBound

\* Some slot on the NLB is not in service.
InProgress(n) ==
    \E t \in Slots : NLBGroup(t) = n /\ (pa[t] = Null \/ pa[t].phase # "Available")

LaidOut ==
    \A s \in Slots : Ported(s) /\ InProgress(NLBGroup(s)) =>
        \A k \in Ports : pa[s].ports[k] = ListenerPort(s, k)

\* Two ports of the same or of different slots are different addresses.
Distinct ==
    \A s, t \in Slots, k, j \in Ports :
        Ported(s) /\ Ported(t) /\ Address(s, k) = Address(t, j) => s = t /\ k = j

\* A listener is where its PA says that it is.
ListenersInv ==
    \A s \in Slots, k \in Ports, a \in Addresses :
        listener[a] = <<s, k>> => Ported(s) /\ a = Address(s, k)

\* What a PA has recorded, and what it publishes, is where it says.
RecordsInv ==
    \A s \in Slots, k \in Ports :
        /\ pa[s] # Null /\ pa[s].ids[k] # Null =>
             Ported(s) /\ pa[s].ids[k] = Address(s, k) /\ listener[Address(s, k)] = <<s, k>>
        /\ pa[s] # Null /\ pa[s].phase = "Available" =>
             pa[s].ids[k] # Null /\ pa[s].endpoints[k] = Address(s, k)

LayoutInv == LaidOut /\ Distinct
SlotsInv  == TypeOK /\ PortsInv /\ LayoutInv /\ ListenersInv /\ RecordsInv

-----------------------------------------------------------------------------
(* Arithmetic.                                                              *)

\* Division with remainder.
LEMMA DivMod ==
    ASSUME NEW s \in Nat, NEW n \in Nat \ {0}
    PROVE  /\ s = (s \div n) * n + (s % n)
           /\ s \div n \in 0..s
           /\ s % n \in 0..(n - 1)
<1>1. s = (s \div n) * n + (s % n) /\ s % n \in 0..(n - 1) /\ s \div n \in Int
  BY SMT
<1>2. s \div n >= 0 /\ s \div n <= s
  BY SMT
<1> QED  BY <1>1, <1>2

\* Multiples of P with a rest below P are in the order of the factors.
LEMMA Multiples ==
    ASSUME NEW a \in Nat, NEW b \in Nat, NEW P \in Nat \ {0}, a < b
    PROVE  a * P + P <= b * P
<1>1. a + 1 <= b
  OBVIOUS
<1>2. PICK d \in Nat : b = a + 1 + d
  <2>1. b - (a + 1) \in Nat /\ b = a + 1 + (b - (a + 1))
    BY <1>1
  <2> QED  BY <2>1
<1>3. b * P = a * P + P + d * P /\ d * P >= 0
  BY <1>2, SMT
<1> QED  BY <1>3, SMT

\* The rest and the factor follow from the sum.
LEMMA Digits ==
    ASSUME NEW a \in Nat, NEW b \in Nat, NEW P \in Nat \ {0},
           NEW k \in 0..(P - 1), NEW j \in 0..(P - 1), a * P + k = b * P + j
    PROVE  a = b /\ k = j
<1>0. a * P \in Nat /\ b * P \in Nat
  OBVIOUS
<1>1. ~(a < b)
  <2> SUFFICES ASSUME a < b PROVE FALSE  OBVIOUS
  <2>1. a * P + P <= b * P
    BY Multiples
  <2> QED  BY <1>0, <2>1
<1>2. ~(b < a)
  <2> SUFFICES ASSUME b < a PROVE FALSE  OBVIOUS
  <2>1. b * P + P <= a * P
    BY Multiples
  <2> QED  BY <1>0, <2>1
<1>3. a = b
  BY <1>1, <1>2
<1> QED  BY <1>0, <1>3

\* A slot is told by its NLB and its place on it.
LEMMA PlaceTellsSlot ==
    ASSUME NEW s \in Nat, NEW t \in Nat, NEW n \in Nat \ {0},
           s \div n = t \div n, s % n = t % n
    PROVE  s = t
<1>1. s = (s \div n) * n + (s % n) /\ t = (t \div n) * n + (t % n)
  BY DivMod
<1> QED  BY <1>1, Zenon

-----------------------------------------------------------------------------
(* The layout by the current spec.                                          *)

\* The current spec is within its bounds.
LEMMA SpecFacts ==
    ASSUME TypeOK
    PROVE  /\ spec.slotsPerNLB \in Nat \ {0} /\ spec.min \in Nat
           /\ NumPorts \in Nat \ {0} /\ PortBound \in Nat /\ MaxSlots \in Nat
           /\ spec.min + spec.slotsPerNLB * NumPorts - 1 <= PortBound
<1>1. spec \in Specs
  BY DEF TypeOK
<1> QED  BY <1>1, SlotPortsAssumption

\* Slots are numbers.
LEMMA SlotType == ASSUME NEW s \in Slots PROVE s \in Nat /\ s < MaxSlots
BY SlotPortsAssumption DEF Slots

\* The NLB of a slot is one of those that are modelled.
LEMMA GroupType ==
    ASSUME TypeOK, NEW s \in Slots
    PROVE  NLBGroup(s) \in NLBGroups
<1>1. s \div spec.slotsPerNLB \in 0..s
  BY SpecFacts, SlotType, DivMod
<1>2. s \div spec.slotsPerNLB \in Slots
  BY <1>1, SlotType, SpecFacts DEF Slots
<1> QED  BY <1>2 DEF NLBGroup, NLBGroups

\* The ports of a slot are within the bound.
LEMMA PortType ==
    ASSUME TypeOK, NEW s \in Slots, NEW k \in Ports
    PROVE  ListenerPort(s, k) \in 0..PortBound
<1> DEFINE n == spec.slotsPerNLB
           m == spec.min
           r == s % n
<1>1. /\ n \in Nat \ {0} /\ m \in Nat /\ NumPorts \in Nat \ {0} /\ PortBound \in Nat
      /\ m + n * NumPorts - 1 <= PortBound
  BY SpecFacts
<1>2. r \in 0..(n - 1)
  BY SpecFacts, SlotType, DivMod
<1>3. k \in 0..(NumPorts - 1)
  BY DEF Ports
<1>4. ListenerPort(s, k) = m + r * NumPorts + k
  BY DEF ListenerPort
<1> HIDE DEF n, m, r
<1>5. r * NumPorts + NumPorts <= n * NumPorts
  BY <1>1, <1>2, Multiples
<1>6. r * NumPorts \in Nat /\ n * NumPorts \in Nat
  BY <1>1, <1>2
<1>7. m + r * NumPorts + k \in 0..PortBound
  BY <1>1, <1>3, <1>5, <1>6
<1> QED  BY <1>4, <1>7

\* The current spec gives every port on an NLB to one slot only, once.
LEMMA FreshPorts ==
    ASSUME TypeOK, NEW s \in Slots, NEW t \in Slots, NEW k \in Ports, NEW j \in Ports,
           NLBGroup(s) = NLBGroup(t), ListenerPort(s, k) = ListenerPort(t, j)
    PROVE  s = t /\ k = j
<1> DEFINE n == spec.slotsPerNLB
           m == spec.min
           r == s % n
           q == t % n
<1>1. n \in Nat \ {0} /\ m \in Nat /\ NumPorts \in Nat \ {0}
  BY SpecFacts
<1>2. s \in Nat /\ t \in Nat /\ s \div n = t \div n
  BY SlotType DEF NLBGroup
<1>3. r \in 0..(n - 1) /\ q \in 0..(n - 1)
  BY <1>1, <1>2, DivMod
<1>4. k \in 0..(NumPorts - 1) /\ j \in 0..(NumPorts - 1)
  BY DEF Ports
<1>5. m + r * NumPorts + k = m + q * NumPorts + j
  BY DEF ListenerPort
<1>6. r = q /\ k = j
  <2> HIDE DEF n, m, r, q
  <2>1. r \in Nat /\ q \in Nat
    BY <1>1, <1>3
  <2>2. r * NumPorts \in Nat /\ q * NumPorts \in Nat
    BY <1>1, <2>1
  <2>3. r * NumPorts + k = q * NumPorts + j
    BY <1>1, <1>4, <1>5, <2>2
  <2> QED  BY <2>1, <2>3, <1>1, <1>4, Digits
<1>7. s = t
  BY <1>1, <1>2, <1>6, PlaceTellsSlot
<1> QED  BY <1>6, <1>7

-----------------------------------------------------------------------------
(* What the steps do to the PAs.                                            *)

\* Every other PA is left alone, this one keeps what is not named.
OnlyPA(s) == \A t \in Slots \ {s} : pa'[t] = pa[t]

Kept(s, fields) ==
    /\ "phase" \in fields => pa'[s].phase = pa[s].phase
    /\ "ports" \in fields => pa'[s].ports = pa[s].ports
    /\ "ids" \in fields => pa'[s].ids = pa[s].ids
    /\ "endpoints" \in fields => pa'[s].endpoints = pa[s].endpoints

\* A PA as the pool creates it: no phase, nothing recorded.
LEMMA NewPAType ==
    /\ NewPA \in PARecords /\ NewPA # Null
    /\ NewPA.phase = "" /\ \A k \in Ports : NewPA.ids[k] = Null
<1>1. Unset \in [Ports -> 0..PortBound \cup {Null}] /\ Unset \in [Ports -> Addresses \cup {Null}]
  BY DEF Unset
<1>2. NewPA \in PARecords
  BY <1>1 DEF NewPA, PARecords
<1>3. NewPA.phase = "" /\ \A k \in Ports : NewPA.ids[k] = Null
  BY DEF NewPA, Unset
<1> QED  BY <1>2, <1>3, NullIsNothing

\* The first reconcile of a PA fixes its ports.
LEMMA InitStatusStep ==
    ASSUME TypeOK, NEW s \in Slots, InitStatus(s)
    PROVE  /\ pa' \in [Slots -> PARecords \cup {Null}]
           /\ OnlyPA(s) /\ Kept(s, {"ids", "endpoints"})
           /\ pa'[s] # Null /\ pa'[s].phase = "Provisioning"
           /\ \A k \in Ports : pa'[s].ports[k] = ListenerPort(s, k)
<1> DEFINE ports == [k \in Ports |-> ListenerPort(s, k)]
<1>1. ports \in [Ports -> 0..PortBound \cup {Null}]
  BY PortType
<1>2. pa[s] \in PARecords
  BY DEF InitStatus, TypeOK
<1>3. /\ pa' = [pa EXCEPT ![s] = [pa[s] EXCEPT !.phase = "Provisioning", !.ports = ports]]
      /\ pa \in [Slots -> PARecords \cup {Null}]
  BY DEF InitStatus, TypeOK
<1>4. \A k \in Ports : ports[k] = ListenerPort(s, k)
  OBVIOUS
<1> HIDE DEF ports
<1>5. /\ [pa[s] EXCEPT !.phase = "Provisioning", !.ports = ports] \in PARecords
      /\ pa'[s] = [pa[s] EXCEPT !.phase = "Provisioning", !.ports = ports]
  BY <1>1, <1>2, <1>3 DEF PARecords
<1>6. pa' \in [Slots -> PARecords \cup {Null}] /\ OnlyPA(s)
  BY <1>3, <1>5 DEF OnlyPA
<1>7. Kept(s, {"ids", "endpoints"}) /\ pa'[s].phase = "Provisioning" /\ pa'[s].ports = ports
  BY <1>2, <1>5 DEF PARecords, Kept
<1>8. pa'[s] # Null
  BY <1>5, NullIsNothing
<1> QED  BY <1>4, <1>6, <1>7, <1>8

\* The promotion of a PA computes its endpoints.
LEMMA PromoteStep ==
    ASSUME TypeOK, NEW s \in Slots, Promote(s)
    PROVE  /\ pa' \in [Slots -> PARecords \cup {Null}]
           /\ OnlyPA(s) /\ Kept(s, {"ports", "ids"})
           /\ pa'[s] # Null /\ pa'[s].phase = "Available"
           /\ \A k \in Ports : pa'[s].endpoints[k] = <<NLBGroup(s), ListenerPort(s, k)>>
<1> DEFINE ends == [k \in Ports |-> <<NLBGroup(s), ListenerPort(s, k)>>]
<1>1. ends \in [Ports -> Addresses \cup {Null}]
  BY PortType, GroupType DEF Addresses
<1>2. pa[s] \in PARecords
  BY DEF Promote, TypeOK
<1>3. /\ pa' = [pa EXCEPT ![s] = [pa[s] EXCEPT !.phase = "Available", !.endpoints = ends]]
      /\ pa \in [Slots -> PARecords \cup {Null}]
  BY DEF Promote, TypeOK
<1>4. \A k \in Ports : ends[k] = <<NLBGroup(s), ListenerPort(s, k)>>
  OBVIOUS
<1> HIDE DEF ends
<1>5. /\ [pa[s] EXCEPT !.phase = "Available", !.endpoints = ends] \in PARecords
      /\ pa'[s] = [pa[s] EXCEPT !.phase = "Available", !.endpoints = ends]
  BY <1>1, <1>2, <1>3 DEF PARecords
<1>6. pa' \in [Slots -> PARecords \cup {Null}] /\ OnlyPA(s)
  BY <1>3, <1>5 DEF OnlyPA
<1>7. Kept(s, {"ports", "ids"}) /\ pa'[s].phase = "Available" /\ pa'[s].endpoints = ends
  BY <1>2, <1>5 DEF PARecords, Kept
<1>8. pa'[s] # Null
  BY <1>5, NullIsNothing
<1> QED  BY <1>4, <1>6, <1>7, <1>8

\* The NLB of the current spec has the port of the status.
LEMMA AddressType ==
    ASSUME TypeOK, PortsInv, NEW s \in Slots, NEW k \in Ports, Ported(s)
    PROVE  Address(s, k) \in Addresses
BY GroupType DEF PortsInv, Address, Addresses

\* Listeners are created only for a PA that has ports and is not in service.
LEMMA MissingIsPorted ==
    ASSUME NEW s \in Slots, NEW k \in Ports, Missing(s, k)
    PROVE  Ported(s) /\ pa[s].phase = "Provisioning"
BY DEF Missing, Ported

\* A patch records the id of one listener.
LEMMA RecordStep ==
    ASSUME TypeOK, PortsInv, NEW s \in Slots, NEW k \in Ports, Missing(s, k), Record(s, k)
    PROVE  /\ pa' \in [Slots -> PARecords \cup {Null}]
           /\ OnlyPA(s) /\ Kept(s, {"phase", "ports", "endpoints"})
           /\ pa'[s] # Null
           /\ \A j \in Ports : pa'[s].ids[j] = IF j = k THEN Address(s, k) ELSE pa[s].ids[j]
<1> DEFINE ids == [pa[s].ids EXCEPT ![k] = Address(s, k)]
<1>1. pa[s] \in PARecords /\ pa \in [Slots -> PARecords \cup {Null}]
  BY DEF Missing, TypeOK
<1>2. pa[s].ids \in [Ports -> Addresses \cup {Null}]
  BY <1>1 DEF PARecords
<1>3. /\ ids \in [Ports -> Addresses \cup {Null}]
      /\ \A j \in Ports : ids[j] = IF j = k THEN Address(s, k) ELSE pa[s].ids[j]
  BY <1>2, AddressType, MissingIsPorted
<1>4. pa' = [pa EXCEPT ![s] = [pa[s] EXCEPT !.ids = ids]]
  BY <1>1 DEF Record
<1> HIDE DEF ids
<1>5. [pa[s] EXCEPT !.ids = ids] \in PARecords /\ pa'[s] = [pa[s] EXCEPT !.ids = ids]
  BY <1>1, <1>3, <1>4 DEF PARecords
<1>6. pa' \in [Slots -> PARecords \cup {Null}] /\ OnlyPA(s)
  BY <1>1, <1>4, <1>5 DEF OnlyPA
<1>7. Kept(s, {"phase", "ports", "endpoints"}) /\ pa'[s].ids = ids
  BY <1>1, <1>5 DEF PARecords, Kept
<1>8. pa'[s] # Null
  BY <1>5, NullIsNothing
<1> QED  BY <1>3, <1>6, <1>7, <1>8

\* The pool creates one PA and touches no other.
LEMMA EnsureSlotStep ==
    ASSUME TypeOK, NEW s \in Slots, EnsureSlot(s)
    PROVE  /\ pa' \in [Slots -> PARecords \cup {Null}]
           /\ OnlyPA(s) /\ pa[s] = Null /\ pa'[s] = NewPA
           /\ \A t \in Slots : Ported(t) => t # s /\ pa'[t] = pa[t]
           /\ \A t \in Slots : Ported(t)' <=> Ported(t)
<1>1. /\ pa[s] = Null /\ pa' = [pa EXCEPT ![s] = NewPA]
      /\ pa \in [Slots -> PARecords \cup {Null}]
  BY DEF EnsureSlot, TypeOK
<1>2. pa' \in [Slots -> PARecords \cup {Null}] /\ OnlyPA(s) /\ pa'[s] = NewPA
  BY <1>1, NewPAType DEF OnlyPA
<1>3. \A t \in Slots : Ported(t) => t # s /\ pa'[t] = pa[t]
  BY <1>1, <1>2 DEF OnlyPA, Ported
<1>4. ~Ported(s)' /\ ~Ported(s)
  BY <1>1, <1>2, NewPAType DEF Ported
<1>5. \A t \in Slots : Ported(t)' <=> Ported(t)
  BY <1>2, <1>4 DEF OnlyPA, Ported
<1> QED  BY <1>1, <1>2, <1>3, <1>5

-----------------------------------------------------------------------------
(* Type correctness.                                                        *)

\* The initial states.
LEMMA TypeInit == Init => TypeOK /\ PortsInv
<1> SUFFICES ASSUME Init PROVE TypeOK /\ PortsInv  OBVIOUS
<1>1. pa \in [Slots -> PARecords \cup {Null}]
  BY DEF Init
<1>2. listener \in [Addresses -> (Slots \X Ports) \cup {Null}]
  BY DEF Init
<1>3. TypeOK
  BY <1>1, <1>2, SlotPortsAssumption DEF Init, TypeOK
<1>4. PortsInv
  BY DEF Init, PortsInv, Ported
<1> QED  BY <1>3, <1>4

\* Every step.
LEMMA TypeStep == TypeOK /\ PortsInv /\ [Next]_vars => (TypeOK /\ PortsInv)'
<1> SUFFICES ASSUME TypeOK, PortsInv, [Next]_vars PROVE (TypeOK /\ PortsInv)'  OBVIOUS
<1>0. ASSUME NEW s \in Slots, EnsureNLB(s) PROVE (TypeOK /\ PortsInv)'
  <2>1. nlbs' \subseteq NLBGroups
    BY <1>0, GroupType DEF EnsureNLB, TypeOK
  <2> QED  BY <1>0, <2>1 DEF EnsureNLB, TypeOK, PortsInv, Ported
<1>1. ASSUME NEW s \in Slots, EnsureSlot(s) PROVE (TypeOK /\ PortsInv)'
  <2>1. TypeOK'
    BY <1>1, EnsureSlotStep DEF EnsureSlot, TypeOK
  <2> QED  BY <2>1, <1>1, EnsureSlotStep DEF PortsInv
<1>2. CASE EditSpec
  <2>1. TypeOK'
    BY <1>2, SlotPortsAssumption DEF EditSpec, TypeOK
  <2> QED  BY <2>1, <1>2 DEF EditSpec, PortsInv, Ported
<1>3. ASSUME NEW s \in Slots, InitStatus(s) PROVE (TypeOK /\ PortsInv)'
  <2>1. TypeOK'
    BY <1>3, InitStatusStep DEF InitStatus, TypeOK
  <2>2. ASSUME NEW t \in Slots, Ported(t)', NEW k \in Ports
        PROVE  pa'[t].ports[k] \in 0..PortBound
    <3>1. CASE t = s
      BY <3>1, <1>3, InitStatusStep, PortType
    <3>2. CASE t # s
      BY <3>2, <2>2, <1>3, InitStatusStep DEF OnlyPA, Ported, PortsInv
    <3> QED  BY <3>1, <3>2
  <2> QED  BY <2>1, <2>2 DEF PortsInv
<1>4. ASSUME NEW s \in Slots, Promote(s) PROVE (TypeOK /\ PortsInv)'
  <2>1. TypeOK'
    BY <1>4, PromoteStep DEF Promote, TypeOK
  <2>2. Ported(s) /\ pa'[s].ports = pa[s].ports
    BY <1>4, PromoteStep DEF Kept, Promote, Ported
  <2>3. ASSUME NEW t \in Slots, Ported(t)' PROVE Ported(t) /\ pa'[t].ports = pa[t].ports
    BY <2>2, <2>3, <1>4, PromoteStep DEF OnlyPA, Ported
  <2> QED  BY <2>1, <2>3 DEF PortsInv
<1>5. ASSUME NEW s \in Slots, NEW k \in Ports, Missing(s, k), Record(s, k)
      PROVE  pa' \in [Slots -> PARecords \cup {Null}] /\ PortsInv'
  <2>1. Ported(s) /\ pa'[s].ports = pa[s].ports
    BY <1>5, MissingIsPorted, RecordStep DEF Kept
  <2>2. ASSUME NEW t \in Slots, Ported(t)' PROVE Ported(t) /\ pa'[t].ports = pa[t].ports
    BY <2>1, <2>2, <1>5, RecordStep DEF OnlyPA, Ported
  <2> QED  BY <2>2, <1>5, RecordStep DEF PortsInv
<1>6. ASSUME NEW s \in Slots, NEW k \in Ports, CreateListener(s, k)
      PROVE  (TypeOK /\ PortsInv)'
  <2>1. Missing(s, k) /\ (Record(s, k) \/ pa' = pa)
    BY <1>6 DEF CreateListener
  <2>2. pa' \in [Slots -> PARecords \cup {Null}] /\ PortsInv'
    BY <2>1, <1>5 DEF TypeOK, PortsInv, Ported
  <2>3. listener' \in [Addresses -> (Slots \X Ports) \cup {Null}]
    BY <1>6 DEF CreateListener, TypeOK
  <2> QED  BY <2>2, <2>3, <1>6 DEF CreateListener, TypeOK
<1>7. ASSUME NEW s \in Slots, NEW k \in Ports, AdoptListener(s, k)
      PROVE  (TypeOK /\ PortsInv)'
  <2>1. Missing(s, k) /\ Record(s, k)
    BY <1>7 DEF AdoptListener
  <2> QED  BY <2>1, <1>5, <1>7 DEF AdoptListener, TypeOK
<1>8. CASE UNCHANGED vars
  BY <1>8 DEF vars, TypeOK, PortsInv, Ported
<1> QED  BY <1>0, <1>1, <1>2, <1>3, <1>4, <1>6, <1>7, <1>8 DEF Next

(* Every slot gets an NLB and ports within the bounds, its PA records and        *)
(* publishes addresses only (Reconcile 107-149, handleProvisioning 510-752).     *)
THEOREM TypeCorrect == Spec => []TypeOK
<1>1. TypeOK /\ PortsInv => TypeOK
  OBVIOUS
<1> QED  BY TypeInit, TypeStep, <1>1, PTL DEF Spec

-----------------------------------------------------------------------------
(* The layout.                                                              *)

\* The NLB and the ports of a slot depend on the spec only.
LEMMA SameSpec ==
    ASSUME spec' = spec
    PROVE  /\ \A s \in Slots : NLBGroup(s)' = NLBGroup(s)
           /\ \A s \in Slots, k \in Ports : ListenerPort(s, k)' = ListenerPort(s, k)
BY DEF NLBGroup, ListenerPort

\* The address of a listener depends on the NLB of the slot and its recorded ports.
LEMMA AddressKept ==
    ASSUME NEW s \in Slots, NLBGroup(s)' = NLBGroup(s), pa'[s].ports = pa[s].ports,
           NEW k \in Ports
    PROVE  Address(s, k)' = Address(s, k)
BY DEF Address

\* A step that gives nobody ports keeps the layout.
LEMMA LayoutKept ==
    ASSUME LayoutInv, spec' = spec,
           \A t \in Slots :
              /\ Ported(t)' <=> Ported(t)
              /\ Ported(t) => pa'[t].ports = pa[t].ports
              /\ pa[t] # Null /\ pa[t].phase = "Available"
                   => pa'[t] # Null /\ pa'[t].phase = "Available"
    PROVE  LayoutInv'
<1>1. LaidOut'
  <2> SUFFICES ASSUME NEW s \in Slots, Ported(s)', InProgress(NLBGroup(s))', NEW k \in Ports
               PROVE  pa'[s].ports[k] = ListenerPort(s, k)'
    BY DEF LaidOut
  <2>1. PICK t \in Slots : /\ NLBGroup(t)' = NLBGroup(s)'
                           /\ pa'[t] = Null \/ pa'[t].phase # "Available"
    BY DEF InProgress
  <2>2. NLBGroup(t) = NLBGroup(s)
    BY <2>1, SameSpec
  <2>3. pa[t] = Null \/ pa[t].phase # "Available"
    BY <2>1
  <2>4. InProgress(NLBGroup(s)) /\ Ported(s)
    BY <2>2, <2>3 DEF InProgress
  <2>5. pa[s].ports[k] = ListenerPort(s, k)
    BY <2>4 DEF LayoutInv, LaidOut
  <2> QED  BY <2>4, <2>5, SameSpec
<1>2. Distinct'
  <2> SUFFICES ASSUME NEW s \in Slots, NEW t \in Slots, NEW k \in Ports, NEW j \in Ports,
                      Ported(s)', Ported(t)', Address(s, k)' = Address(t, j)'
               PROVE  s = t /\ k = j
    BY DEF Distinct
  <2>1. Address(s, k) = Address(t, j)
    BY SameSpec, AddressKept
  <2> QED  BY <2>1 DEF LayoutInv, Distinct
<1> QED  BY <1>1, <1>2 DEF LayoutInv

\* The ports that a PA computes are free: those of its neighbours come from the
\* same spec.
LEMMA InitStatusLayout ==
    ASSUME TypeOK, PortsInv, LayoutInv, NEW s \in Slots, InitStatus(s)
    PROVE  LayoutInv'
<1>0. /\ spec' = spec /\ pa[s] # Null /\ pa[s].phase = ""
      /\ InProgress(NLBGroup(s)) /\ ~Ported(s)
  BY DEF InitStatus, InProgress, Ported
<1>1. ASSUME NEW t \in Slots
      PROVE  /\ pa'[t] = Null <=> pa[t] = Null
             /\ Ported(t)' <=> Ported(t) \/ t = s
             /\ t # s => pa'[t] = pa[t]
  BY <1>0, InitStatusStep DEF OnlyPA, Ported
\* The neighbours of s have the ports of the current spec.
<1>3. ASSUME NEW t \in Slots, Ported(t)', NLBGroup(t) = NLBGroup(s), NEW k \in Ports
      PROVE  pa'[t].ports[k] = ListenerPort(t, k)
  <2>1. CASE t = s
    BY <2>1, InitStatusStep
  <2>2. CASE t # s
    BY <2>2, <1>0, <1>1, <1>3 DEF LayoutInv, LaidOut
  <2> QED  BY <2>1, <2>2
<1>4. LaidOut'
  <2> SUFFICES ASSUME NEW t \in Slots, Ported(t)', InProgress(NLBGroup(t))', NEW k \in Ports
               PROVE  pa'[t].ports[k] = ListenerPort(t, k)'
    BY DEF LaidOut
  <2>1. CASE NLBGroup(t) = NLBGroup(s)
    BY <2>1, <1>0, <1>3, SameSpec
  <2>2. CASE NLBGroup(t) # NLBGroup(s)
    <3>1. PICK u \in Slots : /\ NLBGroup(u)' = NLBGroup(t)'
                             /\ pa'[u] = Null \/ pa'[u].phase # "Available"
      BY DEF InProgress
    <3>2. NLBGroup(u) = NLBGroup(t) /\ u # s /\ t # s
      BY <3>1, <2>2, <1>0, SameSpec
    <3>3. InProgress(NLBGroup(t)) /\ Ported(t) /\ pa'[t] = pa[t]
      BY <3>1, <3>2, <1>1 DEF InProgress
    <3>4. pa[t].ports[k] = ListenerPort(t, k)
      BY <3>3 DEF LayoutInv, LaidOut
    <3> QED  BY <3>3, <3>4, <1>0, SameSpec
  <2> QED  BY <2>1, <2>2
<1>5. Distinct'
  <2> SUFFICES ASSUME NEW t \in Slots, NEW u \in Slots, NEW k \in Ports, NEW j \in Ports,
                      Ported(t)', Ported(u)', Address(t, k)' = Address(u, j)'
               PROVE  t = u /\ k = j
    BY DEF Distinct
  <2>1. NLBGroup(t) = NLBGroup(u) /\ pa'[t].ports[k] = pa'[u].ports[j]
    BY <1>0, SameSpec DEF Address
  <2>2. CASE NLBGroup(t) = NLBGroup(s)
    <3>1. ListenerPort(t, k) = ListenerPort(u, j)
      BY <2>1, <2>2, <1>3
    <3> QED  BY <3>1, <2>1, FreshPorts
  <2>3. CASE NLBGroup(t) # NLBGroup(s)
    <3>1. /\ Ported(t) /\ pa'[t] = pa[t]
          /\ Ported(u) /\ pa'[u] = pa[u]
      BY <2>1, <2>3, <1>1
    <3>2. Address(t, k) = Address(u, j)
      BY <3>1, <2>1 DEF Address
    <3> QED  BY <3>1, <3>2 DEF LayoutInv, Distinct
  <2> QED  BY <2>2, <2>3
<1> QED  BY <1>4, <1>5 DEF LayoutInv

\* An edit finds the pool at rest.
LEMMA EditLayout ==
    ASSUME TypeOK, LayoutInv, SameSlots, Settled = TRUE, EditSpec
    PROVE  /\ LayoutInv'
           /\ \A s \in Slots : Ported(s)' <=> Ported(s)
           /\ \A s \in Slots, k \in Ports : Address(s, k)' = Address(s, k)
<1>0. pa' = pa /\ AtRest
  BY DEF EditSpec
<1>1. \A s \in Slots : NLBGroup(s)' = NLBGroup(s)
  <2>1. spec'.slotsPerNLB = spec.slotsPerNLB
    BY DEF EditSpec, TypeOK, SameSlots
  <2> QED  BY <2>1 DEF NLBGroup
<1>2. /\ \A s \in Slots : Ported(s)' <=> Ported(s)
      /\ \A s \in Slots, k \in Ports : Address(s, k)' = Address(s, k)
  BY <1>0, <1>1 DEF Ported, Address
<1>3. Distinct'
  BY <1>0, <1>1, <1>2 DEF LayoutInv, Distinct
<1>4. LaidOut'
  <2> SUFFICES ASSUME NEW s \in Slots, Ported(s)', InProgress(NLBGroup(s))' PROVE FALSE
    BY DEF LaidOut
  <2>1. PICK t \in Slots : /\ NLBGroup(t)' = NLBGroup(s)'
                           /\ pa[t] = Null \/ pa[t].phase # "Available"
    BY <1>0 DEF InProgress
  <2>2. pa[s] # Null /\ NLBGroup(t) = NLBGroup(s)
    BY <1>0, <1>1, <2>1 DEF Ported
  <2>3. pa[t] # Null
    BY <1>0, <2>2 DEF AtRest
  <2> QED  BY <1>0, <2>1, <2>3 DEF AtRest
<1> QED  BY <1>2, <1>3, <1>4 DEF LayoutInv

-----------------------------------------------------------------------------
(* Listeners, and what the PAs know of them.                                *)

\* A step that keeps listeners, addresses and what is recorded.
LEMMA ListenersKept ==
    ASSUME ListenersInv, listener' = listener,
           \A t \in Slots : Ported(t) =>
              Ported(t)' /\ \A k \in Ports : Address(t, k)' = Address(t, k)
    PROVE  ListenersInv'
BY DEF ListenersInv

\* A step that changes no listener, and no id or endpoint except of new PAs.
LEMMA RecordsKept ==
    ASSUME RecordsInv, listener' = listener,
           \A t \in Slots : Ported(t) =>
              Ported(t)' /\ \A k \in Ports : Address(t, k)' = Address(t, k),
           \A t \in Slots : pa'[t] # Null =>
              \/ pa'[t] = NewPA
              \/ pa[t] # Null /\ pa'[t].phase = pa[t].phase
                   /\ pa'[t].ids = pa[t].ids /\ pa'[t].endpoints = pa[t].endpoints
              \/ pa[t] # Null /\ pa'[t].phase = "Provisioning" /\ pa'[t].ids = pa[t].ids
    PROVE  RecordsInv'
<1> SUFFICES ASSUME NEW t \in Slots, NEW k \in Ports, pa'[t] # Null
             PROVE  /\ pa'[t].ids[k] # Null =>
                         /\ Ported(t)' /\ pa'[t].ids[k] = Address(t, k)'
                         /\ listener'[Address(t, k)'] = <<t, k>>
                    /\ pa'[t].phase = "Available" =>
                         pa'[t].ids[k] # Null /\ pa'[t].endpoints[k] = Address(t, k)'
  BY DEF RecordsInv
<1>1. CASE pa'[t] = NewPA
  BY <1>1, NewPAType
<1>2. CASE pa[t] # Null /\ pa'[t].ids = pa[t].ids
  <2>1. pa'[t].ids[k] # Null =>
          /\ Ported(t)' /\ pa'[t].ids[k] = Address(t, k)'
          /\ listener'[Address(t, k)'] = <<t, k>>
    BY <1>2 DEF RecordsInv
  <2>2. ASSUME pa'[t].phase = "Available"
        PROVE  pa'[t].ids[k] # Null /\ pa'[t].endpoints[k] = Address(t, k)'
    <3>1. pa'[t] # NewPA /\ pa'[t].phase # "Provisioning"
      BY <2>2, NewPAType
    <3>2. pa[t].phase = "Available" /\ pa'[t].endpoints = pa[t].endpoints
      BY <2>2, <3>1
    <3>3. Ported(t)
      BY <1>2, <3>2 DEF Ported
    <3> QED  BY <1>2, <3>2, <3>3 DEF RecordsInv
  <2> QED  BY <2>1, <2>2
<1> QED  BY <1>1, <1>2

\* The endpoints are published when all listeners are recorded; the port of the
\* current spec is still that of the status.
LEMMA PromoteRecords ==
    ASSUME TypeOK, LayoutInv, ListenersInv, RecordsInv, NEW s \in Slots, Promote(s)
    PROVE  LayoutInv' /\ ListenersInv' /\ RecordsInv'
<1>0. /\ spec' = spec /\ listener' = listener
      /\ pa[s] # Null /\ pa[s].phase = "Provisioning" /\ Ported(s)
      /\ \A k \in Ports : pa[s].ids[k] # Null
      /\ InProgress(NLBGroup(s))
  BY DEF Promote, Ported, InProgress
<1>1. /\ pa'[s] # Null /\ pa'[s].phase = "Available" /\ Ported(s)'
      /\ pa'[s].ports = pa[s].ports /\ pa'[s].ids = pa[s].ids
  BY PromoteStep DEF Kept, Ported
<1>2. ASSUME NEW t \in Slots, t # s PROVE pa'[t] = pa[t] /\ (Ported(t)' <=> Ported(t))
  BY <1>2, PromoteStep DEF OnlyPA, Ported
<1>3. ASSUME NEW t \in Slots PROVE /\ pa'[t] = Null <=> pa[t] = Null
                                   /\ Ported(t)' <=> Ported(t)
                                   /\ pa'[t].ports = pa[t].ports
                                   /\ pa'[t].ids = pa[t].ids
  BY <1>0, <1>1, <1>2
<1>4. LayoutInv'
  BY <1>0, <1>1, <1>2, <1>3, LayoutKept
<1>5. \A t \in Slots, k \in Ports : Address(t, k)' = Address(t, k)
  BY <1>0, <1>3, SameSpec, AddressKept
<1>6. ListenersInv'
  BY <1>0, <1>3, <1>5, ListenersKept
<1>7. \A k \in Ports : pa'[s].endpoints[k] = Address(s, k)
  BY <1>0, PromoteStep DEF LayoutInv, LaidOut, Address
<1>8. RecordsInv'
  <2> SUFFICES ASSUME NEW t \in Slots, NEW k \in Ports, pa'[t] # Null
               PROVE  /\ pa'[t].ids[k] # Null =>
                           /\ Ported(t)' /\ pa'[t].ids[k] = Address(t, k)'
                           /\ listener'[Address(t, k)'] = <<t, k>>
                      /\ pa'[t].phase = "Available" =>
                           pa'[t].ids[k] # Null /\ pa'[t].endpoints[k] = Address(t, k)'
    BY DEF RecordsInv
  <2>1. CASE t = s
    BY <2>1, <1>0, <1>1, <1>5, <1>7 DEF RecordsInv
  <2>2. CASE t # s
    BY <2>2, <1>0, <1>2, <1>5 DEF RecordsInv
  <2> QED  BY <2>1, <2>2
<1> QED  BY <1>4, <1>6, <1>8

\* Recording the address at which there is a listener of one's own.
LEMMA RecordRecords ==
    ASSUME TypeOK, PortsInv, LayoutInv, RecordsInv, NEW s \in Slots, NEW k \in Ports,
           Missing(s, k), Record(s, k), spec' = spec,
           \A a \in Addresses : listener[a] # Null => listener'[a] = listener[a],
           listener'[Address(s, k)] = <<s, k>>
    PROVE  LayoutInv' /\ RecordsInv' /\ \A t \in Slots : Ported(t)' <=> Ported(t)
<1>0. Ported(s) /\ pa[s] # Null /\ pa[s].phase = "Provisioning"
  BY MissingIsPorted DEF Ported
<1>1. ASSUME NEW t \in Slots
      PROVE  /\ pa'[t] = Null <=> pa[t] = Null
             /\ t # s => pa'[t] = pa[t]
             /\ pa'[t].phase = pa[t].phase /\ pa'[t].ports = pa[t].ports
             /\ pa'[t].endpoints = pa[t].endpoints
  BY <1>0, RecordStep DEF OnlyPA, Kept
<1>2. \A t \in Slots : Ported(t)' <=> Ported(t)
  BY <1>1 DEF Ported
<1>3. LayoutInv'
  BY <1>1, <1>2, LayoutKept
<1>4. \A t \in Slots, j \in Ports : Address(t, j)' = Address(t, j)
  BY <1>1, SameSpec, AddressKept
<1>5. RecordsInv'
  <2> SUFFICES ASSUME NEW t \in Slots, NEW j \in Ports, pa'[t] # Null
               PROVE  /\ pa'[t].ids[j] # Null =>
                           /\ Ported(t)' /\ pa'[t].ids[j] = Address(t, j)'
                           /\ listener'[Address(t, j)'] = <<t, j>>
                      /\ pa'[t].phase = "Available" =>
                           pa'[t].ids[j] # Null /\ pa'[t].endpoints[j] = Address(t, j)'
    BY DEF RecordsInv
  <2>1. CASE t = s /\ j = k
    BY <2>1, <1>0, <1>1, <1>2, <1>4, RecordStep
  <2>2. CASE ~(t = s /\ j = k)
    <3>1. pa'[t].ids[j] = pa[t].ids[j] /\ pa[t] # Null
      BY <2>2, <1>1, RecordStep
    <3>2. ASSUME pa[t].ids[j] # Null PROVE listener'[Address(t, j)] = <<t, j>>
      <4>1. Ported(t) /\ listener[Address(t, j)] = <<t, j>>
        BY <3>1, <3>2 DEF RecordsInv
      <4>2. Address(t, j) \in Addresses /\ <<t, j>> # Null
        BY <4>1, AddressType, NullIsNothing
      <4> QED  BY <4>1, <4>2
    <3> QED  BY <3>1, <3>2, <1>1, <1>2, <1>4 DEF RecordsInv
  <2> QED  BY <2>1, <2>2
<1> QED  BY <1>2, <1>3, <1>5

\* CreateListener, and the adoption on Conflict.Port: the listener is the slot's own.
LEMMA CreateListenerStep ==
    ASSUME SlotsInv, NEW s \in Slots, NEW k \in Ports, CreateListener(s, k)
    PROVE  LayoutInv' /\ ListenersInv' /\ RecordsInv'
<1>0. /\ Missing(s, k) /\ Ported(s) /\ spec' = spec
      /\ listener[Address(s, k)] = Null
      /\ listener' = [listener EXCEPT ![Address(s, k)] = <<s, k>>]
      /\ TypeOK /\ PortsInv /\ LayoutInv /\ ListenersInv /\ RecordsInv
  BY MissingIsPorted DEF CreateListener, SlotsInv
<1>1. Address(s, k) \in Addresses
  BY <1>0, AddressType
<1>2. ASSUME NEW a \in Addresses
      PROVE  listener'[a] = IF a = Address(s, k) THEN <<s, k>> ELSE listener[a]
  BY <1>0, <1>1 DEF TypeOK
<1>3. ASSUME NEW t \in Slots, NEW j \in Ports PROVE <<t, j>> # Null
  BY NullIsNothing
<1>4. /\ LayoutInv' /\ RecordsInv'
      /\ \A t \in Slots : (Ported(t)' <=> Ported(t)) /\ (Ported(t) => pa'[t].ports = pa[t].ports)
  <2>1. CASE Record(s, k)
    <3>1. LayoutInv' /\ RecordsInv' /\ \A t \in Slots : Ported(t)' <=> Ported(t)
      BY <2>1, <1>0, <1>1, <1>2, RecordRecords
    <3>2. \A t \in Slots : pa'[t].ports = pa[t].ports
      BY <2>1, <1>0, RecordStep DEF OnlyPA, Kept
    <3> QED  BY <3>1, <3>2
  <2>2. CASE pa' = pa
    <3>1. \A t \in Slots : Ported(t)' <=> Ported(t)
      BY <2>2 DEF Ported
    <3>2. LayoutInv'
      BY <2>2, <3>1, <1>0, LayoutKept
    <3>3. \A t \in Slots, j \in Ports : Address(t, j)' = Address(t, j)
      BY <2>2, <1>0, SameSpec, AddressKept
    <3>4. ASSUME NEW t \in Slots, NEW j \in Ports, Ported(t),
                 listener[Address(t, j)] = <<t, j>>
          PROVE  listener'[Address(t, j)] = <<t, j>>
      <4>1. Address(t, j) \in Addresses /\ Address(t, j) # Address(s, k)
        BY <3>4, <1>0, <1>3, AddressType
      <4> QED  BY <4>1, <3>4, <1>2
    <3>5. RecordsInv'
      BY <2>2, <3>1, <3>3, <3>4, <1>0 DEF RecordsInv
    <3> QED  BY <2>2, <3>1, <3>2, <3>5
  <2> QED  BY <2>1, <2>2, <1>0 DEF CreateListener
<1>5. \A t \in Slots, j \in Ports : Ported(t) => Address(t, j)' = Address(t, j)
  BY <1>0, <1>4, SameSpec, AddressKept
<1>6. ListenersInv'
  <2> SUFFICES ASSUME NEW t \in Slots, NEW j \in Ports, NEW a \in Addresses,
                      listener'[a] = <<t, j>>
               PROVE  Ported(t)' /\ a = Address(t, j)'
    BY DEF ListenersInv
  <2>1. CASE a = Address(s, k)
    <3>1. t = s /\ j = k
      BY <2>1, <1>2
    <3> QED  BY <3>1, <2>1, <1>0, <1>4, <1>5
  <2>2. CASE a # Address(s, k)
    <3>1. Ported(t) /\ a = Address(t, j)
      BY <2>2, <1>0, <1>2 DEF ListenersInv
    <3> QED  BY <3>1, <1>4, <1>5
  <2> QED  BY <2>1, <2>2
<1> QED  BY <1>4, <1>6

\* The listener that is there is the PA's own: nobody else computes its address.
LEMMA AdoptListenerStep ==
    ASSUME SlotsInv, NEW s \in Slots, NEW k \in Ports, AdoptListener(s, k)
    PROVE  LayoutInv' /\ ListenersInv' /\ RecordsInv'
<1>0. /\ Missing(s, k) /\ Record(s, k) /\ Ported(s) /\ spec' = spec
      /\ listener[Address(s, k)] # Null /\ listener' = listener
      /\ TypeOK /\ PortsInv /\ LayoutInv /\ ListenersInv /\ RecordsInv
  BY MissingIsPorted DEF AdoptListener, SlotsInv
<1>1. Address(s, k) \in Addresses
  BY <1>0, AddressType
<1>2. PICK t \in Slots, j \in Ports : listener[Address(s, k)] = <<t, j>>
  BY <1>0, <1>1 DEF TypeOK
<1>3. Ported(t) /\ Address(s, k) = Address(t, j)
  BY <1>0, <1>1, <1>2 DEF ListenersInv
<1>4. t = s /\ j = k
  BY <1>0, <1>3 DEF LayoutInv, Distinct
<1>5. LayoutInv' /\ RecordsInv' /\ \A u \in Slots : Ported(u)' <=> Ported(u)
  BY <1>0, <1>2, <1>4, RecordRecords
<1>6. \A u \in Slots, i \in Ports : Address(u, i)' = Address(u, i)
  <2>1. \A u \in Slots : pa'[u].ports = pa[u].ports
    BY <1>0, RecordStep DEF OnlyPA, Kept
  <2> QED  BY <2>1, <1>0, SameSpec, AddressKept
<1>7. ListenersInv'
  BY <1>0, <1>5, <1>6, ListenersKept
<1> QED  BY <1>5, <1>7

-----------------------------------------------------------------------------
(* The invariant, and what it is for.                                       *)

\* The initial states.
LEMMA SlotsInit == Init => SlotsInv
<1> SUFFICES ASSUME Init PROVE SlotsInv  OBVIOUS
<1>1. \A s \in Slots : pa[s] = Null
  BY DEF Init
<1>2. LayoutInv /\ RecordsInv
  BY <1>1 DEF LayoutInv, LaidOut, Distinct, RecordsInv, Ported
<1>3. ListenersInv
  <2>1. \A a \in Addresses : listener[a] = Null
    BY DEF Init
  <2>2. \A s \in Slots, k \in Ports : <<s, k>> # Null
    BY NullIsNothing
  <2> QED  BY <2>1, <2>2 DEF ListenersInv
<1> QED  BY <1>2, <1>3, TypeInit DEF SlotsInv

\* Every step, where slotsPerNLB stays and the spec is edited only when the pool is at rest.
LEMMA SlotsStep ==
    ASSUME SameSlots, Settled = TRUE
    PROVE  SlotsInv /\ [Next]_vars => SlotsInv'
<1> SUFFICES ASSUME SlotsInv, [Next]_vars PROVE SlotsInv'  OBVIOUS
<1>0. TypeOK /\ PortsInv /\ LayoutInv /\ ListenersInv /\ RecordsInv
  BY DEF SlotsInv
<1>1. TypeOK' /\ PortsInv'
  BY <1>0, TypeStep
<1> SUFFICES LayoutInv' /\ ListenersInv' /\ RecordsInv'
  BY <1>1 DEF SlotsInv
<1>2. ASSUME NEW s \in Slots, EnsureSlot(s) PROVE LayoutInv' /\ ListenersInv' /\ RecordsInv'
  <2>0. spec' = spec /\ listener' = listener
    BY <1>2 DEF EnsureSlot
  <2>1. \A t \in Slots : Ported(t) => Ported(t)' /\ pa'[t].ports = pa[t].ports
    BY <1>0, <1>2, EnsureSlotStep
  <2>2. \A t \in Slots : Ported(t) =>
           Ported(t)' /\ \A k \in Ports : Address(t, k)' = Address(t, k)
    BY <2>0, <2>1, SameSpec, AddressKept
  <2>3. \A t \in Slots : (pa'[t] = NewPA /\ pa[t] = Null) \/ pa'[t] = pa[t]
    <3>1. /\ pa[s] = Null /\ pa'[s] = NewPA
          /\ \A t \in Slots \ {s} : pa'[t] = pa[t]
      BY <1>0, <1>2, EnsureSlotStep DEF OnlyPA
    <3> QED  BY <3>1
  <2>4. ListenersInv'
    BY <1>0, <2>0, <2>2, ListenersKept
  <2>5. RecordsInv'
    BY <1>0, <2>0, <2>2, <2>3, RecordsKept
  <2>6. LayoutInv'
    BY <1>0, <1>2, <2>0, <2>1, <2>3, EnsureSlotStep, LayoutKept
  <2> QED  BY <2>4, <2>5, <2>6
<1>3. CASE EditSpec
  <2>0. pa' = pa /\ listener' = listener
    BY <1>3 DEF EditSpec
  <2>1. /\ LayoutInv'
        /\ \A s \in Slots : Ported(s)' <=> Ported(s)
        /\ \A s \in Slots, k \in Ports : Address(s, k)' = Address(s, k)
    BY <1>0, <1>3, EditLayout
  <2>2. ListenersInv'
    BY <1>0, <2>0, <2>1, ListenersKept
  <2>3. RecordsInv'
    BY <1>0, <2>0, <2>1, RecordsKept
  <2> QED  BY <2>1, <2>2, <2>3
<1>4. ASSUME NEW s \in Slots, InitStatus(s) PROVE LayoutInv' /\ ListenersInv' /\ RecordsInv'
  <2>0. spec' = spec /\ listener' = listener /\ pa[s] # Null /\ ~Ported(s)
    BY <1>4 DEF InitStatus, Ported
  <2>1. ASSUME NEW t \in Slots, Ported(t)
        PROVE  Ported(t)' /\ \A k \in Ports : Address(t, k)' = Address(t, k)
    <3>1. t # s
      BY <2>0, <2>1
    <3>2. pa'[t] = pa[t]
      BY <3>1, <1>0, <1>4, InitStatusStep DEF OnlyPA
    <3> QED  BY <3>2, <2>0, <2>1, SameSpec, AddressKept DEF Ported
  <2>2. ListenersInv'
    BY <1>0, <2>0, <2>1, ListenersKept
  <2>3. ASSUME NEW t \in Slots, pa'[t] # Null
        PROVE  \/ pa[t] # Null /\ pa'[t] = pa[t]
               \/ pa[t] # Null /\ pa'[t].phase = "Provisioning" /\ pa'[t].ids = pa[t].ids
    BY <2>0, <2>3, <1>0, <1>4, InitStatusStep DEF OnlyPA, Kept
  <2>4. RecordsInv'
    BY <1>0, <2>0, <2>1, <2>3, RecordsKept
  <2> QED  BY <1>0, <1>4, <2>2, <2>4, InitStatusLayout
<1>5. ASSUME NEW s \in Slots, Promote(s) PROVE LayoutInv' /\ ListenersInv' /\ RecordsInv'
  BY <1>0, <1>5, PromoteRecords
<1>6. ASSUME NEW s \in Slots, NEW k \in Ports, CreateListener(s, k)
      PROVE  LayoutInv' /\ ListenersInv' /\ RecordsInv'
  BY <1>6, CreateListenerStep
<1>7. ASSUME NEW s \in Slots, NEW k \in Ports, AdoptListener(s, k)
      PROVE  LayoutInv' /\ ListenersInv' /\ RecordsInv'
  BY <1>7, AdoptListenerStep
<1>8. CASE UNCHANGED vars \/ \E s \in Slots : EnsureNLB(s)
  <2>0. spec' = spec /\ pa' = pa /\ listener' = listener
    BY <1>8 DEF vars, EnsureNLB
  <2>1. \A t \in Slots : Ported(t)' <=> Ported(t)
    BY <2>0 DEF Ported
  <2>2. \A t \in Slots, k \in Ports : Address(t, k)' = Address(t, k)
    BY <2>0, SameSpec, AddressKept
  <2>3. LayoutInv'
    BY <1>0, <2>0, <2>1, LayoutKept
  <2>4. ListenersInv'
    BY <1>0, <2>0, <2>1, <2>2, ListenersKept
  <2>5. RecordsInv'
    BY <1>0, <2>0, <2>1, <2>2, RecordsKept
  <2> QED  BY <2>3, <2>4, <2>5
<1> QED  BY <1>2, <1>3, <1>4, <1>5, <1>6, <1>7, <1>8 DEF Next

\* What a PA has recorded is its own listener.
LEMMA InvOwnListener == SlotsInv => OwnListener
BY DEF SlotsInv, RecordsInv, OwnListener

\* What a PA publishes is what its listeners serve.
LEMMA InvEndpointsServed == SlotsInv => EndpointsServed
BY DEF SlotsInv, RecordsInv, EndpointsServed

(* A listener that is found on a port on Conflict.Port, and adopted without a look *)
(* at its server group (564-577), is the one that the same PA has created before.  *)
THEOREM AdoptsItsOwn ==
    ASSUME SameSlots, Settled = TRUE
    PROVE  Spec => []OwnListener
<1>1. Init => SlotsInv
  BY SlotsInit
<1>2. SlotsInv /\ [Next]_vars => SlotsInv'
  BY SlotsStep
<1>3. SlotsInv => OwnListener
  BY InvOwnListener
<1> QED  BY <1>1, <1>2, <1>3, PTL DEF Spec

(* The endpoints computed from the spec at the promotion (711-752) are those of the *)
(* listeners created by the ports of the first reconcile (107-149, 533).            *)
THEOREM PublishesWhatIsServed ==
    ASSUME SameSlots, Settled = TRUE
    PROVE  Spec => []EndpointsServed
<1>1. Init => SlotsInv
  BY SlotsInit
<1>2. SlotsInv /\ [Next]_vars => SlotsInv'
  BY SlotsStep
<1>3. SlotsInv => EndpointsServed
  BY InvEndpointsServed
<1> QED  BY <1>1, <1>2, <1>3, PTL DEF Spec
=============================================================================
