----------------------------- MODULE VmpuProofs -----------------------------
(***************************************************************************)
(* Proofs about Vmpu, for any containers, regions, instructions and any    *)
(* MPU with room for recovery.                                             *)
(*                                                                         *)
(* FirstRegionsStay is not inductive alone: the next entry to replace must *)
(* also lie behind the container's first two regions (SlotBehind). That    *)
(* the system stops only for an access that is not allowed needs that the  *)
(* search for a region finds one whenever there is one, hence the smallest *)
(* index of a set of indices.                                              *)
(***************************************************************************)
EXTENDS Vmpu, FiniteSetTheorems, WellFoundedInduction, TLAPS

(* Every set of naturals with an element has a smallest one.               *)
LEMMA SmallestElement ==
  ASSUME NEW T \in SUBSET Nat, T # {}
  PROVE  \E m \in T : \A n \in T : m <= n
<1> DEFINE Below(x) == {y \in T : y <= x}
           F == {Below(x) : x \in T}
<1>1. \A x \in T : Below(x) \in FiniteSubsetsOf(Nat)
  <2> TAKE x \in T
  <2>1. IsFiniteSet(Below(x))
    BY FS_BoundedSetOfNaturals
  <2> QED BY <2>1 DEF FiniteSubsetsOf
<1>2. F \subseteq FiniteSubsetsOf(Nat) /\ F # {}
  BY <1>1
<1>3. IsWellFoundedOn(StrictSubsetOrdering(Nat), FiniteSubsetsOf(Nat))
  BY FS_StrictSubsetOrderingWellFounded
<1>4. \E B \in F : \A C \in F : <<C, B>> \notin StrictSubsetOrdering(Nat)
  <2> HIDE DEF F
  <2> QED BY <1>2, <1>3, WFMin
<1>5. PICK m \in T : \A n \in T : <<Below(n), Below(m)>> \notin StrictSubsetOrdering(Nat)
  BY <1>4
<1>6. ASSUME NEW n \in T, n < m PROVE FALSE
  <2>0. m \in Nat /\ n \in Nat /\ \A y \in T : y \in Nat
    OBVIOUS
  <2>1. Below(n) \subseteq Below(m) /\ m \in Below(m) /\ m \notin Below(n)
    <3>1. \A y \in T : y <= n => y <= m
      BY <1>6, <2>0
    <3>2. m <= m /\ ~(m <= n)
      BY <1>6, <2>0
    <3> QED BY <3>1, <3>2
  <2>2. <<Below(n), Below(m)>> \in StrictSubsetOrdering(Nat)
    BY <2>1 DEF StrictSubsetOrdering
  <2> QED BY <1>5, <2>2
<1> QED BY <1>6

-----------------------------------------------------------------------------
(* Loading and searching *)

(* A container has its regions among those that vmpu_switch loads.         *)
LEMMA OrderUsable ==
  ASSUME NEW c \in Containers, NEW i \in 1 .. Loads(c)
  PROVE  Order(c, i) \in Usable(c)
<1>1. Len(Regions[0]) \in Nat /\ Len(Regions[c]) \in Nat
      /\ DOMAIN Regions[0] = 1 .. Len(Regions[0])
      /\ DOMAIN Regions[c] = 1 .. Len(Regions[c])
  BY ContainerAssumption, RegionAssumption
<1>2. CASE i <= Own(c)
  <2>1. i \in DOMAIN Regions[c]
    BY <1>1, <1>2 DEF Own
  <2> QED BY <1>2, <2>1 DEF Order, Usable, RegionsOf
<1>3. CASE ~(i <= Own(c))
  <2>1. i - Own(c) \in DOMAIN Regions[0]
    <3>1. Own(c) \in Nat
      BY <1>1 DEF Own
    <3>2. i \in Nat /\ i <= Own(c) + Len(Regions[0])
      BY <1>1, <3>1 DEF Loads
    <3> QED BY <1>1, <1>3, <3>1, <3>2
  <2>2. Order(c, i) = Regions[0][i - Own(c)]
    BY <1>3 DEF Order
  <2>3. Order(c, i) \in RegionsOf(0)
    BY <2>1, <2>2 DEF RegionsOf
  <2> QED BY <2>3 DEF Usable
<1> QED BY <1>2, <1>3

(* After a switch every entry holds a region of the new container or none. *)
LEMMA LoadUsable ==
  ASSUME NEW c \in Containers
  PROVE  /\ DOMAIN Load(c) = Entries
         /\ \A e \in Entries : Load(c)[e] \in Usable(c) \cup {Empty}
<1>1. Loads(c) \in Nat
  BY ContainerAssumption, RegionAssumption DEF Loads, Own
<1>2. ASSUME NEW e \in Entries
      PROVE  Load(c)[e] \in Usable(c) \cup {Empty}
  <2> DEFINE i == e - ReservedEntries + 1
  <2>1. i \in Nat /\ i >= 1
    BY EntryAssumption DEF Entries, ReservedEntries
  <2>2. Load(c)[e] = IF i <= Loads(c) THEN Order(c, i) ELSE Empty
    BY DEF Load
  <2>3. CASE i <= Loads(c)
    <3>1. i \in 1 .. Loads(c)
      BY <1>1, <2>1, <2>3
    <3> QED BY <2>2, <2>3, <3>1, OrderUsable
  <2>4. CASE ~(i <= Loads(c))
    BY <2>2, <2>4
  <2> QED BY <2>3, <2>4
<1> QED BY <1>2 DEF Load

(* After a switch the container's first two regions are in the first       *)
(* entries, and the next entry to replace lies behind them.                *)
LEMMA LoadKeepsFirst ==
  ASSUME NEW c \in Containers, c # 0,
         NEW i \in {1, 2} \cap DOMAIN Regions[c]
  PROVE  /\ ReservedEntries + i - 1 \in Entries
         /\ Load(c)[ReservedEntries + i - 1] = Regions[c][i]
         /\ SlotAfterLoad(c) > ReservedEntries + i - 1
<1>1. /\ Len(Regions[0]) \in Nat /\ Len(Regions[c]) \in Nat
      /\ i \in 1 .. 2 /\ i <= Len(Regions[c])
  BY ContainerAssumption, RegionAssumption
<1>2. ReservedEntries + i - 1 \in Entries
  BY <1>1, EntryAssumption DEF Entries, ReservedEntries, KeptEntries
<1>3. i <= Own(c) /\ i <= Loads(c) /\ Loads(c) \in Nat
  <2>1. Own(c) = Len(Regions[c])
    BY DEF Own
  <2>2. Loads(c) = Len(Regions[c]) + Len(Regions[0])
    BY <2>1 DEF Loads
  <2>3. \A p, q \in Nat : p + q \in Nat /\ (i <= p => i <= p + q)
    BY <1>1
  <2> QED BY <1>1, <2>1, <2>2, <2>3
<1>4. (ReservedEntries + i - 1) - ReservedEntries + 1 = i
  BY <1>1 DEF ReservedEntries
<1>5. Load(c)[ReservedEntries + i - 1] = Regions[c][i]
  <2>1. Load(c)[ReservedEntries + i - 1] = Order(c, i)
    BY <1>2, <1>3, <1>4 DEF Load
  <2> QED BY <1>3, <2>1 DEF Order
<1>6. SlotAfterLoad(c) > ReservedEntries + i - 1
  BY <1>1, <1>3, EntryAssumption DEF SlotAfterLoad, ReservedEntries, KeptEntries
<1> QED BY <1>2, <1>5, <1>6

LEMMA SlotAfterLoadType ==
  ASSUME NEW c \in Containers
  PROVE  SlotAfterLoad(c) \in ReservedEntries .. MpuEntries
<1>1. Loads(c) \in Nat
  BY ContainerAssumption, RegionAssumption DEF Loads, Own
<1> QED BY <1>1, EntryAssumption DEF SlotAfterLoad, ReservedEntries, KeptEntries

(* The search in one container finds a region just when one covers the     *)
(* address.                                                                *)
LEMMA FirstFinds ==
  ASSUME NEW c \in Containers, NEW x
  PROVE  /\ First(c, x) \subseteq RegionsOf(c)
         /\ (First(c, x) = {}) <=> (Covering(c, x) = {})
<1>1. Covering(c, x) \subseteq DOMAIN Regions[c]
  BY DEF Covering
<1>2. Covering(c, x) \in SUBSET Nat
  BY <1>1, RegionAssumption
<1>3. Covering(c, x) # {} => First(c, x) # {}
  BY <1>2, SmallestElement DEF First
<1> QED BY <1>1, <1>3 DEF First, RegionsOf

(* What vmpu_fault_find_region returns is a region that the container may  *)
(* use, and it returns none only when none covers the address.             *)
LEMMA FindSound ==
  ASSUME NEW c \in Containers, NEW x
  PROVE  /\ vmpu_fault_find_region(c, x) \subseteq Usable(c)
         /\ vmpu_fault_find_region(c, x) = {} =>
               \A r \in Usable(c) \ Runtime : x \notin r.addrs
<1> DEFINE Tried == {n \in Others(c) :
                       \A m \in Others(c) : Covering(m, x) # {} => n <= m}
<1>0. 0 \in Containers /\ 0 \notin Secure /\ Others(c) \subseteq Containers
  BY ContainerAssumption DEF Others, Normal
<1>1. \A d \in Others(c) : RegionsOf(d) \subseteq Usable(c)
  BY DEF Others, Usable
<1>2. \A d \in Tried : First(d, x) \subseteq Usable(c)
  BY <1>0, <1>1, FirstFinds
<1>3. vmpu_fault_find_region(c, x) \subseteq Usable(c)
  <2>1. First(c, x) \subseteq Usable(c)
    BY FirstFinds DEF Usable
  <2> QED BY <1>2, <2>1 DEF vmpu_fault_find_region
<1>4. ASSUME vmpu_fault_find_region(c, x) = {}
      PROVE  \A r \in Usable(c) \ Runtime : x \notin r.addrs
  <2>1. c # 0 => Covering(c, x) = {}
    BY <1>4, FirstFinds DEF vmpu_fault_find_region
  <2>2. \A d \in Tried : First(d, x) = {}
    BY <1>4, <2>1 DEF vmpu_fault_find_region
  <2>3. ASSUME NEW d \in Others(c), Covering(d, x) # {}
        PROVE  FALSE
    <3> DEFINE Having == {m \in Others(c) : Covering(m, x) # {}}
    <3>1. Having \in SUBSET Nat /\ Having # {}
      BY <1>0, <2>3, ContainerAssumption
    <3>2. PICK m \in Having : \A n \in Having : m <= n
      <4> HIDE DEF Having
      <4> QED BY <3>1, SmallestElement
    <3>3. m \in Tried /\ Covering(m, x) # {}
      BY <3>2
    <3> QED BY <1>0, <2>2, <3>3, FirstFinds
  <2>4. \A d \in Containers : Covering(d, x) = {} =>
          \A r \in RegionsOf(d) : x \notin r.addrs
    BY DEF Covering, RegionsOf
  <2>5. \A r \in RegionsOf(c) : x \notin r.addrs
    <3>1. c = 0 => c \in Others(c)
      BY <1>0 DEF Others
    <3> QED BY <2>1, <2>3, <2>4, <3>1
  <2>6. \A d \in Others(c) : \A r \in RegionsOf(d) : x \notin r.addrs
    BY <1>0, <2>3, <2>4
  <2>7. \A r \in RegionsOf(0) : x \notin r.addrs
    BY <1>0, <2>6 DEF Others, Normal
  <2> QED BY <2>5, <2>6, <2>7 DEF Usable, Others
<1> QED BY <1>3, <1>4

-----------------------------------------------------------------------------
(* The invariant *)

\* The next entry to replace lies behind the container's first two regions.
SlotBehind ==
    LET c == g_active_container
    IN  c # 0 => \A i \in {1, 2} \cap DOMAIN Regions[c] :
                    g_mpu_slot > ReservedEntries + i - 1

ProtectionInv == TypeOK /\ EntriesUsable /\ FirstRegionsStay /\ SlotBehind

(* Loading a container, at start-up and at every switch, establishes what  *)
(* the invariant says of the entries.                                      *)
LEMMA LoadedInv ==
  ASSUME g_active_container' \in Containers,
         mpu' = Load(g_active_container'),
         g_mpu_slot' = SlotAfterLoad(g_active_container')
  PROVE  /\ g_mpu_slot' \in ReservedEntries .. MpuEntries
         /\ DOMAIN mpu' = Entries
         /\ EntriesUsable' /\ FirstRegionsStay' /\ SlotBehind'
<1>1. g_mpu_slot' \in ReservedEntries .. MpuEntries
  BY SlotAfterLoadType
<1>2. DOMAIN mpu' = Entries /\ EntriesUsable'
  BY LoadUsable DEF EntriesUsable
<1>3. FirstRegionsStay' /\ SlotBehind'
  BY LoadKeepsFirst DEF FirstRegionsStay, SlotBehind
<1> QED BY <1>1, <1>2, <1>3

LEMMA InitProtection == Init => ProtectionInv
<1> SUFFICES ASSUME Init PROVE ProtectionInv
  OBVIOUS
<1>1. 0 \in Containers
  BY ContainerAssumption
<1>2. TypeOK
  BY <1>1, SlotAfterLoadType, LoadUsable DEF Init, TypeOK, MaxFaults
<1>3. EntriesUsable
  BY <1>1, LoadUsable DEF Init, EntriesUsable
<1>4. FirstRegionsStay /\ SlotBehind
  BY DEF Init, FirstRegionsStay, SlotBehind
<1> QED BY <1>2, <1>3, <1>4 DEF ProtectionInv

(* The entry that a recovery fills is never one of the container's first   *)
(* two, and what it is filled with is the container's to use.              *)
LEMMA RecoverInv ==
  ASSUME ProtectionInv, UNCHANGED g_active_container,
         NEW r \in Usable(g_active_container), Recover(r)
  PROVE  /\ g_mpu_slot' \in ReservedEntries .. MpuEntries
         /\ DOMAIN mpu' = Entries
         /\ EntriesUsable' /\ FirstRegionsStay' /\ SlotBehind'
<1> DEFINE c == g_active_container
<1>1. /\ c \in Containers /\ DOMAIN mpu = Entries
      /\ g_mpu_slot \in ReservedEntries .. MpuEntries
  BY DEF ProtectionInv, TypeOK
<1>2. g_mpu_slot' = SlotAfterFault
  BY DEF Recover
<1>3. g_mpu_slot' \in ReservedEntries .. MpuEntries
  BY <1>1, <1>2, EntryAssumption DEF SlotAfterFault, ReservedEntries, KeptEntries
<1>4. DOMAIN mpu' = Entries
      /\ \A e \in Entries : mpu'[e] = IF e = g_mpu_slot THEN r ELSE mpu[e]
  BY <1>1, EntryAssumption DEF Recover, Entries, ReservedEntries
<1>5. EntriesUsable'
  BY <1>4 DEF ProtectionInv, EntriesUsable
<1>6. ASSUME NEW i \in {1, 2} \cap DOMAIN Regions[c], c # 0
      PROVE  /\ mpu'[ReservedEntries + i - 1] = Regions[c][i]
             /\ g_mpu_slot' > ReservedEntries + i - 1
  <2>1. mpu[ReservedEntries + i - 1] = Regions[c][i]
        /\ g_mpu_slot > ReservedEntries + i - 1
    BY <1>6 DEF ProtectionInv, FirstRegionsStay, SlotBehind
  <2>2. ReservedEntries + i - 1 \in Entries
        /\ ReservedEntries + i - 1 # g_mpu_slot
    BY <1>1, <2>1, EntryAssumption DEF Entries, ReservedEntries, KeptEntries
  <2>3. g_mpu_slot' > ReservedEntries + i - 1
    BY <1>1, <1>2, <2>1 DEF SlotAfterFault, ReservedEntries, KeptEntries
  <2> QED BY <1>4, <2>1, <2>2, <2>3
<1>7. FirstRegionsStay' /\ SlotBehind'
  BY <1>6 DEF FirstRegionsStay, SlotBehind
<1> QED BY <1>3, <1>4, <1>5, <1>7

(* Steps that leave the entries alone.                                     *)
LEMMA SameEntriesInv ==
  ASSUME ProtectionInv, UNCHANGED <<g_active_container, g_mpu_slot, mpu>>
  PROVE  /\ g_mpu_slot' \in ReservedEntries .. MpuEntries
         /\ DOMAIN mpu' = Entries
         /\ EntriesUsable' /\ FirstRegionsStay' /\ SlotBehind'
BY DEF ProtectionInv, TypeOK, EntriesUsable, FirstRegionsStay, SlotBehind

LEMMA NextProtection == ProtectionInv /\ [Next]_vars => ProtectionInv'
<1> SUFFICES ASSUME ProtectionInv, [Next]_vars PROVE ProtectionInv'
  OBVIOUS
<1>0. TypeOK
  BY DEF ProtectionInv
<1>1. ASSUME NEW dst \in Containers, vmpu_switch(dst)
      PROVE  ProtectionInv'
  <2>1. g_active_container' = dst /\ g_active_container' \in Containers
    BY <1>1 DEF vmpu_switch
  <2>2. mpu' = Load(g_active_container') /\ g_mpu_slot' = SlotAfterLoad(g_active_container')
    BY <1>1 DEF vmpu_switch
  <2>3. UNCHANGED <<wants, halted>> /\ faults' = 0
    BY <1>1 DEF vmpu_switch
  <2> QED BY <1>0, <2>1, <2>2, <2>3, LoadedInv DEF ProtectionInv, TypeOK, MaxFaults
<1>2. ASSUME NEW i \in Instructions[g_active_container], Begin(i)
      PROVE  ProtectionInv'
  <2>1. UNCHANGED <<g_active_container, g_mpu_slot, mpu, halted>> /\ faults' = 0
        /\ wants' = [wants EXCEPT ![g_active_container] = i]
    BY <1>2 DEF Begin
  <2> QED BY <1>0, <2>1, SameEntriesInv DEF ProtectionInv, TypeOK, MaxFaults
<1>3. CASE Execute
  <2>1. UNCHANGED <<g_active_container, g_mpu_slot, mpu, halted>> /\ faults' = 0
        /\ wants' = [wants EXCEPT ![g_active_container] = <<>>]
    BY <1>3 DEF Execute
  <2> QED BY <1>0, <2>1, SameEntriesInv DEF ProtectionInv, TypeOK, MaxFaults
<1>4. ASSUME NEW k \in 1 .. 2, Fault(k)
      PROVE  ProtectionInv'
  <2>0. UNCHANGED <<g_active_container, wants>>
    BY <1>4 DEF Fault
  <2>1. UNCHANGED <<g_active_container, wants>> /\ halted' \in BOOLEAN
        /\ faults' \in 0 .. MaxFaults
    <3>1. halted' \in BOOLEAN
      BY <1>0, <1>4 DEF Fault, TypeOK
    <3>2. faults' = faults \/ (faults < MaxFaults /\ faults' = faults + 1)
      BY <1>4 DEF Fault
    <3>3. faults \in 0 .. MaxFaults
      BY <1>0 DEF TypeOK
    <3> QED BY <2>0, <3>1, <3>2, <3>3 DEF MaxFaults
  <2>2. /\ g_mpu_slot' \in ReservedEntries .. MpuEntries
        /\ DOMAIN mpu' = Entries
        /\ EntriesUsable' /\ FirstRegionsStay' /\ SlotBehind'
    <3>1. CASE UNCHANGED <<mpu, g_mpu_slot>>
      BY <2>1, <3>1, SameEntriesInv
    <3>2. CASE \E r \in vmpu_fault_find_region(g_active_container, Wanted[k].at) : Recover(r)
      BY <1>0, <2>1, <3>2, FindSound, RecoverInv DEF TypeOK
    <3> QED BY <1>4, <3>1, <3>2 DEF Fault
  <2> QED BY <1>0, <2>1, <2>2 DEF ProtectionInv, TypeOK
<1>5. CASE UNCHANGED vars
  <2>1. UNCHANGED <<g_active_container, g_mpu_slot, mpu, wants, halted, faults>>
    BY <1>5 DEF vars
  <2> QED BY <1>0, <2>1, SameEntriesInv DEF ProtectionInv, TypeOK
<1> QED BY <1>1, <1>2, <1>3, <1>4, <1>5 DEF Next, Halted

LEMMA AlwaysProtection == Spec => []ProtectionInv
<1> QED BY InitProtection, NextProtection, PTL DEF Spec

(* Whatever is loaded, recovered and in which order, the variables keep    *)
(* their types and the next entry to replace is at most one past the end   *)
(* (the checks of mpu_slot and g_mpu_slot in vmpu_switch and               *)
(* vmpu_fault_recovery_mpu).                                               *)
THEOREM TypeCorrect == Spec => []TypeOK
BY AlwaysProtection, PTL DEF ProtectionInv

(* No sequence of switches and recoveries leaves an entry in the MPU that  *)
(* the container that runs may not use (vmpu_switch clears the rest,       *)
(* vmpu_fault_find_region searches only what is the container's to use).   *)
THEOREM EntriesStayUsable == Spec => []EntriesUsable
BY AlwaysProtection, PTL DEF ProtectionInv

(* Recovery never replaces a container's first two regions, its code and   *)
(* the data with its stack (the "+ 2" in vmpu_fault_recovery_mpu).         *)
THEOREM CodeAndStackStay == Spec => []FirstRegionsStay
BY AlwaysProtection, PTL DEF ProtectionInv

-----------------------------------------------------------------------------
(* The refinement *)

(* An access that the MPU lets pass is one that a region of the container  *)
(* allows: the entry that decides holds such a region.                     *)
LEMMA PassesIsAllowed ==
  ASSUME ProtectionInv, NEW a, Passes(a)
  PROVE  Allowed(g_active_container, a)
<1>1. PICK r \in Deciding(a) : Permits(r, g_active_container, a)
  BY DEF Passes
<1>2. CASE r \in InRuntime(a)
  BY <1>1, <1>2 DEF InRuntime, Allowed, Usable
<1>3. CASE r \notin InRuntime(a)
  <2>1. PICK e \in Hit(a) : r = mpu[e]
    BY <1>1, <1>3 DEF Deciding
  <2>2. e \in Entries /\ a.at \in r.addrs
    BY <2>1 DEF Hit
  <2>3. r # Empty
    BY <2>2 DEF Empty
  <2>4. r \in Usable(g_active_container)
    BY <2>1, <2>2, <2>3 DEF ProtectionInv, EntriesUsable
  <2> QED BY <1>1, <2>2, <2>4 DEF Allowed
<1> QED BY <1>2, <1>3

(* The runtime stops only for an access that nothing allows.               *)
LEMMA StopIsForbidden ==
  ASSUME ProtectionInv, NEW a, ~Passes(a),
         vmpu_fault_find_region(g_active_container, a.at) = {}
  PROVE  ~Allowed(g_active_container, a)
<1>1. g_active_container \in Containers
  BY DEF ProtectionInv, TypeOK
<1>2. \A r \in Usable(g_active_container) \ Runtime : a.at \notin r.addrs
  BY <1>1, FindSound
<1>3. \A r \in InRuntime(a) : ~Permits(r, g_active_container, a)
  BY DEF Passes, Deciding
<1> QED BY <1>2, <1>3 DEF Allowed, InRuntime

(* The abstract specification's view of what is allowed is Vmpu's.         *)
LEMMA AllowedIsAbstract ==
  ASSUME ProtectionInv, NEW a
  PROVE  P!Allowed(g_active_container, a) <=> Allowed(g_active_container, a)
<1>1. g_active_container \in Containers
  BY DEF ProtectionInv, TypeOK
<1> QED BY <1>1 DEF P!Allowed, Allowed, Permits

LEMMA InitImplements == Init => P!Init
BY DEF Init, P!Init

LEMMA StepImplements == ProtectionInv /\ [Next]_vars => [P!Next]_(P!vars)
<1> SUFFICES ASSUME ProtectionInv, [Next]_vars PROVE [P!Next]_(P!vars)
  OBVIOUS
<1>1. ASSUME NEW dst \in Containers, vmpu_switch(dst) PROVE P!Next
  <2>1. P!Switch /\ ~halted
    BY <1>1 DEF vmpu_switch, P!Switch
  <2> QED BY <2>1 DEF P!Next
<1>2. ASSUME NEW i \in Instructions[g_active_container], Begin(i) PROVE P!Next
  <2>1. P!Begin /\ ~halted
    BY <1>2 DEF Begin, Wanted, P!Begin
  <2> QED BY <2>1 DEF P!Next
<1>3. CASE Execute
  <2>1. \A k \in DOMAIN wants[g_active_container] :
          P!Allowed(g_active_container, wants[g_active_container][k])
    BY <1>3, PassesIsAllowed, AllowedIsAbstract DEF Execute, Wanted
  <2>2. P!Execute /\ ~halted
    BY <1>3, <2>1 DEF Execute, Wanted, P!Execute
  <2> QED BY <2>2 DEF P!Next
<1>4. ASSUME NEW k \in 1 .. 2, Fault(k) PROVE [P!Next]_(P!vars)
  <2> DEFINE a == wants[g_active_container][k]
  <2>0. /\ ~halted /\ k \in DOMAIN wants[g_active_container] /\ ~Passes(a)
        /\ UNCHANGED <<g_active_container, wants>>
    BY <1>4 DEF Fault, Wanted
  <2>1. CASE UNCHANGED halted
    BY <2>0, <2>1 DEF P!vars
  <2>2. CASE vmpu_fault_find_region(g_active_container, a.at) = {} /\ halted' = TRUE
    <3>1. ~P!Allowed(g_active_container, a)
      BY <2>0, <2>2, StopIsForbidden, AllowedIsAbstract
    <3>2. P!Stop
      BY <2>0, <2>2, <3>1 DEF P!Stop
    <3> QED BY <2>0, <3>2 DEF P!Next
  <2> QED BY <1>4, <2>1, <2>2 DEF Fault, Wanted
<1>5. CASE UNCHANGED vars
  BY <1>5 DEF vars, P!vars
<1> QED BY <1>1, <1>2, <1>3, <1>4, <1>5 DEF Next, Halted

(* Every behaviour of the MPU and its recovery is one of Protection, for   *)
(* any number of entries: instructions are carried out only when the       *)
(* container's regions allow them, and the runtime stops only for one that *)
(* they do not allow.                                                      *)
THEOREM MpuImplementsProtection == Spec => ImplementsProtection
BY AlwaysProtection, InitImplements, StepImplements, PTL
   DEF Spec, ImplementsProtection, P!Spec

-----------------------------------------------------------------------------
(* Retries *)

\* Where two regions that a container may use share an address, they give
\* the same rights: no matter which of them the MPU or the search comes to.
RegionsAgree ==
    \A c \in Containers : \A r, q \in Usable(c) :
        r.addrs \cap q.addrs # {} => r.ac = q.ac

\* Recovery has two entries to replace, as many as an instruction can need.
TwoToReplace == MpuEntries > KeptEntries + 1

WantedAllowed == \A k \in DOMAIN Wanted : Allowed(g_active_container, Wanted[k])

\* An address is in an entry that the next recovery leaves alone.
InEntry(x, e) == e \in Entries /\ x \in mpu[e].addrs
Kept(x) == \E e \in Entries : e # g_mpu_slot /\ InEntry(x, e)

\* After the first fault recovery has an entry to fill, after the second one
\* of the accesses has what it needs and keeps it, after the third both have.
RetryInv ==
    /\ faults \in 0 .. 3
    /\ faults > 0 => Wanted # <<>> /\ WantedAllowed /\ g_mpu_slot \in Entries
    /\ faults >= 2 => \E j \in DOMAIN Wanted : Kept(Wanted[j].at)
    /\ faults = 3 => /\ DOMAIN Wanted = 1 .. 2
                     /\ \A j \in 1 .. 2 : \E e \in Entries : InEntry(Wanted[j].at, e)

(* With regions that agree, an entry with the address is enough for an     *)
(* access that some region allows: whichever entry decides permits it.     *)
LEMMA LoadedPasses ==
  ASSUME RegionsAgree, ProtectionInv, NEW a, Allowed(g_active_container, a),
         NEW e, InEntry(a.at, e)
  PROVE  Passes(a)
<1> DEFINE c == g_active_container
<1>1. c \in Containers
  BY DEF ProtectionInv, TypeOK
<1>2. PICK q \in Usable(c) : a.at \in q.addrs /\ Permits(q, c, a)
  BY DEF Allowed
<1>3. \A r \in Usable(c) : a.at \in r.addrs => Permits(r, c, a)
  <2> SUFFICES ASSUME NEW r \in Usable(c), a.at \in r.addrs PROVE Permits(r, c, a)
    OBVIOUS
  <2>1. r.ac = q.ac
    BY <1>1, <1>2 DEF RegionsAgree
  <2> QED BY <1>2, <2>1 DEF Permits
<1>4. CASE InRuntime(a) # {}
  <2>1. PICK r : r \in InRuntime(a)
    BY <1>4
  <2>2. r \in Usable(c) /\ a.at \in r.addrs
    BY <2>1 DEF InRuntime, Usable
  <2>3. r \in Deciding(a)
    BY <1>4, <2>1 DEF Deciding
  <2> QED BY <1>3, <2>2, <2>3 DEF Passes
<1>5. CASE InRuntime(a) = {}
  <2> DEFINE Having == {d \in Entries : a.at \in mpu[d].addrs}
  <2>1. Having \in SUBSET Nat /\ Having # {}
    BY EntryAssumption DEF Entries, ReservedEntries, InEntry
  <2>2. PICK m \in Having : \A n \in Having : m <= n
    <3> HIDE DEF Having
    <3> QED BY <2>1, SmallestElement
  <2>3. m \in Hit(a)
    BY <2>2 DEF Hit
  <2>4. mpu[m] \in Usable(c) /\ a.at \in mpu[m].addrs
    <3>1. mpu[m] # Empty
      BY <2>2 DEF Empty
    <3> QED BY <2>2, <3>1 DEF ProtectionInv, EntriesUsable
  <2>5. mpu[m] \in Deciding(a)
    BY <1>5, <2>3 DEF Deciding
  <2> QED BY <1>3, <2>4, <2>5 DEF Passes
<1> QED BY <1>4, <1>5

(* What the search finds covers the address.                               *)
LEMMA FoundCovers ==
  ASSUME NEW c \in Containers, NEW x, NEW r \in vmpu_fault_find_region(c, x)
  PROVE  x \in r.addrs
<1>1. \A d : \A q \in First(d, x) : x \in q.addrs
  BY DEF First, Covering
<1> QED BY <1>1 DEF vmpu_fault_find_region

(* A recovery with an entry to fill puts the region there, leaves the      *)
(* other entries alone, and will fill another one next time.               *)
LEMMA RecoverFills ==
  ASSUME TwoToReplace, TypeOK, NEW r, Recover(r)
  PROVE  /\ g_mpu_slot' \in Entries
         /\ g_mpu_slot \in Entries => mpu'[g_mpu_slot] = r /\ g_mpu_slot' # g_mpu_slot
         /\ \A e \in Entries : e # g_mpu_slot => mpu'[e] = mpu[e]
<1>1. /\ MpuEntries \in Nat /\ MpuEntries > 5 /\ DOMAIN mpu = Entries
      /\ g_mpu_slot \in 2 .. MpuEntries /\ Entries = 2 .. MpuEntries - 1
  BY EntryAssumption DEF TypeOK, TwoToReplace, KeptEntries, ReservedEntries, Entries
<1>2. g_mpu_slot' = IF g_mpu_slot + 1 >= MpuEntries THEN 4 ELSE g_mpu_slot + 1
  BY DEF Recover, SlotAfterFault, KeptEntries, ReservedEntries
<1>3. g_mpu_slot' \in 2 .. MpuEntries - 1
      /\ (g_mpu_slot \in 2 .. MpuEntries - 1 => g_mpu_slot' # g_mpu_slot)
  BY <1>1, <1>2
<1>4. mpu' = IF g_mpu_slot < MpuEntries THEN [mpu EXCEPT ![g_mpu_slot] = r] ELSE mpu
  BY DEF Recover
<1>5. g_mpu_slot \in Entries => g_mpu_slot < MpuEntries
  BY <1>1
<1>6. g_mpu_slot \in Entries => mpu'[g_mpu_slot] = r
  BY <1>1, <1>4, <1>5
<1>7. \A e \in Entries : e # g_mpu_slot => mpu'[e] = mpu[e]
  BY <1>1, <1>4
<1> QED BY <1>1, <1>3, <1>6, <1>7

(* Steps after which nothing has been retried.                             *)
LEMMA NoRetries == ASSUME faults = 0 PROVE RetryInv
BY DEF RetryInv

(* An instruction makes one or two accesses.                               *)
LEMMA WantedType ==
  ASSUME TypeOK, Wanted # <<>>
  PROVE  Len(Wanted) \in 1 .. 2 /\ DOMAIN Wanted = 1 .. Len(Wanted)
BY InstructionAssumption DEF TypeOK, Wanted

(* A fault of an instruction that the regions allow is recovered: of       *)
(* accesses without an entry, and that gets one.                           *)
LEMMA RetryCounted ==
  ASSUME RegionsAgree, TwoToReplace, ProtectionInv, RetryInv, NEW k \in 1 .. 2, Fault(k),
         WantedAllowed
  PROVE  RetryInv'
<1> DEFINE c == g_active_container
           a == Wanted[k]
<1>0. TypeOK /\ c \in Containers /\ k \in DOMAIN Wanted /\ Wanted # <<>>
  BY DEF ProtectionInv, TypeOK, Fault
<1>1. ~Passes(a) /\ Allowed(c, a)
  BY <1>0 DEF Fault, WantedAllowed
<1>2. \A e : ~InEntry(a.at, e)
  BY <1>1, LoadedPasses
<1>3. vmpu_fault_find_region(c, a.at) # {}
  BY <1>1, StopIsForbidden
<1>4. PICK r \in vmpu_fault_find_region(c, a.at) : Recover(r)
  BY <1>3 DEF Fault
<1>5. a.at \in r.addrs
  BY <1>0, FoundCovers
<1>6. /\ g_mpu_slot' \in Entries
      /\ g_mpu_slot \in Entries => mpu'[g_mpu_slot] = r /\ g_mpu_slot' # g_mpu_slot
      /\ \A e \in Entries : e # g_mpu_slot => mpu'[e] = mpu[e]
  BY <1>0, <1>4, RecoverFills
<1>7. /\ UNCHANGED <<g_active_container, wants>> /\ Wanted' = Wanted
      /\ WantedAllowed'
  <2>1. UNCHANGED <<g_active_container, wants>>
    BY DEF Fault
  <2> QED BY <2>1 DEF Wanted, WantedAllowed, Allowed, Permits, Mode
<1>8. faults # 3
  <2>1. faults = 3 => \A j \in 1 .. 2 : \E e \in Entries : InEntry(Wanted[j].at, e)
    BY DEF RetryInv
  <2> QED BY <1>2, <2>1
<1>9. faults \in 0 .. 2 /\ faults' = faults + 1
  <2>1. faults \in 0 .. 3
    BY DEF RetryInv
  <2>2. faults' = IF (\A j \in DOMAIN Wanted : Allowed(g_active_container, Wanted[j]))
                     /\ faults < MaxFaults THEN faults + 1 ELSE faults
    BY DEF Fault
  <2>3. \A j \in DOMAIN Wanted : Allowed(g_active_container, Wanted[j])
    BY DEF WantedAllowed
  <2> QED BY <1>8, <2>1, <2>2, <2>3 DEF MaxFaults
<1>10. faults > 0 => g_mpu_slot \in Entries
  BY DEF RetryInv
<1>11. ASSUME g_mpu_slot \in Entries
       PROVE  Kept(a.at)'
  <2>1. /\ g_mpu_slot \in Entries /\ g_mpu_slot # g_mpu_slot'
        /\ a.at \in mpu'[g_mpu_slot].addrs
    BY <1>5, <1>6, <1>11
  <2>2. \E e \in Entries : e # g_mpu_slot' /\ a.at \in mpu'[e].addrs
    BY <2>1
  <2> QED BY <1>7, <2>2 DEF InEntry, Kept
<1>12. CASE faults = 0
  BY <1>6, <1>7, <1>0, <1>9, <1>12 DEF RetryInv
<1>13. CASE faults = 1
  <2>1. Kept(a.at)'
    BY <1>10, <1>11, <1>13
  <2>2. \E j \in DOMAIN Wanted' : Kept(Wanted[j].at)'
    BY <1>0, <1>7, <2>1
  <2> QED BY <1>0, <1>6, <1>7, <1>9, <1>13, <2>2 DEF RetryInv
<1>14. CASE faults = 2
  <2>1. PICK j \in DOMAIN Wanted : Kept(Wanted[j].at)
    BY <1>14 DEF RetryInv
  <2>2. PICK e \in Entries : e # g_mpu_slot /\ InEntry(Wanted[j].at, e)
    BY <2>1 DEF Kept
  <2>3. j # k
    BY <1>2, <2>2
  <2>4. DOMAIN Wanted = 1 .. 2 /\ \A i \in 1 .. 2 : i = j \/ i = k
    <3>1. Len(Wanted) \in 1 .. 2 /\ DOMAIN Wanted = 1 .. Len(Wanted)
      BY <1>0, WantedType
    <3>2. j \in 1 .. Len(Wanted) /\ k \in 1 .. Len(Wanted)
      BY <1>0, <3>1
    <3>3. Len(Wanted) = 2
      BY <2>3, <3>1, <3>2
    <3> QED BY <2>3, <3>1, <3>2, <3>3
  <2>5. Wanted[j].at \in mpu'[e].addrs
    BY <1>6, <2>2 DEF InEntry
  <2>6. a.at \in mpu'[g_mpu_slot].addrs /\ g_mpu_slot \in Entries /\ g_mpu_slot' # g_mpu_slot
    BY <1>5, <1>6, <1>10, <1>14
  <2>7. \A i \in 1 .. 2 : \E d \in Entries : InEntry(Wanted[i].at, d)'
    BY <1>7, <2>2, <2>4, <2>5, <2>6 DEF InEntry
  <2>8. \E i \in DOMAIN Wanted' : Kept(Wanted[i].at)'
    BY <1>0, <1>7, <1>11, <2>6
  <2> QED BY <1>0, <1>6, <1>7, <1>9, <1>14, <2>4, <2>7, <2>8 DEF RetryInv
<1> QED BY <1>9, <1>12, <1>13, <1>14

(* Every step keeps what is known of retries.                              *)
LEMMA NextRetry ==
  ASSUME RegionsAgree, TwoToReplace, ProtectionInv, RetryInv, [Next]_vars
  PROVE  RetryInv'
<1>1. CASE \/ \E dst \in Containers : vmpu_switch(dst)
           \/ \E i \in Instructions[g_active_container] : Begin(i)
           \/ Execute
  <2>1. faults' = 0
    BY <1>1 DEF vmpu_switch, Begin, Execute
  <2> QED BY <2>1, NoRetries DEF RetryInv
<1>2. ASSUME NEW k \in 1 .. 2, Fault(k) PROVE RetryInv'
  <2>1. CASE WantedAllowed
    BY <1>2, <2>1, RetryCounted
  <2>2. CASE ~WantedAllowed
    <3>1. ~(\A j \in DOMAIN Wanted : Allowed(g_active_container, Wanted[j]))
      BY <2>2 DEF WantedAllowed
    <3>2. faults' = faults
      BY <1>2, <3>1 DEF Fault
    <3>3. faults = 0
      BY <2>2 DEF RetryInv
    <3> QED BY <3>2, <3>3 DEF RetryInv
  <2> QED BY <2>1, <2>2
<1>3. CASE UNCHANGED vars
  BY <1>3 DEF vars, RetryInv, Wanted, WantedAllowed, Allowed, Permits, Mode, Kept, InEntry
<1> QED BY <1>1, <1>2, <1>3 DEF Next, Halted

(* An instruction that the regions allow is not retried for ever: at most  *)
(* one fault per access and one more after a switch that filled the MPU,   *)
(* whatever the switch has loaded and wherever vmpu_fault_recovery_mpu     *)
(* goes on replacing.                                                      *)
THEOREM RetriesStayBounded ==
  ASSUME RegionsAgree, TwoToReplace PROVE Spec => []RetriesBounded
<1>1. Init => RetryInv
  BY NoRetries DEF Init
<1>2. ProtectionInv /\ RetryInv /\ [Next]_vars => RetryInv'
  BY NextRetry
<1>3. ProtectionInv /\ RetryInv => RetriesBounded
  <2> SUFFICES ASSUME ProtectionInv, RetryInv PROVE RetriesBounded
    OBVIOUS
  <2>0. TypeOK /\ faults \in 0 .. 3 /\ Len(<<>>) = 0
    BY DEF ProtectionInv, RetryInv
  <2>1. CASE Wanted = <<>>
    <3>1. faults = 0
      BY <2>0, <2>1 DEF RetryInv
    <3> QED BY <2>0, <2>1, <3>1 DEF RetriesBounded
  <2>2. CASE Wanted # <<>>
    <3>1. Len(Wanted) \in 1 .. 2 /\ DOMAIN Wanted = 1 .. Len(Wanted)
      BY <2>0, <2>2, WantedType
    <3>2. faults = 3 => Len(Wanted) = 2
      <4>1. faults = 3 => 2 \in DOMAIN Wanted
        BY DEF RetryInv
      <4> QED BY <3>1, <4>1
    <3>3. PICK n \in 1 .. 2 : n = Len(Wanted)
      BY <3>1
    <3>4. faults <= n + 1
      BY <2>0, <3>2, <3>3
    <3> QED BY <3>3, <3>4 DEF RetriesBounded
  <2> QED BY <2>1, <2>2
<1> QED BY <1>1, <1>2, <1>3, AlwaysProtection, PTL DEF Spec
=============================================================================
