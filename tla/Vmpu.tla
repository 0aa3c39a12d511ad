-------------------------------- MODULE Vmpu --------------------------------
(***************************************************************************)
(* Memory protection of the SecureShield runtime, version 1                *)
(* (secureshield_vmpu_arc.c): the regions of containers, loaded into the   *)
(* MPU's entries at a container switch as far as they fit, and the         *)
(* recovery of faults, which brings in the others one by one.              *)
(*                                                                         *)
(* A step is an instruction of a container, or one passage through the     *)
(* runtime, where interrupts are off. After a recovery the instruction is  *)
(* tried again: it stays wanted, also while another container runs.        *)
(***************************************************************************)
EXTENDS Naturals, Sequences

CONSTANTS
    Containers,   \* ids, 0 is the background container
    Secure,       \* the secure ones
    Regions,      \* Regions[c]: the MPU_CONTAINER of c, regions [addrs, ac]
    Runtime,      \* the regions of the runtime, in reserved entries
    MpuEntries,   \* ARC_FEATURE_MPU_REGIONS
    Instructions  \* Instructions[c]: what c does, sequences of accesses [at, how]

\* ARC_MPU_RESERVED_REGIONS, and those that recovery never replaces
ReservedEntries == 2
KeptEntries == ReservedEntries + 2
Entries == ReservedEntries .. MpuEntries - 1

\* faults are counted up to this bound, which a property excludes
MaxFaults == 4

Modes == {"user", "kernel"}
Operations == {"read", "write", "execute"}

\* The rights that the MPU can express for those asked for. Start-up halts
\* when they are others.
vmpu_map_ac(ac) ==
    LET data == {right \in ac : right[2] # "execute"}
    IN  (ac \ data) \cup
            IF <<"user", "write">> \in data
            THEN Modes \X {"read", "write"}
            ELSE data \cup {<<"kernel", "read">> : right \in data}

ASSUME ContainerAssumption ==
    /\ Containers \subseteq Nat /\ 0 \in Containers
    /\ Secure \subseteq Containers \ {0}

ASSUME RegionAssumption ==
    /\ DOMAIN Regions = Containers
    /\ \A c \in Containers :
        /\ Len(Regions[c]) \in Nat
        /\ DOMAIN Regions[c] = 1 .. Len(Regions[c])
    /\ \A r \in Runtime \cup UNION {{Regions[c][i] : i \in DOMAIN Regions[c]} : c \in Containers} :
        r.ac \subseteq Modes \X Operations /\ vmpu_map_ac(r.ac) = r.ac

ASSUME InstructionAssumption ==
    \A c \in Containers : \A i \in Instructions[c] :
        Len(i) \in 1 .. 2 /\ DOMAIN i = 1 .. Len(i)

ASSUME EntryAssumption == MpuEntries \in Nat /\ MpuEntries > KeptEntries

VARIABLES
    g_active_container,
    g_mpu_slot,     \* the entry that the next recovery replaces
    mpu,            \* the entries' contents
    wants,          \* the instruction each container is at, <<>> for none
    halted,         \* SECURESHIELD_HALT was reached
    faults          \* history: of the active container's instruction, since
                    \* the last switch, if it is one that regions allow

vars == <<g_active_container, g_mpu_slot, mpu, wants, halted, faults>>

Empty == [addrs |-> {}, ac |-> {}]
RegionsOf(c) == {Regions[c][i] : i \in DOMAIN Regions[c]}
Normal == Containers \ Secure

-----------------------------------------------------------------------------
(* Loading *)

\* The regions that vmpu_switch loads, in this order: those of the container,
\* then those of the background container.
Own(c) == IF c = 0 THEN 0 ELSE Len(Regions[c])
Order(c, i) == IF i <= Own(c) THEN Regions[c][i] ELSE Regions[0][i - Own(c)]
Loads(c) == Own(c) + Len(Regions[0])

LoadKeepsOthers(c) ==                        \* slip: a switch leaves the rest
    [e \in Entries |-> LET i == e - ReservedEntries + 1
                       IN  CASE i <= Loads(c) -> Order(c, i)
                             [] i > Loads(c) /\ c = g_active_container -> Empty
                             [] OTHER -> mpu[e]]

Load(c) ==
    [e \in Entries |-> LET i == e - ReservedEntries + 1
                       IN  IF i <= Loads(c) THEN Order(c, i) ELSE Empty]

\* The entry after the last one loaded; one past the end when all are.
SlotAfterLoad(c) ==
    IF ReservedEntries + Loads(c) < MpuEntries
    THEN ReservedEntries + Loads(c) ELSE MpuEntries

Init ==
    /\ g_active_container = 0
    /\ g_mpu_slot = SlotAfterLoad(0)
    /\ mpu = Load(0)
    /\ wants = [c \in Containers |-> <<>>]
    /\ halted = FALSE
    /\ faults = 0

vmpu_switch(dst) ==
    /\ ~halted /\ dst # g_active_container
    /\ g_active_container' = dst
    /\ mpu' = Load(dst)
    /\ g_mpu_slot' = SlotAfterLoad(dst)
    /\ faults' = 0
    /\ UNCHANGED <<wants, halted>>

-----------------------------------------------------------------------------
(* Accesses *)

Mode(c) == IF c \in Secure THEN "kernel" ELSE "user"

\* The entry with the lowest number decides (rule of the hardware), the
\* reserved ones first.
Hit(a) == {e \in Entries : /\ a.at \in mpu[e].addrs
                           /\ \A d \in Entries : a.at \in mpu[d].addrs => e <= d}
InRuntime(a) == {r \in Runtime : a.at \in r.addrs}
Deciding(a) ==
    IF InRuntime(a) # {} THEN InRuntime(a) ELSE {mpu[e] : e \in Hit(a)}

Permits(r, c, a) == {Mode(c)} \X a.how \subseteq r.ac
Passes(a) == \E r \in Deciding(a) : Permits(r, g_active_container, a)

Wanted == wants[g_active_container]

Begin(i) ==
    /\ ~halted /\ Wanted = <<>>
    /\ wants' = [wants EXCEPT ![g_active_container] = i]
    /\ faults' = 0
    /\ UNCHANGED <<g_active_container, g_mpu_slot, mpu, halted>>

Execute ==
    /\ ~halted /\ Wanted # <<>>
    /\ \A k \in DOMAIN Wanted : Passes(Wanted[k])
    /\ wants' = [wants EXCEPT ![g_active_container] = <<>>]
    /\ faults' = 0
    /\ UNCHANGED <<g_active_container, g_mpu_slot, mpu, halted>>

-----------------------------------------------------------------------------
(* Recovery *)

\* vmpu_fault_find_container_region looks at addresses, not at rights.
Covering(c, x) == {i \in DOMAIN Regions[c] : x \in Regions[c][i].addrs}
First(c, x) ==
    {Regions[c][i] : i \in {j \in Covering(c, x) : \A k \in Covering(c, x) : j <= k}}

\* vmpu_fault_find_region for active container c: the container's own region,
\* else the background's, or the first normal container's if c is secure.
OthersAlways(c) == Normal                            \* slip: whoever asks
Others(c) == IF c \in Secure THEN Normal ELSE {0}
vmpu_fault_find_region(c, x) ==
    IF c # 0 /\ Covering(c, x) # {} THEN First(c, x) ELSE
    UNION {First(d, x) : d \in {n \in Others(c) :
                                \A m \in Others(c) : Covering(m, x) # {} => n <= m}}

SlotAfterFaultFromStart ==                           \* slip: no "+ 2"
    IF g_mpu_slot + 1 >= MpuEntries THEN ReservedEntries ELSE g_mpu_slot + 1
SlotAfterFaultNoWrap == g_mpu_slot + 1               \* slip
SlotAfterFaultAtLast ==                              \* slip: stays at the last
    IF g_mpu_slot + 1 >= MpuEntries THEN MpuEntries - 1 ELSE g_mpu_slot + 1
SlotAfterFault ==
    IF g_mpu_slot + 1 >= MpuEntries THEN KeptEntries ELSE g_mpu_slot + 1

\* secureshield_exc_handler_protect_v and vmpu_fault_recovery_mpu;
\* arc_mpu_region leaves all entries alone when the index is past the end.
Recover(r) ==
    /\ mpu' = IF g_mpu_slot < MpuEntries THEN [mpu EXCEPT ![g_mpu_slot] = r] ELSE mpu
    /\ g_mpu_slot' = SlotAfterFault

Usable(c) ==
    RegionsOf(c) \cup RegionsOf(0) \cup Runtime \cup
        IF c \in Secure THEN UNION {RegionsOf(d) : d \in Normal} ELSE {}
Allowed(c, a) == \E r \in Usable(c) : a.at \in r.addrs /\ Permits(r, c, a)

Fault(k) ==
    LET a == Wanted[k]
        found == vmpu_fault_find_region(g_active_container, a.at)
    IN  /\ ~halted /\ k \in DOMAIN Wanted
        /\ ~Passes(a) /\ \A j \in 1 .. k - 1 : Passes(Wanted[j])
        /\ \/ /\ found = {}
              /\ halted' = TRUE
              /\ UNCHANGED <<mpu, g_mpu_slot>>
           \/ /\ \E r \in found : Recover(r)
              /\ UNCHANGED halted
        /\ faults' = IF \A j \in DOMAIN Wanted : Allowed(g_active_container, Wanted[j])
                        /\ faults < MaxFaults
                     THEN faults + 1 ELSE faults
        /\ UNCHANGED <<g_active_container, wants>>

Halted == halted /\ UNCHANGED vars

Next ==
    \/ \E dst \in Containers : vmpu_switch(dst)
    \/ \E i \in Instructions[g_active_container] : Begin(i)
    \/ Execute
    \/ \E k \in 1 .. 2 : Fault(k)
    \/ Halted

Spec == Init /\ [][Next]_vars

-----------------------------------------------------------------------------
(* Properties *)

\* The variables have their types; the next entry to replace is never more
\* than one past the end.
TypeOK ==
    /\ g_active_container \in Containers
    /\ g_mpu_slot \in ReservedEntries .. MpuEntries
    /\ DOMAIN mpu = Entries
    /\ DOMAIN wants = Containers
    /\ \A c \in Containers : wants[c] \in Instructions[c] \cup {<<>>}
    /\ halted \in BOOLEAN
    /\ faults \in 0 .. MaxFaults

\* Whatever was loaded and recovered before, no entry lets the container that
\* runs now use a region that is not its own to use.
EntriesUsable ==
    \A e \in Entries : mpu[e] \in Usable(g_active_container) \cup {Empty}

\* The first two regions of a container, its code and the data with its
\* stack, stay loaded however many faults are recovered.
FirstRegionsStay ==
    LET c == g_active_container
    IN  c # 0 => \A i \in {1, 2} \cap DOMAIN Regions[c] :
                    mpu[ReservedEntries + i - 1] = Regions[c][i]

\* An instruction that the regions allow faults at most once per access and
\* once more, for the fault after a switch that filled the MPU.
RetriesBounded == faults <= Len(Wanted) + 1

P == INSTANCE Protection WITH
        Granted <- [c \in Containers |-> Usable(c)],
        Privilege <- [c \in Containers |-> Mode(c)],
        active <- g_active_container

\* The MPU's few entries and their replacement do not show.
ImplementsProtection == P!Spec

\* A container that is not switched away keeps running.
FairSpec == Spec /\ WF_vars(Execute) /\ WF_vars(\E k \in 1 .. 2 : Fault(k))

\* An instruction that the regions allow is carried out in the end, unless
\* its container is switched away: recovery does not go round in circles.
AllowedIsDone ==
    \A c \in Containers :
        (/\ g_active_container = c /\ wants[c] # <<>>
         /\ \A k \in DOMAIN wants[c] : Allowed(c, wants[c][k]))
        ~> (wants[c] = <<>> \/ g_active_container # c)
=============================================================================
