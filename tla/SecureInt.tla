------------------------------ MODULE SecureInt ------------------------------
(***************************************************************************)
(* Interrupt management of the SecureShield runtime, version 1: the table  *)
(* of interrupt owners (secureshield_int.c) and the calls containers make  *)
(* on it through the override API (export/src/interrupts.c).               *)
(*                                                                         *)
(* A normal container traps into the runtime: its operation is one step.   *)
(* A secure container is linked with the runtime and runs the same C code  *)
(* directly, with interrupts on: its operation is one step per access to   *)
(* the table or to the interrupt unit, which is reached through two        *)
(* registers, AUX_IRQ_SELECT and AUX_IRQ_ENABLE of the selected interrupt. *)
(*                                                                         *)
(* How the processor moves between containers is ContainerSwitch; here it  *)
(* is the chain of activities that ContainerCalls specifies.               *)
(***************************************************************************)
EXTENDS Integers, Sequences, FiniteSets, SequencesExt, FiniteSetsExt

CONSTANTS
  Containers,   \* ids of the containers, 0 is the background one
  Irqs,         \* interrupts whose entry belongs to the runtime
  Pri,          \* [Irqs -> Nat], AUX_IRQ_PRIORITY of each, 0 the highest
  Systems       \* which containers may be secure, and the operations all use

ASSUME IntAssumption ==
  /\ Containers \subseteq Nat /\ 0 \in Containers
  /\ Irqs \subseteq Nat \ {0} /\ Irqs # {} /\ IsFiniteSet(Irqs)
  /\ Pri \in [Irqs -> Nat]
  /\ Systems \subseteq
       [secure     : SUBSET Containers,
        operations : SUBSET {"install", "release", "enable", "disable", "lock", "unlock"}]

VARIABLES
  system,       \* the one of Systems that was built; it does not change
  chain,        \* the activities, the running one last
  table,        \* secureshield_int_handler_table
  irq_en,       \* AUX_IRQ_ENABLE of every interrupt
  irq_select,   \* AUX_IRQ_SELECT
  held,         \* history: disabled by its owner's lock, left alone since
  finished      \* history: the operation that ended in the last step

vars == <<system, chain, table, irq_en, irq_select, held, finished>>

None   == -1
Thread == 16                \* level of code that serves no interrupt
Idle   == [asked |-> "none", body |-> "none", irq |-> 0, pc |-> "idle"]
Nothing == <<0, "none">>

Secure     == system.secure      \* of type SECURESHIELD_CONTAINER_SECURE
Operations == system.operations

(* handler: the container whose function it is, or None for NULL.          *)
Entries    == [id : Containers, handler : Containers \cup {None}, enabled : BOOLEAN]
Programs   == [asked : Operations \cup {"none"},
               body : {"none", "install", "release", "enable", "disable", "lock"},
               irq : Irqs \cup {0},
               pc : {"idle", "check", "select", "write", "flag", "handler", "id"}]
Activities == [cont : Containers, level : {Pri[i] : i \in Irqs} \cup {Thread},
               code : Containers, op : Programs]

Running            == Last(chain)
g_active_container == Running.cont
IsSecure(c)        == c \in Secure
Levels == {chain[k].level : k \in DOMAIN chain} \ {Thread}     \* AUX_IRQ_ACT

-----------------------------------------------------------------------------
(* vmpu_ac_irq has given some interrupts to the containers that list them  *)
(* in their configuration; the background container's code runs.           *)
Allocated == {[id |-> c, handler |-> c, enabled |-> FALSE] : c \in Containers}
Free      == [id |-> 0, handler |-> None, enabled |-> FALSE]

Init ==
  /\ system \in Systems
  /\ chain = <<[cont |-> 0, level |-> Thread, code |-> 0, op |-> Idle]>>
  /\ table \in [Irqs -> Allocated \cup {Free}]
  /\ irq_en = [i \in Irqs |-> FALSE]
  /\ irq_select = Max(Irqs)          \* the last one secureshield_int_init set
  /\ held = {} /\ finished = Nothing

AcCheckSlip(i) == table[i].handler # None       \* slip: anybody may

(* secure_int_ac_check: the interrupt is installed, and the container is   *)
(* secure, or owns it, or the background container does.                   *)
secure_int_ac_check(i) ==
  /\ table[i].handler # None
  /\ IsSecure(g_active_container) \/ table[i].id \in {g_active_container, 0}

(* The check of secure_int_handler_install.                                *)
Installable(i) == table[i].id \in {g_active_container, 0}

(* Slips of the condition of secure_cpu_unlock: the bit instead of the flag *)
(* is tested; the owner is not looked at.                                  *)
UnlockableByBit(i)  == /\ table[i].id \in {g_active_container, 0}
                       /\ table[i].handler # None /\ irq_en[i]
UnlockableByFlag(i) == table[i].handler # None /\ table[i].enabled

(* The interrupts secure_cpu_lock disables and secure_cpu_unlock enables.  *)
Lockable(i)   == table[i].id \in {g_active_container, 0} /\ table[i].handler # None
Unlockable(i) == Lockable(i) /\ table[i].enabled
Owned(I)      == {i \in I : table[i].id = g_active_container}

-----------------------------------------------------------------------------
(* secureshield_int_ops: the trap of a normal container, interrupts off.   *)
Selected(I) == irq_select' = IF I = {} THEN irq_select ELSE Max(I)

TrapInstallKeepsId(i, f) ==                     \* slip: the owner stays
  IF Installable(i)
  THEN /\ table' = [table EXCEPT ![i].handler = f]
       /\ held' = held \ {i}
       /\ UNCHANGED <<irq_en, irq_select>>
  ELSE UNCHANGED <<table, irq_en, irq_select, held>>

TrapInstall(i, f) ==
  IF Installable(i)
  THEN /\ table' = [table EXCEPT ![i].handler = f,
                      ![i].id = IF f = None THEN 0 ELSE g_active_container]
       /\ held' = held \ {i}
       /\ UNCHANGED <<irq_en, irq_select>>
  ELSE UNCHANGED <<table, irq_en, irq_select, held>>

TrapSet(i, on) ==
  IF secure_int_ac_check(i)
  THEN /\ irq_en' = [irq_en EXCEPT ![i] = on]
       /\ table' = [table EXCEPT ![i].enabled = on]
       /\ Selected({i})
       /\ held' = held \ {i}
  ELSE UNCHANGED <<table, irq_en, irq_select, held>>

TrapLock(I, on) ==
  /\ irq_en' = [i \in Irqs |-> IF i \in I THEN on ELSE irq_en[i]]
  /\ Selected(I)
  /\ held' = IF on THEN held \ Owned(I) ELSE held \cup Owned(I)
  /\ UNCHANGED table

Trap(op, i) ==
  /\ ~IsSecure(g_active_container)
  /\ \/ op = "install" /\ TrapInstall(i, g_active_container)
     \/ op = "release" /\ TrapInstall(i, None)
     \/ op = "enable"  /\ TrapSet(i, TRUE)
     \/ op = "disable" /\ TrapSet(i, FALSE)
     \/ op = "lock"    /\ TrapLock({j \in Irqs : Lockable(j)}, FALSE)
     \/ op = "unlock"  /\ TrapLock({j \in Irqs : Unlockable(j)}, TRUE)
  /\ finished' = <<g_active_container, op>>
  /\ UNCHANGED <<system, chain>>

-----------------------------------------------------------------------------
(* A secure container runs the C code itself.  secureshield_cpu_unlock     *)
(* calls cpu_lock.                                                         *)
Body(op) == IF op = "unlock" THEN "lock" ELSE op

Start(op, i) ==
  /\ IsSecure(g_active_container) /\ Running.op = Idle
  /\ chain' = [chain EXCEPT ![Len(chain)].op =
       [asked |-> op, body |-> Body(op), pc |-> "check",
        irq |-> IF op \in {"lock", "unlock"} THEN Min(Irqs) ELSE i]]
  /\ finished' = Nothing
  /\ UNCHANGED <<system, table, irq_en, irq_select, held>>

Goto(pc) == /\ chain' = [chain EXCEPT ![Len(chain)].op.pc = pc]
            /\ finished' = Nothing
End      == /\ chain' = [chain EXCEPT ![Len(chain)].op = Idle]
            /\ finished' = <<g_active_container, Running.op.asked>>
NextIrqOverrun ==                               \* slip: one turn too many
  LET rest == {j \in Irqs \cup {Max(Irqs) + 1} : j > Running.op.irq}
  IN  IF rest = {} THEN End
      ELSE /\ chain' = [chain EXCEPT ![Len(chain)].op.irq = Min(rest),
                                     ![Len(chain)].op.pc = "check"]
           /\ finished' = Nothing

(* The next turn of the loop over the table.                               *)
NextIrq  ==
  LET rest == {j \in Irqs : j > Running.op.irq}
  IN  IF rest = {} THEN End
      ELSE /\ chain' = [chain EXCEPT ![Len(chain)].op.irq = Min(rest),
                                     ![Len(chain)].op.pc = "check"]
           /\ finished' = Nothing

Check ==
  LET i == Running.op.irq  b == Running.op.body IN
  /\ Running.op.pc = "check"
  /\ \/ /\ b \in {"enable", "disable"}
        /\ IF secure_int_ac_check(i) THEN Goto("select") ELSE End
     \/ /\ b \in {"install", "release"}
        /\ IF Installable(i) THEN Goto("handler") ELSE End
     \/ /\ b \in {"lock", "unlock"}
        /\ IF (b = "lock" /\ Lockable(i)) \/ (b = "unlock" /\ Unlockable(i))
           THEN Goto("select") ELSE NextIrq
  /\ UNCHANGED <<system, table, irq_en, irq_select, held>>

SetHandler ==
  /\ Running.op.pc = "handler"
  /\ table' = [table EXCEPT ![Running.op.irq].handler =
       IF Running.op.body = "install" THEN g_active_container ELSE None]
  /\ Goto("id")
  /\ UNCHANGED <<system, irq_en, irq_select, held>>

SetId ==
  /\ Running.op.pc = "id"
  /\ table' = [table EXCEPT ![Running.op.irq].id =
       IF Running.op.body = "install" THEN g_active_container ELSE 0]
  /\ held' = held \ {Running.op.irq}
  /\ End
  /\ UNCHANGED <<system, irq_en, irq_select>>

(* arc_int_enable and arc_int_disable: AUX_IRQ_SELECT, then the enable bit *)
(* of whatever interrupt is selected by then.                              *)
Select ==
  /\ Running.op.pc = "select"
  /\ irq_select' = Running.op.irq
  /\ Goto("write")
  /\ UNCHANGED <<system, table, irq_en, held>>

Write ==
  LET i == Running.op.irq  b == Running.op.body IN
  /\ Running.op.pc = "write"
  /\ irq_en' = [irq_en EXCEPT ![irq_select] = b \in {"enable", "unlock"}]
  /\ held' = IF b = "lock" THEN held \cup Owned({i}) ELSE held \ {i}
  /\ IF b \in {"lock", "unlock"} THEN NextIrq ELSE Goto("flag")
  /\ UNCHANGED <<system, table, irq_select>>

SetEnabled ==
  /\ Running.op.pc = "flag"
  /\ table' = [table EXCEPT ![Running.op.irq].enabled = Running.op.body = "enable"]
  /\ End
  /\ UNCHANGED <<system, irq_en, irq_select, held>>

-----------------------------------------------------------------------------
(* secureshield_interrupt_handle: an interrupt without a handler is        *)
(* disabled, any other runs its handler in the container it belongs to.    *)
Accepted(i) == irq_en[i] /\ \A l \in Levels : Pri[i] < l

InterruptNotInstalled(i) ==
  /\ Accepted(i) /\ table[i].handler = None
  /\ irq_select' = i
  /\ irq_en' = [irq_en EXCEPT ![i] = FALSE]
  /\ finished' = Nothing
  /\ UNCHANGED <<system, chain, table, held>>

InterruptEnter(i) ==
  /\ Accepted(i) /\ table[i].handler # None
  /\ chain' = Append(chain, [cont |-> table[i].id, level |-> Pri[i],
                             code |-> table[i].handler, op |-> Idle])
  /\ finished' = Nothing
  /\ UNCHANGED <<system, table, irq_en, irq_select, held>>

(* A container call, made outside of handlers, to a container that does    *)
(* not wait already.                                                       *)
Call(d) ==
  /\ Levels = {} /\ Running.op = Idle
  /\ d \in Containers \ ({0} \cup {chain[k].cont : k \in DOMAIN chain})
  /\ chain' = Append(chain, [cont |-> d, level |-> Thread, code |-> d, op |-> Idle])
  /\ finished' = Nothing
  /\ UNCHANGED <<system, table, irq_en, irq_select, held>>

Leave ==
  /\ Len(chain) > 1 /\ Running.op = Idle
  /\ chain' = Front(chain)
  /\ finished' = Nothing
  /\ UNCHANGED <<system, table, irq_en, irq_select, held>>

Next ==
  \/ \E op \in Operations, i \in Irqs : Trap(op, i) \/ Start(op, i)
  \/ Check \/ SetHandler \/ SetId \/ Select \/ Write \/ SetEnabled
  \/ \E i \in Irqs : InterruptNotInstalled(i) \/ InterruptEnter(i)
  \/ \E d \in Containers : Call(d)
  \/ Leave

Spec == Init /\ [][Next]_vars

-----------------------------------------------------------------------------
(* The variables have their types; AUX_IRQ_SELECT always names one of the  *)
(* runtime's interrupts, also in the loops of lock and unlock.             *)
TypeOK ==
  /\ system \in Systems
  /\ chain \in Seq(Activities) /\ Len(chain) >= 1
  /\ table \in [Irqs -> Entries] /\ irq_en \in [Irqs -> BOOLEAN]
  /\ irq_select \in Irqs /\ held \subseteq Irqs
  /\ finished \in Containers \X (Operations \cup {"none"})

(* Among normal containers, a handler runs in the container that installed *)
(* it, whatever became of the interrupt since it was enabled.              *)
HandlerInItsContainer == Secure = {} => \A k \in DOMAIN chain : chain[k].code = chain[k].cont

(* When cpu_unlock returns, the interrupts of the container that it has    *)
(* enabled are enabled again.                                              *)
UnlockEnables ==
  finished[2] = "unlock" =>
    \A i \in Irqs : /\ table[i].id = finished[1] /\ table[i].handler # None
                    /\ table[i].enabled
                    => irq_en[i]

(* Among normal containers a lock holds: an interrupt its owner's cpu_lock *)
(* has disabled stays disabled until the owner unlocks, or somebody who    *)
(* may works on that very interrupt, whatever calls and handlers run       *)
(* meanwhile. Not so for the background container, whose interrupts any    *)
(* unlock enables.                                                         *)
LockHolds == Secure = {} => \A i \in held : table[i].id # 0 => ~irq_en[i]

(* A normal container, whatever it asks, changes nothing of an interrupt   *)
(* that belongs to another container than the background one.              *)
NormalsKeepToTheirs ==
  [][finished' # Nothing /\ ~IsSecure(g_active_container) =>
       \A i \in Irqs : table[i].id \notin {g_active_container, 0} =>
         table'[i] = table[i] /\ irq_en'[i] = irq_en[i]]_vars
=============================================================================
