--------------------------- MODULE ContainerSwitch ---------------------------
(***************************************************************************)
(* SecureShield runtime, version 1 (library/secureshield): how the runtime *)
(* moves the processor between containers on a container call, on the      *)
(* return from one, on an interrupt and on the return from an interrupt    *)
(* handler.                                                                *)
(*                                                                         *)
(* One action is one passage through secureshield_entry.s: the prologue    *)
(* that saves the exception frame on the stack of the running container,   *)
(* the C handler, SAVE_CALLEE_REGS / RESTORE_CALLEE_REGS when the handler  *)
(* asks for another stack, the epilogue and rtie.  Interrupts are off for  *)
(* the whole passage, so it is atomic for the containers.                  *)
(*                                                                         *)
(* Stacks are counted in cells from the top of the stack: sp is the number *)
(* of cells in use, an INT_EXC_FRAME is one cell, a callee frame is one    *)
(* cell (a PROCESSOR_FRAME is two), and a function's locals are whole      *)
(* cells.  "sp - ARC_CALLEE_FRAME_SIZE" in the code is sp + 1 here.        *)
(***************************************************************************)
EXTENDS Integers, FiniteSets

CONSTANTS
  Containers,   \* ids of the configured containers, 0 is the background one
  Secure,       \* the containers of type SECURESHIELD_CONTAINER_SECURE
  Interfaces,   \* the containers that declare an interface function
  Irqs,         \* interrupt numbers whose entry belongs to the runtime
  Priorities,   \* hardware priorities, 0 is the highest
  MaxDepth,     \* SECURESHIELD_CONTAINER_STACK_MAX_DEPTH
  Boot,         \* interrupt set-ups the containers may have made
  Values,       \* values of r0 told apart (arguments and results)
  MaxLocals,    \* bound: cells of locals of one activity
  StackCells,   \* bound: cells of a container's stack
  AllowLoops    \* may a container call one that waits for it? (doc: no)

ASSUME ContainersAssumption ==
  /\ Containers \subseteq Nat /\ 0 \in Containers
  /\ Secure \subseteq Containers /\ Interfaces \subseteq Containers \ {0}
Entries == [id : Containers, handler : BOOLEAN, enabled : BOOLEAN]
SetUps  == [table : [Irqs -> Entries], enable : [Irqs -> BOOLEAN],
            pri : [Irqs -> Priorities]]

ASSUME BootAssumption == Boot \subseteq SetUps
ASSUME NumbersAssumption ==
  /\ MaxDepth \in Nat \ {0} /\ MaxLocals \in Nat
  /\ StackCells \in Nat /\ StackCells >= 4
  /\ Priorities \subseteq Nat
  /\ 0 \in Values
  /\ AllowLoops \in BOOLEAN
ASSUME FiniteAssumption == IsFiniteSet(Containers) /\ IsFiniteSet(Irqs)

VARIABLES
  act, sp, usp, r0, ie,         \* the processor
  irq_act, irq_en, irq_pri,     \* the interrupt unit
  mem,                          \* the stack memory of every container
  stack, ptr, curr_id,          \* g_container_stack, its pointer, current id
  context,                      \* g_container_context
  active,                       \* g_active_container (whose MPU set is loaded)
  table,                        \* secureshield_int_handler_table
  halted                        \* SECURESHIELD_HALT was reached

cpu   == <<act, sp, usp, r0, ie>>
irq   == <<irq_act, irq_en, irq_pri>>
chain == <<stack, ptr, curr_id, context, active>>
vars  == <<cpu, irq, mem, chain, table, halted>>

Depths     == 0 .. StackCells
Activities == [cont : Containers, kind : {"main", "fn", "isr", "direct"},
               fp : Depths]
Cells      == [kind : {"exc", "callee", "local"}, act : Activities,
               r0 : Values, ie : BOOLEAN, usp : Depths]
Items      == [src_id : Containers, src_sp : Depths]
Contexts   == [cur_sp : Depths, normal_sp : Depths, cpu_status : BOOLEAN]

Main == [cont |-> 0, kind |-> "main", fp |-> 0]

(* What the running activity leaves in the three sorts of cells.           *)
ExcCell(a, v, e) == [kind |-> "exc", act |-> a, r0 |-> v, ie |-> e, usp |-> 0]
CalleeCell(u)    == [kind |-> "callee", act |-> Main, r0 |-> 0, ie |-> TRUE,
                     usp |-> u]
LocalCell        == [kind |-> "local", act |-> Main, r0 |-> 0, ie |-> TRUE,
                     usp |-> 0]

IsSecure(c) == c \in Secure
Background  == 0

(* Where a function of container c finds the locals of its caller end: on  *)
(* the kernel stack when c is secure, on its own user stack when normal.   *)
Frame(c, k, u) == IF IsSecure(c) THEN k ELSE u
LocalsSp       == Frame(act.cont, sp, usp)

-----------------------------------------------------------------------------
(* vmpu_ac_container leaves every container but the background one with an *)
(* idle processor frame at the top of its stack; secureshield_startup.s    *)
(* then drops into the background container with nothing on its stack.     *)
IdleContext(c) == [cur_sp |-> IF c = Background THEN 0 ELSE 2,
                   normal_sp |-> 0, cpu_status |-> TRUE]

(* The interrupt unit and the table are any of the set-ups in Boot.        *)
Init ==
  /\ act = Main /\ sp = 0 /\ usp = 0 /\ r0 = 0 /\ ie = TRUE
  /\ irq_act = {}
  /\ \E b \in Boot : table = b.table /\ irq_en = b.enable /\ irq_pri = b.pri
  /\ mem = [c \in Containers |-> [k \in 1 .. StackCells |->
              IF k = 2 THEN CalleeCell(0) ELSE LocalCell]]
  /\ stack = [k \in 0 .. MaxDepth - 1 |-> [src_id |-> 0, src_sp |-> 0]]
  /\ ptr = 0 /\ curr_id = Background /\ active = Background
  /\ context = [c \in Containers |-> IdleContext(c)]
  /\ halted = FALSE

StackFullLate == ptr > MaxDepth        \* slip: the check is one too late

(* The container stack (secureshield_container_stack.h).                   *)
StackFull == ptr = MaxDepth

(* Slips: the context keeps the user stack pointer it had; no room is      *)
(* reserved for the callee frame that follows.                             *)
PushForgetsUserSp(src, src_sp, status, dst) ==
  /\ stack' = [stack EXCEPT ![ptr] = [src_id |-> src, src_sp |-> src_sp]]
  /\ ptr' = ptr + 1
  /\ context' = [context EXCEPT ![src].cur_sp = src_sp, ![src].cpu_status = status]
  /\ curr_id' = dst
PushShort(src, src_sp, status, dst) ==
  /\ stack' = [stack EXCEPT ![ptr] = [src_id |-> src, src_sp |-> src_sp - 1]]
  /\ ptr' = ptr + 1
  /\ context' = [context EXCEPT ![src] =
       [cur_sp |-> src_sp - 1, normal_sp |-> usp, cpu_status |-> status]]
  /\ curr_id' = dst

Push(src, src_sp, status, dst) ==
  /\ stack' = [stack EXCEPT ![ptr] = [src_id |-> src, src_sp |-> src_sp]]
  /\ ptr' = ptr + 1
  /\ context' = [context EXCEPT ![src] =
       [cur_sp |-> src_sp, normal_sp |-> usp, cpu_status |-> status]]
  /\ curr_id' = dst

(* Slip: the context goes back to the idle frame although older frames     *)
(* wait.                                                                   *)
PopToIdle(dst, dst_sp, status) ==
  /\ ptr' = ptr - 1
  /\ context' = [context EXCEPT ![dst] =
       [cur_sp |-> 2, normal_sp |-> usp, cpu_status |-> status]]
  /\ curr_id' = stack[ptr - 1].src_id
  /\ UNCHANGED stack

Pop(dst, dst_sp, status) ==
  /\ ptr' = ptr - 1
  /\ context' = [context EXCEPT ![dst] =
       [cur_sp |-> dst_sp, normal_sp |-> usp, cpu_status |-> status]]
  /\ curr_id' = stack[ptr - 1].src_id
  /\ UNCHANGED stack

(* EXCEPTION_PROLOGUE / INTERRUPT_PROLOGUE, then SAVE_CALLEE_REGS, on the  *)
(* stack of the running container.                                         *)
SaveExc    == [mem EXCEPT ![curr_id][sp + 1] = ExcCell(act, r0, ie)]
SaveCallee == [SaveExc EXCEPT ![curr_id][sp + 2] = CalleeCell(usp)]

(* Slip: AUX_USER_SP is not among the callee registers.                    *)
ResumeKeepsUserSp(c, k) ==
  /\ act' = mem'[c][k - 1].act
  /\ r0'  = mem'[c][k - 1].r0
  /\ ie'  = mem'[c][k - 1].ie
  /\ sp'  = k - 2
  /\ UNCHANGED usp

(* mov sp, r0; RESTORE_CALLEE_REGS; EXCEPTION_EPILOGUE; rtie: resume what  *)
(* the processor frame of container c at depth k holds.                    *)
Resume(c, k) ==
  /\ act' = mem'[c][k - 1].act
  /\ r0'  = mem'[c][k - 1].r0
  /\ ie'  = mem'[c][k - 1].ie
  /\ usp' = mem'[c][k].usp
  /\ sp'  = k - 2

Room == sp + 2 <= StackCells   \* overflow of a container's stack is excluded

vmpu_switch_lazy(dst) ==                \* slip: the background is shared
  active' = IF dst = Background THEN active ELSE dst

(* The MPU regions of container dst are loaded in place of the current     *)
(* one's.                                                                  *)
vmpu_switch(dst) == active' = dst

-----------------------------------------------------------------------------
(* The running code computes: a new value in r0, a push or a pop of its    *)
(* locals (never below where it was entered), clri / seti when it may.     *)
Compute(v) ==
  /\ ~halted /\ r0 # v
  /\ r0' = v
  /\ UNCHANGED <<act, sp, usp, ie, irq, mem, chain, table, halted>>

PushLocal ==
  /\ ~halted
  /\ LocalsSp < act.fp + MaxLocals
  /\ IF IsSecure(act.cont)
     THEN /\ Room /\ sp' = sp + 1
          /\ mem' = [mem EXCEPT ![act.cont][sp + 1] = LocalCell]
          /\ UNCHANGED usp
     ELSE /\ usp < StackCells /\ usp' = usp + 1
          /\ UNCHANGED <<sp, mem>>
  /\ UNCHANGED <<act, r0, ie, irq, chain, table, halted>>

PopLocal ==
  /\ ~halted
  /\ LocalsSp > act.fp
  /\ IF IsSecure(act.cont) THEN sp' = sp - 1 /\ UNCHANGED usp
                           ELSE usp' = usp - 1 /\ UNCHANGED sp
  /\ UNCHANGED <<act, r0, ie, irq, mem, chain, table, halted>>

ToggleInterrupts ==
  /\ ~halted /\ IsSecure(act.cont)
  /\ ie' = ~ie
  /\ UNCHANGED <<act, sp, usp, r0, irq, mem, chain, table, halted>>

-----------------------------------------------------------------------------
(* trap_container_call_in.                                                 *)
CallTarget(d) == d \in Interfaces /\ d # curr_id

(* What callers are told not to do and the runtime does not look at.       *)
Waiting    == {stack[k].src_id : k \in 0 .. ptr - 1}
CallerObeys(d) == AllowLoops \/ d \notin Waiting

(* arc_int_active(): the trap returns at once, nothing was called.         *)
CallInInterrupt ==
  /\ ~halted /\ Room /\ irq_act # {}
  /\ mem' = SaveExc
  /\ UNCHANGED <<cpu, irq, chain, table, halted>>

(* The caller itself, a container out of range, no such interface, or no   *)
(* room on the container stack: SECURESHIELD_HALT.                         *)
CallHalt(d) ==
  /\ ~halted /\ Room /\ irq_act = {}
  /\ \/ ~CallTarget(d)
     \/ CallTarget(d) /\ StackFull
  /\ mem' = SaveExc
  /\ halted' = TRUE
  /\ UNCHANGED <<cpu, irq, chain, table>>

ContainerCall(d, v) ==
  /\ ~halted /\ Room /\ irq_act = {}
  /\ CallTarget(d) /\ CallerObeys(d) /\ ~StackFull
  /\ Push(curr_id, sp + 2, ie, d)
  /\ LET frame == context[d].cur_sp
         entry == [cont |-> d, kind |-> "fn",
                   fp |-> Frame(d, frame - 2, mem[d][frame].usp)]
     IN  /\ mem' = [SaveCallee EXCEPT ![d][frame - 1] =
                      ExcCell(entry, v, context[d].cpu_status)]
         /\ vmpu_switch(d)
         /\ Resume(d, frame)
  /\ UNCHANGED <<irq, table, halted>>

(* The called function returns to secureshield_secure_call_container_out:  *)
(* trap_container_call_out.                                                *)
CallReturn ==
  /\ ~halted /\ Room
  /\ act.kind = "fn" /\ LocalsSp = act.fp
  /\ ptr # 0
  /\ Pop(curr_id, sp + 2, ie)
  /\ LET src == stack[ptr - 1]
     IN  /\ mem' = [SaveCallee EXCEPT ![src.src_id][src.src_sp - 1].r0 = r0]
         /\ vmpu_switch(src.src_id)
         /\ Resume(src.src_id, src.src_sp)
  /\ UNCHANGED <<irq, table, halted>>

-----------------------------------------------------------------------------
(* An interrupt is accepted while STATUS32.IE is set, its enable bit is    *)
(* set and every active interrupt has a lower priority.                    *)
Accepted(i) ==
  /\ ~halted /\ Room
  /\ ie /\ irq_en[i]
  /\ \A p \in irq_act : irq_pri[i] < p

(* secureshield_interrupt_handle: no handler, disable it and return.       *)
InterruptNotInstalled(i) ==
  /\ Accepted(i) /\ ~table[i].handler
  /\ irq_en' = [irq_en EXCEPT ![i] = FALSE]
  /\ mem' = SaveExc
  /\ UNCHANGED <<cpu, irq_act, irq_pri, chain, table, halted>>

(* The running secure container owns it: the handler is called from the    *)
(* entry, on the same stack, nothing is pushed on the container stack.     *)
InterruptDirect(i) ==
  /\ Accepted(i) /\ table[i].handler
  /\ table[i].id = curr_id /\ IsSecure(curr_id)
  /\ irq_act' = irq_act \cup {irq_pri[i]}
  /\ mem' = SaveExc
  /\ act' = [cont |-> curr_id, kind |-> "direct", fp |-> sp + 1]
  /\ sp' = sp + 1 /\ r0' = 0
  /\ UNCHANGED <<usp, ie, irq_en, irq_pri, chain, table, halted>>

(* Another container owns it, or the running normal one: the handler runs  *)
(* below the saved frame of its owner and leaves through int_out.          *)
InterruptSwitch(i) ==
  LET d == table[i].id IN
  /\ Accepted(i) /\ table[i].handler
  /\ d # curr_id \/ ~IsSecure(curr_id)
  /\ ~StackFull
  /\ irq_act' = irq_act \cup {irq_pri[i]}
  /\ mem' = SaveCallee
  /\ Push(curr_id, sp + 2, ie, d)
  /\ vmpu_switch(d)
  /\ sp' = context'[d].cur_sp
  /\ usp' = IF IsSecure(d) THEN 0 ELSE context'[d].normal_sp
  /\ ie' = IF d # curr_id THEN context[d].cpu_status ELSE ie
  /\ act' = [cont |-> d, kind |-> "isr", fp |-> Frame(d, sp', usp')]
  /\ r0' = 0
  /\ UNCHANGED <<irq_en, irq_pri, table, halted>>

(* vmpu_switch comes before container_stack_push finds the stack full.     *)
InterruptHalt(i) ==
  LET d == table[i].id IN
  /\ Accepted(i) /\ table[i].handler
  /\ d # curr_id \/ ~IsSecure(curr_id)
  /\ StackFull
  /\ irq_act' = irq_act \cup {irq_pri[i]}
  /\ mem' = SaveExc
  /\ vmpu_switch(d)
  /\ halted' = TRUE
  /\ UNCHANGED <<cpu, irq_en, irq_pri, stack, ptr, curr_id, context, table>>

ServedAll  == irq_act                   \* slips: all bits are cleared, none is
ServedNone == {}

(* AUX_IRQ_ACT: the lowest set bit is the interrupt being served.          *)
Served == {p \in irq_act : \A q \in irq_act : p <= q}

(* A handler called from the entry returns: interrupt epilogue, rtie.      *)
DirectReturn ==
  /\ ~halted
  /\ act.kind = "direct" /\ sp = act.fp
  /\ irq_act' = irq_act \ Served
  /\ act' = mem[curr_id][sp].act
  /\ r0'  = mem[curr_id][sp].r0
  /\ ie'  = mem[curr_id][sp].ie
  /\ sp'  = sp - 1
  /\ UNCHANGED <<usp, irq_en, irq_pri, mem, chain, table, halted>>

(* A handler returns to secureshield_secure_call_int_out:                  *)
(* secureshield_int_return.                                                *)
IntReturn ==
  /\ ~halted /\ Room
  /\ act.kind = "isr" /\ LocalsSp = act.fp
  /\ ptr # 0
  /\ Pop(curr_id, sp, ie)
  /\ irq_act' = irq_act \ Served
  /\ mem' = SaveCallee
  /\ LET src == stack[ptr - 1]
     IN  vmpu_switch(src.src_id) /\ Resume(src.src_id, src.src_sp)
  /\ UNCHANGED <<irq_en, irq_pri, table, halted>>

-----------------------------------------------------------------------------
Halted == halted /\ UNCHANGED vars

Next ==
  \/ \E v \in Values : Compute(v)
  \/ PushLocal \/ PopLocal \/ ToggleInterrupts
  \/ CallInInterrupt
  \/ \E d \in Containers : CallHalt(d)
  \/ \E d \in Containers, v \in Values : ContainerCall(d, v)
  \/ CallReturn
  \/ \E i \in Irqs :
       \/ InterruptNotInstalled(i) \/ InterruptDirect(i)
       \/ InterruptSwitch(i) \/ InterruptHalt(i)
  \/ DirectReturn \/ IntReturn
  \/ Halted

Spec == Init /\ [][Next]_vars

-----------------------------------------------------------------------------
(* The variables have their types; the container stack pointer stays in    *)
(* g_container_stack and every stack pointer in its container's stack.     *)
TypeOK ==
  /\ act \in Activities /\ sp \in Depths /\ usp \in Depths
  /\ r0 \in Values /\ ie \in BOOLEAN
  /\ irq_act \subseteq Priorities
  /\ irq_en \in [Irqs -> BOOLEAN] /\ irq_pri \in [Irqs -> Priorities]
  /\ mem \in [Containers -> [1 .. StackCells -> Cells]]
  /\ stack \in [0 .. MaxDepth - 1 -> Items] /\ ptr \in 0 .. MaxDepth
  /\ curr_id \in Containers /\ active \in Containers
  /\ context \in [Containers -> Contexts]
  /\ table \in [Irqs -> Entries]
  /\ halted \in BOOLEAN

(* The code that runs belongs to the container on top of the container     *)
(* stack, and the MPU holds that container's regions.                      *)
ActiveIsRunning ==
  /\ act.cont = curr_id
  /\ ~halted => active = curr_id

(* The frame every entry of the container stack points to is still there:  *)
(* a callee frame and an exception frame of an activity of that container. *)
FramesIntact ==
  \A n \in 0 .. ptr - 1 :
    LET c == stack[n].src_id
        k == stack[n].src_sp
    IN  /\ k >= 2
        /\ mem[c][k].kind = "callee"
        /\ mem[c][k - 1].kind = "exc" /\ mem[c][k - 1].act.cont = c

(* Frames of one container never overlap, and nothing that will be pushed  *)
(* on its stack, now or when it is next entered, reaches into them.        *)
InUse(c) == IF c = curr_id THEN sp ELSE context[c].cur_sp
FramesDisjoint ==
  /\ \A n \in 0 .. ptr - 1 : stack[n].src_sp <= InUse(stack[n].src_id)
  /\ \A n, m \in 0 .. ptr - 1 :
       n < m /\ stack[n].src_id = stack[m].src_id =>
         stack[n].src_sp + 2 <= stack[m].src_sp

(* A container that does not run can be entered: its context points to its *)
(* newest saved frame, or to the idle frame at the top when it waits for   *)
(* nothing, and both copies of its user stack pointer agree.               *)
Frames(c) == {stack[n].src_sp : n \in {m \in 0 .. ptr - 1 : stack[m].src_id = c}}
ContextsEnterable ==
  \A c \in Containers \ {curr_id} :
    LET k == context[c].cur_sp
    IN  /\ IF Frames(c) = {} THEN k = 2
           ELSE k \in Frames(c) /\ \A f \in Frames(c) : f <= k
        /\ mem[c][k].kind = "callee"
        /\ ~IsSecure(c) => mem[c][k].usp = context[c].normal_sp

(* What makes the three invariants above inductive: an activity of a       *)
(* secure container, running or saved in the part of the stack in use,     *)
(* keeps its locals above every frame saved before it was entered, and a   *)
(* handler called from the interrupt entry still has the frame of what it  *)
(* interrupted where its own locals begin.                                 *)
Sound(a, k) ==
  /\ IsSecure(a.cont) => a.fp <= k
  /\ a.kind = "isr" => IF IsSecure(a.cont) THEN a.fp >= 2 ELSE k >= 2
  /\ a.kind = "direct" =>
       IsSecure(a.cont) /\ a.fp >= 1 /\ mem[a.cont][a.fp].kind = "exc"
  /\ IsSecure(a.cont) =>
       \A n \in 0 .. ptr - 1 :
         stack[n].src_id = a.cont /\ stack[n].src_sp <= k =>
           stack[n].src_sp <= a.fp
CellSound(c, j) ==
  mem[c][j].kind = "exc" => mem[c][j].act.cont = c /\ Sound(mem[c][j].act, j - 1)
ActivitiesSound ==
  /\ Sound(act, sp)
  /\ \A c \in Containers, j \in 1 .. StackCells : j <= InUse(c) => CellSound(c, j)
ContextsHaveFrame == \A c \in Containers \ {curr_id} : context[c].cur_sp >= 2

SwitchInv == /\ TypeOK /\ ActiveIsRunning /\ FramesIntact /\ FramesDisjoint
             /\ ActivitiesSound /\ ContextsHaveFrame

(* A call the runtime would make, or an interrupt it would switch for,     *)
(* that finds the container stack full.                                    *)
Overflows ==
  /\ ~halted /\ StackFull
  /\ \/ irq_act = {} /\ \E d \in Containers : CallTarget(d) /\ CallerObeys(d)
     \/ \E i \in Irqs :
          /\ Accepted(i) /\ table[i].handler
          /\ \/ table[i].id # curr_id
             \/ ~IsSecure(curr_id)

(* Calls are made only outside of interrupts, a handler is never entered   *)
(* by another handler of the same urgency: so the container stack holds at *)
(* most one entry per other container and one per priority, and where      *)
(* there is room for these the overflow check of container_stack_push      *)
(* never fires.                                                            *)
DepthBound ==
  /\ ptr <= Cardinality(Containers) - 1 + Cardinality(irq_act)
  /\ Cardinality(Containers) - 1 + Cardinality({irq_pri[i] : i \in Irqs}) <= MaxDepth =>
       ~Overflows

(* The doc's rule: a container call never targets a container that waits   *)
(* for the end of a call it made itself.                                   *)
NoCallLoop == act.kind = "fn" => act.cont \notin Waiting
=============================================================================
