----------------------------- MODULE TaskSwitch -----------------------------
(***************************************************************************)
(* The FreeRTOS port for ARC (os/freertos/portable/Synopsys/ARC) with the  *)
(* part of the kernel that asks it to switch: task notifications and the   *)
(* suspension of the scheduler (os/freertos/tasks.c).                      *)
(*                                                                         *)
(* A step is what the code does with interrupts off, or one access to      *)
(* shared state when they are on. A handler's entry is therefore three     *)
(* steps and its exit one. Memory is one stack per task and the exception  *)
(* stack; what a push writes replaces whatever was there.                  *)
(***************************************************************************)
EXTENDS Naturals, Sequences, FiniteSets

CONSTANTS
    Tasks,        \* the tasks that have been created
    Idle,         \* the idle task, which never blocks
    Priority,     \* Priority[t]: uxPriority, higher is more urgent
    Levels,       \* interrupt priorities, 0 is the most urgent
    KernelLevels, \* the levels whose handlers call the kernel
    MaxValue,     \* bound: notifications waiting for one task
    MaxNesting,   \* bound: nested critical sections of an application
    Exc,          \* the exception stack (_e_stack)
    Boot          \* main(), before the scheduler starts

ASSUME TaskAssumption ==
    /\ Idle \in Tasks
    /\ Priority \in [Tasks -> Nat]
    /\ \A t \in Tasks : Priority[Idle] <= Priority[t]
    /\ Exc \notin Tasks /\ Boot \notin Tasks

ASSUME LevelAssumption ==
    /\ Levels \subseteq Nat /\ KernelLevels \subseteq Levels
    /\ Levels \cap Tasks = {} /\ Boot \notin Levels

ASSUME BoundAssumption == MaxValue \in Nat /\ MaxNesting \in Nat

VARIABLES
    ctx,            \* the registers: what executes, and where it is
    on,             \* the stack that sp points into, at its end
    stack,          \* the contents of the stacks
    top,            \* top[t]: the stack pxTopOfStack of t points into
    irq_act,        \* AUX_IRQ_ACT
    exc_nest_count,
    reqflg,         \* context_switch_reqflg
    crit,           \* ulCriticalNesting
    current,        \* pxCurrentTCB
    ready,          \* the tasks of pxReadyTasksLists
    pending,        \* xPendingReadyList
    suspended,      \* uxSchedulerSuspended
    yieldPending,   \* xYieldPending
    notifyState,    \* ucNotifyState
    value,          \* ulNotifiedValue
    sent            \* history: notifications given and not yet taken

port == <<on, stack, top, irq_act, exc_nest_count, reqflg, crit>>
lists == <<ready, pending>>
notes == <<notifyState, value, sent>>
vars == <<ctx, port, current, lists, suspended, yieldPending, notes>>

Front(s) == SubSeq(s, 1, Len(s) - 1)
Last(s) == s[Len(s)]

Context(of, pc, ie) ==
    [of |-> of, pc |-> pc, ie |-> ie, n |-> 0, to |-> Boot, waited |-> FALSE]

\* What is pushed: the registers of interrupted or calling code, a stack
\* pointer, and what is needed to switch back to a task.
Frame(c) == [kind |-> "frame", ctx |-> c]
SavedSp(s) == [kind |-> "sp", on |-> s]
SwitchedForgets(how, act, nesting) ==                \* slip
    [kind |-> "switch", how |-> how, act |-> act, crit |-> 0]

Switched(how, act, nesting) ==
    [kind |-> "switch", how |-> how, act |-> act, crit |-> nesting]

Init ==
    /\ ctx = Context(Boot, "boot", FALSE)
    /\ on = Exc
    /\ stack = [s \in Tasks \cup {Exc} |-> IF s = Exc THEN <<>> ELSE
                  << Frame(Context(s, "run", TRUE)), Switched("start", {}, 0) >>]
    /\ top = [t \in Tasks |-> t]
    /\ irq_act = {}
    /\ exc_nest_count = 0
    /\ reqflg = FALSE
    /\ crit = 999
    /\ current \in {t \in Tasks : \A u \in Tasks : Priority[u] <= Priority[t]}
    /\ ready = Tasks
    /\ pending = {}
    /\ suspended = 0
    /\ yieldPending = FALSE
    /\ notifyState = [t \in Tasks |-> "not waiting"]
    /\ value = [t \in Tasks |-> 0]
    /\ sent = [t \in Tasks |-> 0]

-----------------------------------------------------------------------------
(* Switching *)

Highest(tasks) == {t \in tasks : \A u \in tasks : Priority[u] <= Priority[t]}

SelectTaskAlways(tasks, depth) ==                    \* slip
    yieldPending' = FALSE /\ current' \in Highest(tasks)

\* vTaskSwitchContext, given the ready tasks and uxSchedulerSuspended
SelectTask(tasks, depth) ==
    \/ /\ depth > 0
       /\ yieldPending' = TRUE
       /\ UNCHANGED current
    \/ /\ depth = 0
       /\ yieldPending' = FALSE
       /\ current' \in Highest(tasks)

\* dispatcher_0 and the code it jumps to: the end of dispatch, of an
\* interrupt, of an exception, or the start of the task. It leaves the last
\* critical nesting, IRQ_ACT and registers that were saved on the stack s.
Resume(stacks, s, act) ==
    LET saved == Last(stacks[s])
    IN  /\ ctx' = Last(Front(stacks[s])).ctx
        /\ on' = s
        /\ stack' = [stacks EXCEPT ![s] = Front(Front(@))]
        /\ crit' = saved.crit
        /\ irq_act' = IF saved.how = "interrupt"
                      THEN {q \in saved.act : \E p \in saved.act : p < q}
                      ELSE act

\* dispatcher: the current task is left on stack s of stacks, the registers
\* having been pushed there already.
Dispatcher(stacks, s, how, act, nesting, tasks, depth) ==
    LET left == [stacks EXCEPT
                    ![s] = Append(@, Switched(how, irq_act, nesting))]
    IN  /\ SelectTask(tasks, depth)
        /\ top' = [top EXCEPT ![current] = s]
        /\ Resume(left, top'[current'], act)

\* vPortYield: dispatch, with the registers the caller goes on with
Dispatch(then, nesting, tasks, depth) ==
    Dispatcher([stack EXCEPT ![on] = Append(@, Frame(then))], on,
               "call", irq_act, nesting, tasks, depth)

start_dispatch ==
    /\ ctx.of = Boot
    /\ exc_nest_count' = 0
    /\ Resume(stack, top[current], irq_act)
    /\ UNCHANGED <<top, reqflg, current, lists, suspended, yieldPending, notes>>

-----------------------------------------------------------------------------
(* Interrupts *)

\* The processor accepts an interrupt (rule of the hardware) and the
\* prologue saves the registers.
Interrupt(p) ==
    /\ ctx.ie /\ \A q \in irq_act : p < q
    /\ stack' = [stack EXCEPT ![on] = Append(@, Frame(ctx))]
    /\ ctx' = Context(p, "entry", TRUE)
    /\ irq_act' = irq_act \cup {p}
    /\ UNCHANGED <<on, top, exc_nest_count, reqflg, crit, current, lists,
                   suspended, yieldPending, notes>>

CountHandlerNever ==                                 \* slip
    /\ ctx.pc = "entry"
    /\ ctx' = [ctx EXCEPT !.pc = "count", !.n = exc_nest_count]
    /\ UNCHANGED <<port, current, lists, suspended, yieldPending, notes>>

\* exc_entry_int from clri to seti
CountHandler ==
    /\ ctx.pc = "entry"
    /\ ctx' = [ctx EXCEPT !.pc = "count", !.n = exc_nest_count]
    /\ exc_nest_count' = exc_nest_count + 1
    /\ UNCHANGED <<on, stack, top, irq_act, reqflg, crit, current, lists,
                   suspended, yieldPending, notes>>

\* the rest of the entry: the outermost handler moves to the exception stack
ChangeStack ==
    /\ ctx.pc = "count"
    /\ \/ /\ ctx.n = 0
          /\ on' = Exc
          /\ stack' = [stack EXCEPT ![Exc] = << SavedSp(on) >>]
       \/ /\ ctx.n # 0
          /\ stack' = [stack EXCEPT ![on] = Append(@, SavedSp(on))]
          /\ UNCHANGED on
    /\ ctx' = [ctx EXCEPT !.pc = "body", !.n = 0]
    /\ UNCHANGED <<top, irq_act, exc_nest_count, reqflg, crit, current, lists,
                   suspended, yieldPending, notes>>

\* vPortYieldFromIsr, of a handler that woke a task or of any other (the tick)
vPortYieldFromIsr ==
    /\ ctx.of \in Levels /\ ctx.pc \in {"body", "woken"}
    /\ reqflg' = TRUE
    /\ ctx' = [ctx EXCEPT !.pc = "leave"]
    /\ UNCHANGED <<on, stack, top, irq_act, exc_nest_count, crit, current, lists,
                   suspended, yieldPending, notes>>

\* ret_int: the count it stores, whether the handler is the last one (IRQ_ACT
\* decides, since a handler can be interrupted before it counts itself), and
\* the request it leaves.
NestingLeftNone == 0                                 \* slip
NestingLeft == exc_nest_count - 1
OutermostByCount(act) == exc_nest_count = 1          \* slip
Outermost(act) == act = {}
RequestDropped(switch) == FALSE                      \* slip
RequestLeft(switch) == reqflg /\ ~switch

\* ret_int: clri, sp from the stack, then back to what was interrupted, or
\* to the task that the kernel chooses
ReturnFromInterrupt ==
    LET before == Last(stack[on]).on
        popped == [stack EXCEPT ![on] = Front(@)]
        act    == irq_act \ {ctx.of}
        switch == Outermost(act) /\ reqflg
    IN  /\ ctx.of \in Levels /\ ctx.pc \in {"body", "leave"}
        /\ exc_nest_count' = NestingLeft
        /\ reqflg' = RequestLeft(switch)
        /\ \/ /\ ~switch
              /\ ctx' = Last(popped[before]).ctx
              /\ on' = before
              /\ stack' = [popped EXCEPT ![before] = Front(@)]
              /\ irq_act' = act
              /\ UNCHANGED <<top, crit, current, yieldPending>>
           \/ /\ switch
              /\ Dispatcher(popped, before, "interrupt", act, crit, ready, suspended)
        /\ UNCHANGED <<lists, suspended, notes>>

\* A trap whose handler asks for a switch (exc_entry_cpu, ret_exc). The
\* handler runs with interrupts off; a nested one leaves the request behind.
Trap ==
    /\ \/ ctx.of \in Tasks /\ ctx.pc \in {"run", "critical", "held"}
       \/ ctx.of \in Levels /\ ctx.pc = "body"
    /\ \/ /\ exc_nest_count = 0 /\ irq_act = {}
          /\ Dispatcher([stack EXCEPT ![on] = Append(@, Frame(ctx))], on,
                        "exception", irq_act, crit, ready, suspended)
          /\ UNCHANGED reqflg
       \/ /\ exc_nest_count # 0 \/ irq_act # {}
          /\ reqflg' = TRUE
          /\ UNCHANGED <<ctx, on, stack, top, irq_act, crit, current, yieldPending>>
    /\ UNCHANGED <<exc_nest_count, lists, suspended, notes>>

-----------------------------------------------------------------------------
(* The kernel, called from handlers *)

GiveFromISRSwapped(u) ==                             \* slip: state written, then read
    /\ ctx.of \in KernelLevels /\ ctx.pc = "body"
    /\ value[u] < MaxValue
    /\ ctx' = [ctx EXCEPT !.pc = "giving", !.n = value[u], !.to = u]
    /\ notifyState' = [notifyState EXCEPT ![u] = "received"]
    /\ UNCHANGED <<port, current, lists, suspended, yieldPending, value, sent>>

\* vTaskNotifyGiveFromISR up to the increment: what it has read of u.
\* portSET_INTERRUPT_MASK_FROM_ISR is empty in this port.
GiveFromISR(u) ==
    /\ ctx.of \in KernelLevels /\ ctx.pc = "body"
    /\ value[u] < MaxValue
    /\ ctx' = [ctx EXCEPT !.pc = "giving", !.n = value[u], !.to = u,
                          !.waited = (notifyState[u] = "waiting")]
    /\ notifyState' = [notifyState EXCEPT ![u] = "received"]
    /\ UNCHANGED <<port, current, lists, suspended, yieldPending, value, sent>>

\* and from the increment's write on
FinishGive ==
    LET u == ctx.to
        urgent == ctx.waited /\ Priority[u] > Priority[current]
    IN  /\ ctx.pc = "giving"
        /\ value' = [value EXCEPT ![u] = ctx.n + 1]
        /\ sent' = [sent EXCEPT ![u] = @ + 1]
        /\ \/ ctx.waited /\ suspended = 0 /\ ready' = ready \cup {u} /\ UNCHANGED pending
           \/ ctx.waited /\ suspended > 0 /\ pending' = pending \cup {u} /\ UNCHANGED ready
           \/ ~ctx.waited /\ UNCHANGED lists
        /\ yieldPending' = (yieldPending \/ urgent)
        /\ ctx' = Context(ctx.of, IF urgent THEN "woken" ELSE "leave", TRUE)
        /\ UNCHANGED <<port, current, suspended, notifyState>>

-----------------------------------------------------------------------------
(* The kernel, called from tasks. A critical section is one step, unless    *)
(* the task gives the processor away inside it.                            *)

Running(pc) == ctx.of \in Tasks /\ ctx.pc = pc

\* portENTER_CRITICAL and portEXIT_CRITICAL in an application
EnterCritical ==
    /\ Running("run") \/ Running("critical")
    /\ crit < MaxNesting
    /\ ctx' = [ctx EXCEPT !.pc = "critical", !.ie = FALSE]
    /\ crit' = crit + 1
    /\ UNCHANGED <<on, stack, top, irq_act, exc_nest_count, reqflg, current,
                   lists, suspended, yieldPending, notes>>

\* portEXIT_CRITICAL; then is where the task goes on
ExitCritical(inside, then) ==
    /\ Running(inside)
    /\ crit' = IF crit > 0 THEN crit - 1 ELSE crit
    /\ ctx' = [ctx EXCEPT !.pc = IF crit > 1 THEN @ ELSE then,
                          !.ie = @ \/ crit = 1]
    /\ UNCHANGED <<on, stack, top, irq_act, exc_nest_count, reqflg, current,
                   lists, suspended, yieldPending, notes>>

\* taskYIELD
vPortYield ==
    /\ Running("run") \/ Running("held")
    /\ Dispatch(ctx, crit, ready, suspended)
    /\ UNCHANGED <<exc_nest_count, reqflg, lists, suspended, notes>>

\* ulTaskNotifyTake without a time limit: the first critical section, up to its end or the yield
ulTaskNotifyTake ==
    LET then == Context(current, "taking", FALSE)
    IN  /\ Running("run") /\ ctx.of # Idle
        /\ \/ /\ value[current] = 0
              /\ notifyState' = [notifyState EXCEPT ![current] = "waiting"]
              /\ ready' = ready \ {current}
              /\ Dispatch(then, crit + 1, ready', suspended)
           \/ /\ value[current] # 0
              /\ ctx' = then
              /\ crit' = crit + 1
              /\ UNCHANGED <<on, stack, top, irq_act, current, ready,
                             yieldPending, notifyState>>
        /\ UNCHANGED <<exc_nest_count, reqflg, pending, suspended, value, sent>>

TakeCountLeavesOne ==                                \* slip: off by one
    /\ Running("taken")
    /\ value' = [value EXCEPT ![current] = IF @ > 1 THEN @ - 1 ELSE @]
    /\ sent' = [sent EXCEPT ![current] = IF @ = 0 THEN 0 ELSE @ - 1]
    /\ notifyState' = [notifyState EXCEPT ![current] = "not waiting"]
    /\ ctx' = [ctx EXCEPT !.pc = "run"]
    /\ UNCHANGED <<port, current, lists, suspended, yieldPending>>

\* and the second one
TakeCount ==
    /\ Running("taken")
    /\ value' = [value EXCEPT ![current] = IF @ = 0 THEN 0 ELSE @ - 1]
    /\ sent' = [sent EXCEPT ![current] = IF @ = 0 THEN 0 ELSE @ - 1]
    /\ notifyState' = [notifyState EXCEPT ![current] = "not waiting"]
    /\ ctx' = [ctx EXCEPT !.pc = "run"]
    /\ UNCHANGED <<port, current, lists, suspended, yieldPending>>

\* xTaskNotifyGive
xTaskNotifyGive(u) ==
    LET waited == notifyState[u] = "waiting"
    IN  /\ Running("run") /\ u # current /\ value[u] < MaxValue
        /\ notifyState' = [notifyState EXCEPT ![u] = "received"]
        /\ value' = [value EXCEPT ![u] = @ + 1]
        /\ sent' = [sent EXCEPT ![u] = @ + 1]
        /\ ready' = IF waited THEN ready \cup {u} ELSE ready
        /\ \/ /\ waited /\ Priority[u] > Priority[current]
              /\ Dispatch(Context(current, "leaving", FALSE), crit + 1, ready', suspended)
           \/ /\ ~(waited /\ Priority[u] > Priority[current])
              /\ UNCHANGED <<ctx, on, stack, top, irq_act, crit, current, yieldPending>>
        /\ UNCHANGED <<exc_nest_count, reqflg, pending, suspended>>

\* vTaskSuspendAll: the load and the store of ++uxSchedulerSuspended. An
\* application's suspensions are not nested here.
vTaskSuspendAll ==
    /\ Running("run")
    /\ ctx' = [ctx EXCEPT !.pc = "suspending", !.n = suspended]
    /\ UNCHANGED <<port, current, lists, suspended, yieldPending, notes>>

StoreSuspended ==
    /\ Running("suspending")
    /\ suspended' = ctx.n + 1
    /\ ctx' = [ctx EXCEPT !.pc = "held", !.n = 0]
    /\ UNCHANGED <<port, current, lists, yieldPending, notes>>

\* xTaskResumeAll
YieldAtResumeNever == FALSE                          \* slip
YieldAtResume ==
    yieldPending \/ \E u \in pending : Priority[u] >= Priority[current]

xTaskResumeAll ==
    LET resumed == suspended = 1
    IN  /\ Running("held")
        /\ suspended' = suspended - 1
        /\ ready' = IF resumed THEN ready \cup pending ELSE ready
        /\ pending' = IF resumed THEN {} ELSE pending
        /\ \/ /\ resumed /\ YieldAtResume
              /\ Dispatch(Context(current, "leaving", FALSE), crit + 1, ready', suspended')
           \/ /\ ~(resumed /\ YieldAtResume)
              /\ ctx' = [ctx EXCEPT !.pc = IF resumed THEN "run" ELSE "held"]
              /\ UNCHANGED <<on, stack, top, irq_act, crit, current, yieldPending>>
        /\ UNCHANGED <<exc_nest_count, reqflg, notes>>

-----------------------------------------------------------------------------
Leave ==
    \/ ExitCritical("critical", "run")
    \/ ExitCritical("taking", "taken")
    \/ ExitCritical("leaving", "run")

Next ==
    \/ start_dispatch
    \/ \E p \in Levels : Interrupt(p)
    \/ CountHandler
    \/ ChangeStack
    \/ vPortYieldFromIsr
    \/ ReturnFromInterrupt
    \/ Trap
    \/ \E u \in Tasks \ {Idle} : GiveFromISR(u) \/ xTaskNotifyGive(u)
    \/ FinishGive
    \/ EnterCritical
    \/ Leave
    \/ vPortYield
    \/ ulTaskNotifyTake
    \/ TakeCount
    \/ vTaskSuspendAll
    \/ StoreSuspended
    \/ xTaskResumeAll

Spec == Init /\ [][Next]_vars

-----------------------------------------------------------------------------
(* Properties *)

PCs == {"boot", "entry", "count", "body", "giving", "woken", "leave", "run",
        "critical", "taking", "taken", "leaving", "suspending", "held"}

\* The variables have their types; in particular as many handlers end as
\* were counted.
TypeOK ==
    /\ ctx \in [of : Tasks \cup Levels \cup {Boot}, pc : PCs, ie : BOOLEAN,
                n : Nat, to : Tasks \cup {Boot}, waited : BOOLEAN]
    /\ on \in Tasks \cup {Exc}
    /\ top \in [Tasks -> Tasks \cup {Exc}]
    /\ irq_act \subseteq Levels
    /\ exc_nest_count \in Nat
    /\ reqflg \in BOOLEAN /\ yieldPending \in BOOLEAN
    /\ crit \in Nat /\ suspended \in Nat
    /\ current \in Tasks /\ ready \subseteq Tasks /\ pending \subseteq Tasks
    /\ notifyState \in [Tasks -> {"not waiting", "waiting", "received"}]
    /\ value \in [Tasks -> Nat] /\ sent \in [Tasks -> Nat]

\* No request for a switch is lost: when a task runs, nothing that a handler
\* asked for is left undone, and, unless a task has suspended the scheduler
\* or code runs with interrupts off, nobody more urgent is kept waiting.
MostUrgentRuns ==
    ctx.of \in Tasks =>
        /\ ~reqflg
        /\ ctx.of = current
        /\ ctx.ie /\ suspended = 0 => current \in Highest(ready)

\* The exception stack is entered from its end only when nothing on it is
\* still needed: a second handler never restarts it under a first one.
ExceptionStackFree == ctx.pc = "count" /\ ctx.n = 0 => stack[Exc] = <<>>

\* ulCriticalNesting belongs to the task that runs, although one variable
\* serves all: interrupts are off exactly while that task is in a critical
\* section of its own, whatever ran since it entered it.
InterruptsFollowNesting ==
    ctx.of \in Tasks =>
        /\ crit > 0 <=> ctx.pc \in {"critical", "taking", "leaving"}
        /\ ctx.ie <=> crit = 0

\* Where a task is: in the registers, in the frame of the handler that
\* interrupted it, or where it was switched away from.
IsLeft(t) == t # current \/ ctx.of = Boot

Interrupted == IF ctx.of \in Tasks THEN ctx ELSE Head(stack[current]).ctx

TaskAt(t) ==
    IF IsLeft(t)
    THEN [at |-> Last(Front(stack[top[t]])).ctx, crit |-> Last(stack[top[t]]).crit]
    ELSE [at |-> Interrupted, crit |-> crit]

\* Between vTaskSuspendAll and xTaskResumeAll a task keeps the processor
\* from all others, although the increment of uxSchedulerSuspended can be
\* interrupted, and switched away from, half way.
SuspensionHolds ==
    \A t \in Tasks : TaskAt(t).at.pc = "held" => t = current /\ suspended > 0

\* A task that was notified does not wait, and ulTaskNotifyTake does not
\* return without a notification.
NotifiedTasksAreReady ==
    /\ \A t \in Tasks : sent[t] > 0 => t \in ready \cup pending
    /\ ctx.pc = "taken" => value[current] > 0

\* Each notification given is counted once.
GivesAreCounted == value = sent

\* Where the handler of level p is: in the registers, or in a frame on one of
\* the two stacks in use. A set, since it could be lost, or be there twice.
FramesOn(s) ==
    {stack[s][i].ctx : i \in {j \in DOMAIN stack[s] : stack[s][j].kind = "frame"}}

HandlerAt(p) == {c \in {ctx} \cup FramesOn(current) \cup FramesOn(Exc) : c.of = p}

\* The unfinished handlers have a bit each in AUX_IRQ_ACT; the more urgent one
\* began later.
LevelOf(i) == CHOOSE p \in irq_act : Cardinality({q \in irq_act : p < q}) = i - 1

Nest == [i \in 1 .. Cardinality(irq_act) |-> HandlerAt(LevelOf(i))]

Places == [t \in Tasks |-> TaskAt(t)]

\* Every task finds its registers and its nesting as it left them, and the
\* handlers nest.
M == INSTANCE Multitasking WITH
        task <- Places, runs <- current, handlers <- Nest

ImplementsMultitasking == M!Spec

\* Handlers and the sections that hold others up are finite code; interrupts
\* leave time for what they interrupt.
Progress(x) ==
    /\ ctx.of = x
    /\ \/ start_dispatch \/ CountHandler \/ ChangeStack \/ FinishGive
       \/ ReturnFromInterrupt \/ StoreSuspended \/ xTaskResumeAll \/ Leave
       \/ vPortYieldFromIsr

FairSpec == Spec /\ \A x \in Tasks \cup Levels \cup {Boot} : SF_vars(Progress(x))

\* A task more urgent than all others gets the processor once it is ready.
UrgentTaskRuns ==
    \A t \in Tasks : Highest(Tasks) = {t} => (t \in ready \cup pending ~> current = t)
=============================================================================
