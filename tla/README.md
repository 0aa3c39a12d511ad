# A TLA+ development for the embARC OSP

The repository is the embARC Open Software Platform for Synopsys ARC processors:
an ARC hardware layer, device drivers, boards, a FreeRTOS port, third-party
middleware, and two libraries with hard sequential cores of their own:
**SecureShield**, a runtime that isolates containers from each other, and
**MCUboot**, a boot loader that exchanges two firmware images in flash.

This directory holds TLA+ modules that model those cores, TLC configurations that
check them on small instances, and proofs that `tlapm` checks for every instance.

    tlc -config MCContainerSwitch_nesting.cfg MCContainerSwitch.tla
    tlapm ContainerSwitchProofs.tla

Each `MC<Module>_<case>.cfg` goes with `MC<Module>.tla`; each `<Module>Proofs.tla`
is proved by itself.

## 1. Inventory

Paths are relative to `src/`; what is modelled is in bold.

| component | state | operations | what is hard | what makes it correct |
|---|---|---|---|---|
| **SecureShield container switching** (`library/secureshield/core`, v1) | `g_container_stack` (pointer, current id, entries), `g_container_context`, the frames on the containers' stacks, `g_active_container`, `AUX_IRQ_ACT` | container call and return (`trap_container_call_in/out`), interrupt entry and return (`secureshield_interrupt_handle`, `secureshield_int_return`) | calls and interrupts nest in any order; each stack pointer is kept in several places; the container stack is finite; the end of an interrupt is simulated in software | everything nests like procedure calls; frames are never overwritten; every container can be re-entered where it was left |
| **SecureShield interrupts** (`secureshield_int.c`, `export/src/interrupts.c`) | `secureshield_int_handler_table` (owner, handler, enabled), the enable bits, `AUX_IRQ_SELECT` | install/release, enable/disable, lock/unlock, delivery | normal containers trap, secure ones run the code with interrupts on; two registers written in sequence; an interrupt changes owner while enabled | a handler runs in the container that installed it; a lock holds; an unlock enables; nobody touches another one's interrupt |
| **SecureShield memory protection** (`secureshield_vmpu*.c`) | MPU entries, region lists, `g_mpu_slot` | region load at a switch, fault recovery | more regions than MPU entries; recovery replaces entries round robin, also for an instruction that needs two of them | a container reaches exactly its regions; recovery makes progress |
| SecureShield start-up and system calls | configuration | one-shot checks; container ids, atomic access | little | as for switching |
| SecureShield version 2 (`v2/`) | as version 1 | SJLI calls, hardware stack switching | most steps are made by hardware the repository does not describe | as version 1 |
| **MCUboot image swap** (`library/mcuboot/bootutil`) | two slots, the scratch area, their trailers (magic, image_ok, copy_done, swap size, status bytes) | request, confirm, swap, resume, revert, refuse | power fails between any two flash operations, in the resumed swap as well | no image lost; the swap is completed; a trial runs once unless confirmed |
| MCUboot validation, flash map | none / driver handle | hash, RSA, TLV parsing; flash calls | parsing, cryptography | not a state machine |
| **FreeRTOS port** (`os/freertos/portable/Synopsys/ARC`, with the parts of `tasks.c` that ask it to switch) | task and exception stacks, `context_switch_reqflg`, `exc_nest_count`, `ulCriticalNesting`, ready and pending lists, `uxSchedulerSuspended` | dispatch, yield, interrupt and exception entry and exit, notifications, suspension | a handler interrupted before it has counted itself; a request made between the test and the exit; one nesting counter for all tasks | no request is lost; no stack is reused while needed; a task finds its state as it left it |
| ARC exception layer (`arc/arc_exception.c`, `arc_exc_asm.s`) | handler tables, nesting counter | prologue, dispatch, epilogue | as in the port, without tasks | the interrupted context is restored |
| ARC timers, caches, MPU, uDMA | registers; DMA channel table | set-up, start, stop, callbacks | DMA completion against the caller | a channel is freed once |
| **Serial I/O** (`dw_uart.c`, `ez_sio.c`, `ringbuffer.c`) | ring buffers, FIFOs, interrupt mask | open, close, read, write, handler, callbacks | handler against reader and writer; full and empty buffers; level-triggered interrupts; the UART's character timeout; a close without the lock | characters go out and come in in order; one that is accepted is lost only by closing, a received one only beyond a full buffer or, one at a time, to the UART's timeout; neither direction stops |
| I2C and SPI (`dw_iic.c`, `dw_spi.c`) | device mode, current state, buffer descriptors | polled and interrupt transfers, abort | a shared state word that chooses what the handler does | a transfer ends once, with the right result |
| other DesignWare and subsystem drivers | registers | as above | as above | as above |
| **RW009 WiFi adapter** (`rw009.c`, `board.c`, lwIP's `pmwifi_netif.c`) | initialisation and connection status, timers, the module's announcement | initialise, join, send, transfer, periodic process | answers race timers; two tasks share the status without a lock; the module may stay silent, or busy while the processor waits for it | nothing that has begun stays under way, unless a busy module hangs the processor; the adapter keeps trying |
| boards and other peripherals | pins, clocks, modules | start-up, sensor and radio I/O | I/O only | - |
| middleware, C library | - | third-party | - | - |
| examples, contest applications (`example/baremetal/track`, KCF) | arrays | numerical code | rounding | - |

How they interact. SecureShield sits under the application: containers enter it
by `trap_s`, by interrupts and by protection faults, through
`secureshield_entry.s`, which runs with interrupts off. Its modelled parts share
the interrupt table, `AUX_IRQ_ACT` and `g_active_container`; delivery reads the
table and pushes on the container stack, and every push or pop calls
`vmpu_switch`. MCUboot runs before everything else and talks to the application
through the flash trailers only (`boot_set_pending`, `boot_set_confirmed`). The
drivers, `ez_sio` and the FreeRTOS port meet through the exception layer: a
handler calls a callback, and the callback sets a flag or a buffer that thread
code reads.

`PROJECT.json` lists, per component, what is modelled, and under `hazards` each
place where this code can go wrong in a way a test would hardly reach.

## 2. Modules

| module | models | kind |
|---|---|---|
| `ContainerCalls` | what the runtime promises: calls and interrupts nest | abstract |
| `ContainerSwitch` | `secureshield_trap.c`, `secureshield_container_stack.h`, `secureshield_entry.s`, the switching half of `secureshield_int.c` | detailed |
| `ContainerSwitchImplements` | the refinement mapping, and the properties that speak of the chain | refinement |
| `SecureInt` | the ownership half of `secureshield_int.c`, `interrupts.c`, `arc_int_enable/disable` | detailed |
| `Protection` | what memory protection promises: only what regions allow is carried out | abstract |
| `Vmpu` | `secureshield_vmpu_arc.c` | detailed |
| `Upgrades` | what MCUboot promises to an application | abstract |
| `BootSwap` | `loader.c`, `bootutil_misc.c` | detailed |
| `Multitasking` | what the FreeRTOS port promises: a processor for each task, handlers nested on top | abstract |
| `TaskSwitch` | `port.c`, `arc_support.s`, and of `tasks.c` notifications, suspension and the choice of a task | detailed |
| `SerialLine` | what `ez_sio` promises: two queues of characters | abstract |
| `RingBuffer` | `ringbuffer.c`, as operators on its structure | operators |
| `SerialIO` | `ez_sio.c` with its callbacks over `dw_uart.c` | detailed, composes with `RingBuffer` |
| `WifiLink` | `rw009.c` under the WiFi task of `board.c` and lwIP's sender | detailed |
| `ContainerSwitchProofs`, `ContainerChainProofs`, `SecureIntProofs`, `VmpuProofs`, `BootSwapProofs`, `BootUpgradeProofs`, `TaskSwitchProofs`, `SerialProofs` | the theorems (section 5) | proofs |
| `MC...` | instances for TLC | |

### ContainerSwitch

One action is one passage through `secureshield_entry.s`: prologue, C handler,
change of stack, epilogue, `rtie`. Interrupts are off for the whole passage, so
it is atomic for the containers. Between passages the running code computes,
grows and shrinks its stack and, when it may, masks interrupts
(`Compute`, `PushLocal`, `PopLocal`, `ToggleInterrupts`).

- `act, sp, usp, r0, ie` are the processor (what runs, kernel and user stack
  pointers, one register, `STATUS32.IE`); `irq_act, irq_en, irq_pri` the
  interrupt unit (its rule of acceptance is the external `Accepted`).
- `stack, ptr, curr_id` are `g_container_stack`; `context` is
  `g_container_context`; `active` is `g_active_container`, which stands for the
  loaded MPU regions; `table` is the interrupt table; `halted` says that
  `SECURESHIELD_HALT` was reached.
- `mem` is the containers' stacks, counted in cells from the top. An exception
  frame is a cell, a callee frame is a cell, a function's locals are whole cells.
  A cell keeps what tells frames apart: whose activity was saved, its `r0`, its
  interrupt state, its user stack pointer. So a frame written at a wrong address
  shows as damage to another one.
- Both normal and secure containers are there: a secure one runs on its kernel
  stack, above whatever it has saved; a normal one has a user stack, whose
  pointer `context.normal_sp` and the callee frame keep separately.
- Arguments other than `r0`, the other registers and the handling of faults are
  left out. A call to an invalid target and a full container stack halt.

`ContainerSwitchImplements` reads the chain of activities out of the container
stack and of the frames its entries point to, and TLC checks that what it reads
behaves as `ContainerCalls` says.

### SecureInt

A normal container's operation is a trap: one step (`Trap`). A secure container
is linked with the runtime and runs the same C code with interrupts on: `Start`,
then one step per access (`Check`, `SetHandler`, `SetId`, `Select`, `Write`,
`SetEnabled`, `NextIrq`). Delivery runs the table's handler in the table's owner;
the switch itself is the chain that `ContainerCalls` specifies. `code` of an
activity is the container whose function runs, `cont` the one it runs in.
`system` never changes: it is the system that was built, with its secure
containers and the operations that its containers use, one of `Systems`, so that
one run covers several. `held` and `finished` are history variables that only
properties read.

### Vmpu

Containers have regions (addresses with rights); the MPU has entries, of which
the lowest that covers an address decides. `vmpu_switch` loads the container's
regions, then the background container's, as far as they fit, and clears the
rest. An instruction is a sequence of accesses (`Begin`); it is carried out when
all of them pass (`Execute`); else the first that does not faults (`Fault`), and
`secureshield_exc_handler_protect_v` looks for a region that covers the address,
by address only, and puts it into the entry that `g_mpu_slot` names, or halts.
The instruction is then tried again, and stays wanted while its container is
switched away. `faults` is a history variable: how often the active container's
instruction has faulted since the last switch. The MPU's and the instructions'
own behaviour (`Hit`, `Passes`, `Begin`, `Execute`) is external. Which container
is switched to is free here: it is decided by `ContainerSwitch`, whose `active`
is this module's `g_active_container`.

### BootSwap

One action is one flash operation: erasing a sector, one trailer write, one sector
copy; `pc` names the next. `Resume` and `Start` are the head of
`boot_swap_if_needed`, which reads only the flash. `PowerLoss` may come between
any two operations; a copy or the erasure of a whole slot may also be half done.
The erasure of one sector and the write of one trailer field are taken as
atomic. `seen` is a history variable: the two slots as the last start to have its
effect left them, which is what the application can tell. A start counts from
the moment its marks are written: power lost after that and before the image is
entered costs a trial image its only run.

A sector holds a part of an image, whole or torn; an image is good when all its
sectors are there (hash and signature are abstracted to that); the scratch area
holds one sector, as on the boards that use it. `PowerLoss`, `Download` and the
contents of images are external.

### TaskSwitch

A step is what the code does with interrupts off, or one access to shared state
when they are on. So the entry of a handler is three steps (`Interrupt`: the
processor and the prologue; `CountHandler`: from `clri` to `seti`; `ChangeStack`:
the rest), between any two of which a more urgent interrupt may come, and its
exit is one (`ReturnFromInterrupt`).

- `ctx` is the registers: whose code executes and where it is, `STATUS32.IE`, and
  what it has read and not yet used; `on` the stack that `sp` points into;
  `stack` the contents of every stack, where each push replaces whatever was
  there. `Frame` is a saved register set, `SavedSp` the stack pointer that a
  handler's entry pushes, `Switched` what a switch pushes: the address to go on
  at and the critical nesting.
- `Dispatcher` is `dispatcher` with `vTaskSwitchContext`, and `Resume` what follows
  at the address that was pushed. A task goes on where it was switched away:
  after a call, in the exit of an exception, or in the exit of an interrupt, with
  the `AUX_IRQ_ACT` of then.
- The kernel's operations are the ones that ask for a switch: `ulTaskNotifyTake`
  without a time limit, `xTaskNotifyGive`, `vTaskNotifyGiveFromISR` in two steps
  (its interrupt mask is empty in this port), `vTaskSuspendAll` in two steps,
  `xTaskResumeAll`, `taskYIELD`, nested critical sections, traps.
- `sent` is a history variable: notifications given and not yet taken.

The mapping to `Multitasking` finds where a task is: in the registers, in the frame of
the handler that interrupted it, or where it was switched away from. A handler is
looked for by its level, in the registers and among the frames of the two stacks in
use (`HandlerAt`, `LevelOf`, `Nest`). What is found is a set: a frame that was
overwritten or left behind shows as a handler that is nowhere or in two places.

### SerialIO

`ez_sio_read` and `ez_sio_write` hold the processor lock, and the handler is not
interrupted by another user of the line, so there is one place, `pc`, where the
processor is: in a call (one step per character moved), in the handler or a
callback (one step per character moved), or between calls (`"idle"`,
`"closed"`). Only the line and the UART move between any two steps: `Drain` takes
a character out of the transmit FIFO, `Arrive` puts one into the receive FIFO,
`CharTimeout` (external) is the UART's timeout for characters that lie there
untouched. Lock and handler therefore exclude each other by the form of `Next`, as
in the code; what the lock protects (head, tail and count of the ring buffers) is
checked by the steps inside.

`ez_sio_close` takes no lock. It turns the transmit interrupt off (`ez_sio_close`,
which sets `closing`), the handler may still run for what is received, and then it
turns the receive interrupt off (`CloseRxint`); from there on no handler comes.
`dw_uart_close` waits for the FIFO (`"flush"`), and `CloseReturn` frees the ring
buffers with what they hold.

`dw_uart_isr` has the three cases that can occur: the driver enables the interrupts
for received data (with the character timeout, which has no enable bit of
its own) and for an empty transmitter, and never those for line or modem status. The
FIFOs are enabled with a trigger level of one character (`dw_uart.c:294`), so
received data are pending with the first character. Received data are identified
before an empty transmitter; whether they or the timeout come first is not in the
repository, so it is a choice. `RxTimeout` reads one character and drops it.

- `snd_rb`, `rcv_rb` are the ring buffers; `RingBuffer` has their operations with
  index arithmetic as in `ringbuffer.c`.
- `rbbuf` is the callbacks' local buffer, or what the caller still holds; `todo`
  what the driver still has to move.
- `txint` is the transmit interrupt enable; the receive interrupt is on while the
  line is open.
- `timedout` says that the UART shows a timeout; any traffic in the receive FIFO
  ends it.
- A UART without FIFOs is the instance `tx_fifo_len = rx_fifo_len = 1`. A character
  that arrives at a full FIFO is lost without a trace (`Arrive` is then a stutter).
- Ring buffers of size 0, which `rb_init` accepts, are excluded by
  `SizesAssumption`.

The mapping to `SerialLine`: what is on its way out is the transmit FIFO, then the
callback's buffer, then the ring buffer (`Outgoing`); what has been taken from the UART is the ring
buffer, then the callback's buffer (`Received`); what waits is the receive FIFO; it is
`stale` from the timeout to the end of its handler.

### WifiLink

The WiFi task of `board.c` initialises the adapter, then goes round `period`
(fetch what the module has announced), `timers`, `connect` and `delay`. It has the
highest priority, so lwIP's sender moves in `delay` only; its `poll_conn_status` is
two steps, a test and a write, between which the WiFi task may take a turn.
A transfer (`rw009_xfer`) runs under `cpu_lock_save` and waits twice, without a
limit, for the module's busy pin (`rw009.c:466` and `485`). So it is three steps:
`Begin` by the caller, then `Request` and `Response`, each only while the pin is free. Until the last
one no task moves (`Unlocked`); the module, whose pin changes at any time, and the clock do. A
transfer takes at most one packet from the module, handles it (`cmd_resp_handler`),
and hands over a command if the module is ready; `After` is what its caller does
when it returns. `rw009_wnic_init` has two exits: the transfer of its command, and the
return when the pins or the bus do not open (`rw009.c:656-671`), which leaves the status
"during" with neither power nor timer. `expired` says which timers have passed:
setting a timer resets it and `TimePasses` sets it at any time. The module is external:
`command` is what it has been told, `waiting` what it holds for the host, `busy` its pin.
Scanning, disconnecting, frames and the shell's commands are left out.

## 3. Runs

| run | instance | shows |
|---|---|---|
| `nesting` | 3 containers (background, secure, normal), 2 or 3 interrupts of different priority, container stack of 4 | that calls and interrupts nest: `TypeOK`, `ActiveIsRunning`, `FramesIntact`, `FramesDisjoint`, `ContextsEnterable`, `DepthBound`, `CallerIsWaiting`, `IrqActIsNesting`, and the refinement of `ContainerCalls`; with 3 interrupts the stack fills up, no entry is written outside it, and the processor halts and enters nobody |
| `loops` | callers that do not keep the documented rule | violation of `NoCallLoop` |
| `ints_owners` | 3 normal containers with all six operations, or two of them and a secure one that is interrupted between two accesses | `TypeOK`, `HandlerInItsContainer`, `UnlockEnables`, `LockHolds`, `NormalsKeepToTheirs` |
| `ints_unlock` | a secure and the background container; enable, lock, unlock | violation of `UnlockEnables` |
| `vmpu` | 4 containers (background, 2 normal that share a region, secure), MPU of 6 entries, of which 2 are reserved and 2 are replaced by recovery | `TypeOK`, `EntriesUsable`, `FirstRegionsStay`, `RetriesBounded`, the refinement of `Protection`, `AllowedIsDone` |
| `boot_power` | slots of 3 sectors, images of 1, 2 and 3, any number of upgrades and power losses, outside the two circumstances below | `TypeOK`, `NothingLost`, `NeverFailed`, the refinement of `Upgrades`, `EventuallyRuns` |
| `boot_stale` | slots of 2 sectors, power also lost while slot 0 shows an old trailer | violation of `InterruptedSwapsComplete` |
| `boot_revert` | slots of 2 sectors, power also lost in a revert | violation of `RevertsAreConfirmed` |
| `task_switch` | 3 tasks of 2 priorities, 2 interrupt levels, of which the less urgent calls the kernel | `TypeOK`, `MostUrgentRuns`, `ExceptionStackFree`, `InterruptsFollowNesting`, `SuspensionHolds`, `NotifiedTasksAreReady`, `GivesAreCounted`, the refinement of `Multitasking`, `UrgentTaskRuns` |
| `task_lost_give` | 3 tasks of 3 priorities, both levels call the kernel | violation of `GivesAreCounted` |
| `serial_line` | ring buffers, FIFOs, callback buffers and calls of 2 characters; timeouts and closing at any time | `TypeOK`, `NeverWaits`, the refinement of `SerialLine`, `OutputGoesOn`, `InputGoesOn` |
| `wifi_timers` | one network, a module that may stay busy, drop, refuse, delay or never answer, transfers and an initialisation that may fail | `EndsInTime` |

### Bounds, and why they are enough

- *Containers and interrupts* (`nesting`). A secure and a normal container besides the
  background one is every combination of caller and callee kinds but
  secure-to-secure and normal-to-normal; the code treats kinds one at a time
  (the kind of the source when it saves, of the destination when it enters), and
  the theorems hold for any containers. Two priorities give a handler in a
  handler.
- *`MaxDepth` 4* is the depth `DepthBound` predicts for two interrupts
  (2 calls, 2 handlers): the stack is filled and nothing finds it full (`Overflows`
  means a call or a handler that would be turned away by the check of
  `container_stack_push`, not a full stack nobody pushes on). With three interrupts
  it overflows, in calls and in handlers. `StackCells` 9 holds an idle frame
  and the deepest nesting on one stack.
- *`MaxLocals` 1, two values of `r0`*: enough for a lost result or a wrong stack
  pointer to show.
- *`Boot <- AnyOwners`*: two interrupts with any owners up to their order, one also
  without a handler, and three interrupts with three owners in the other order; the
  table changes in `SecureInt` only.
- *`VIEW LiveState`*: two states that differ only in dead memory (cells above
  every pointer, container stack entries above `ptr`, the context of the running
  container, which is written before it is read) are taken for one. No property but
  `TypeOK` reads dead memory, and it is proved without the view.
- *Two interrupts* in `SecureInt`: one to be interrupted at, one to interrupt
  with; the loops of lock and unlock still take two turns. Containers do not call
  back into a waiting one (the finding of `loops`). `Systems` splits the
  operations of the secure container over two systems to keep the state space
  small; the theorems hold for all of them together.
- *Six MPU entries*: recovery has two entries to replace, as many as an
  instruction can need at once (its code and one operand), and no set of regions
  fits. With a single recoverable entry safety still holds, but an instruction
  that needs two background regions would evict the one with the other for ever;
  `EntryAssumption` excludes less than that, so `AllowedIsDone` is claimed of the
  instance. `MaxFaults` 4 is one more than `RetriesBounded` allows.
- *Two or three sectors*: first, middle and last sector, and a last one shared or
  not with the trailer, are the cases `boot_swap_sectors` tells apart. The three
  image sizes reach them; exchanging images of different sizes needs two.
  Nothing bounds the number of upgrades or power losses.
- *`Excluded`* names exactly the circumstances of the two findings: `"stale"` is
  power lost while slot 0 shows the magic and copy_done of an earlier upgrade and
  the status is in the scratch area; `"revert"` is power lost in a revert before
  its marks are written. `boot_power` shows that nothing else goes wrong; the
  other two runs put back one circumstance each.
- *Three tasks*: two that share the lowest priority, one of them the idle task,
  and one above them; so a switch may be forced by priority, chosen among equals,
  or not needed. `MaxValue` 1 and `MaxNesting` 2 (2 and 2 for the violation): a
  count that is there or not, a critical section inside another one (a yield inside a
  critical section counts as well). Suspensions of one task are not nested. Two
  levels give one handler on top of another at each step of its entry and exit.
- *Two characters everywhere in `serial_line`*: a buffer that is empty, partly
  filled and full; a wrap-around of the ring's indices; a call that is cut short;
  characters are numbered modulo 2, which tells a repeated or exchanged
  neighbour. The theorems hold for all sizes.
- *`RW009_INIT_RETRY` 3* is the driver's; `MaxWaiting` 2 lets the answer to an old
  command wait in front of the answer to a new one.

`CHECK_DEADLOCK` is on everywhere. A halted SecureShield spins, which is a
stuttering action (`Halted`).

### Fairness

Containers may compute forever and interrupts may never come, so `ContainerSwitch`
and `SecureInt` have no fairness and claim no progress.

- `BootSwap`: `WF_vars(BootStep)`. The boot loader is a sequential program that runs
  while there is power, and no step waits for anything. `EventuallyRuns` is claimed of the
  behaviours in which power losses stop.
- `Vmpu`: weak fairness of `Execute` and of the fault: a container that stays active
  keeps executing. `AllowedIsDone` does not claim anything of a container that is
  switched away.
- `TaskSwitch`: strong fairness of `Progress(x)` for every task, level and the start-up:
  the code of handlers and of the sections that hold others up is finite, and
  interrupts leave time for what they interrupt, which a processor that is
  interrupted again and again needs assumed. Nothing is assumed of a task's own code:
  in particular not that it yields.
- `SerialIO`: weak fairness of the line's `Drain`, of a call that has begun
  (closing included), of the handler and of opening again; strong fairness of
  reading, since the lock and the handler disable the call again and again. Nothing is
  assumed of arrivals and timeouts. Both liveness properties except `Jammed`, a
  receiver whose ring buffer is full while the interrupt that waits for it keeps the
  program from reading (section 4), and `DiscardsForEver`: a jammed receiver loses a
  character with each timeout, and since the model has no time, another one may
  arrive each time before the program runs.
- `WifiLink`: weak fairness of the WiFi task, which nothing outranks, of
  `rw009_xfer` and of `TimePasses`. A transfer waits for the busy pin, so its
  fairness says nothing while the module is busy, and the WiFi task is disabled as long as a transfer
  is under way. Nothing is assumed of the module, its pin or the sender:
  `EndsInTime` excepts the behaviours in which a transfer never ends (`Hangs`).

## 4. Findings

- **`loops`.** `trap_container_call_in` refuses only a call to the caller itself
  (`secureshield_trap.c:80`). The documentation forbids loops of calls
  (`doc/documents/lib/secureshield.rst:268`); container 1 calling 2 calling 1 is
  executed, over the suspended activity of container 1.
- **`ints_unlock`.** `secureshield_cpu_unlock` calls `cpu_lock()` when it is
  executed with privilege (`interrupts.c:137`).
- **`boot_stale`.** The first row of `boot_status_tables` (`loader.c:61`) answers
  "no status" when slot 0 has magic and copy_done. In a full-slot swap after an
  earlier upgrade, slot 0 keeps that trailer until state 2 while the status is in
  the scratch area: power lost after slot 1's sector is erased leaves one sector
  of slot 1's image in the scratch area only, and nothing resumes.
- **`boot_revert`.** `boot_previous_swap_type` (`loader.c:203`) reads the trailers
  before copy_done is written and so never answers REVERT: a resumed revert is
  treated as PERM, is not confirmed, and is reverted on the next start.
- **`task_lost_give`.** `vTaskNotifyGiveFromISR` relies on
  `portSET_INTERRUPT_MASK_FROM_ISR` (`tasks.c:4898`), which this port leaves empty,
  while its interrupt entry lets more urgent handlers in. A handler that interrupts
  another one between its read and its write of the count has its give
  overwritten. `GivesAreCounted` holds when only one level calls the kernel.

More places where the code differs from what one would expect, without a run:

- In a secure container `arc_int_enable` and `arc_int_disable` select an interrupt
  and then write its enable bit, with interrupts on (`inc/arc/arc_exception.h:260`):
  a handler that does the same in between makes the second write hit its own
  interrupt. So `LockHolds` and `UnlockEnables` are claimed of systems whose
  containers are normal.
- cpu_lock and cpu_unlock of any container also act on the background container's
  interrupts (id 0), so `LockHolds` is stated for the other owners.
- `secure_int_handler_install` writes the handler before the owner, so with a
  secure container that takes over an enabled background interrupt
  `HandlerInItsContainer` does not hold; it is claimed of normal containers.
- An access that its region does not permit is "recovered" with success, since the
  search looks at addresses only (`secureshield_vmpu_arc.c:126`): the instruction
  faults for ever. It is never carried out, which `ImplementsProtection` shows.
- `ez_sio` with a full receive ring buffer leaves a level-triggered interrupt
  pending (`ez_sio.c:98`): the program cannot begin the read that would make room.
  What the callback has read from the FIFO and cannot push is lost (`ez_sio.c:95`).
- On a character timeout `dw_uart_isr` reads a character and drops it
  (`dw_uart.c:926`), whether or not there is room for it. `SerialLine` therefore promises
  that at most the oldest waiting character is lost for each time without traffic.
- `rw009_xfer` waits for the module's busy pin in loops without a limit, with the
  processor locked (`rw009.c:466`, `485`): a module that stays busy stops the
  whole processor. `EndsInTime` excepts this.
- When its pins or its bus do not open, `rw009_wnic_init` returns with init_status
  "during" (`rw009.c:656-671`). Without power `rw009_period_process` does nothing, so
  nothing ends this initialisation. `EndsInTime` speaks of those that have power.
- When its timer ends an attempt to join, `rw009_period_process` resets
  conn_status and leaves busy_status (`rw009.c:1233`): every later
  `rw009_wnic_connect` is refused, though the task's loop keeps asking.
- `rw009_poll_conn_status` writes `E_OK`, which is no connection state, to
  conn_status (`rw009.c:946`); `rw009_wnic_connect` then refuses as well. So `EndsInTime`
  claims another attempt only after one that the module has answered, and up to this write.
- After a response with a wrong magic `rw009_xfer` returns with the module's
  interrupt off and the module selected (`rw009.c:493`).
- The I2C driver's SET_TXINT and SET_RXINT change its state word and its interrupt
  mask in different orders, with interrupts on (`dw_iic.c:1423`, not modelled).
- The comments of lwIP's serial interface (`middleware/lwip-contrib/ports/arc/netif/sio.c, lines 76-103`) promise
  that reading and writing block; `ez_sio` returns what it could do at once.

## 5. Proofs

Everything below is for all values of the constants, under the named assumptions
of the modules.

### ContainerSwitchProofs

`Spec => []Inv` for `TypeOK`, `ActiveIsRunning`, `FramesIntact`,
`FramesDisjoint` and `ContextsEnterable`, for any sets of containers, interrupts
and priorities and any sizes.

*Assumptions*: `AllowLoops = FALSE`, that is, callers obey the documented rule on
loops (with loops the callee's frame overwrites a waiting one, and the invariants
are false); and the guard `Room` of the actions that push: the stack that linked
code gave a container is large enough, which the runtime does not check
(`secureshield_trap.c:129`).

*The inductive invariant* is `SwitchInv`. `FramesIntact` and `FramesDisjoint` are
not inductive alone. When a container is entered below its newest frame, and its
code then pops its locals, only the fact that it never pops further than where it
was entered (`act.fp`) keeps its pointer above that frame; and that fact must
still hold of the activities that are suspended, since they come back. So
`ActivitiesSound` says it of the running activity and of every activity saved in
a live cell, together with the fact that a handler called straight from the
interrupt entry finds the frame it returns through where its own locals begin.
`ContextsHaveFrame` says that a container that does not run has a frame to be
entered on.

*The argument*: `InitInv`; one lemma per action; `SwitchStep` puts them together;
`SwitchIsSafe` is the temporal step. Actions that only compute keep each conjunct
directly. Those that enter a container (`ContainerCall`, `InterruptSwitch`) share
`PushInv`, those that leave one (`CallReturn`, `IntReturn`) share `PopInv`; the
two state what happens to the container stack and to the live cells once, and the
four actions show that they meet their hypotheses.

*The second layer*, `EnterInv`, is for `ContextsEnterable`. A return leaves its
container with what it was entered on, so each activity, running or saved, must
keep what its own return relies on (`ActivitiesEntered`): a called function that
no frame of its container lies below it and that it was entered on the idle
frame; a handler that it was entered on its container's newest frame, which is a
callee frame and holds the user stack pointer that the handler began with. The
first rests on the rule on loops: a call then enters only a container that waits
for nothing. `StayEnters`, `PopEnters` and `PushEnters` say what a step that stays in
its container, leaves one or enters one does to these facts; each action meets
the hypotheses of one of them.

### ContainerChainProofs

`Spec => ImplementsContainerCalls` and with it `DepthBound`, `IrqActIsNesting` and
`CallerIsWaiting`, under the same assumptions and for finite sets of containers and
interrupts (`FiniteAssumption`, which the code's arrays justify).

Nothing in the code holds the chain of unfinished activities. It is read out of the
container stack and of the frames that its entries point to: `Under(x)` is what a stage
of the chain runs on top of, `Unrolled[n]` puts n of them under the running activity,
and `Chain` takes as many as there can be. So the first thing to prove is that this
recursion ends at the background container and finds nothing twice. `IsChain(s)`
says it of a sequence without a recursion (the running activity last, each other
one under the next, nothing under the first), and `ChainUnrolls` that `Chain` is such a
sequence whenever there is one.

*The inductive invariant* is `ChainInv`: `SwitchInv`, and that some chain s is a
`GoodChain`:

- `Ordered`: only a handler called straight from the interrupt entry shares a level of the
  container stack, and then a stack, with what it interrupted; it lies above it; and
  activities that are not handlers are of different containers (the rule on loops);
- `Placed`: each is on the stack of the container of its level, within the cells that were
  in use when that level was left;
- `Counted`: a level for each activity that is not called straight from the interrupt entry, a
  bit of AUX_IRQ_ACT for each handler.

*The argument*: `Moves` names what a step may do to the chain: nothing (`Rests`), change
the running activity (`Works`), add one (`Calls`, `Serves`) or end it (`Returns`,
`Resumes`). `StepChain` has one case per action. What it rests on is that the
cells and entries under the new top are those of before (`Retained`), so that every
stage but the last is read back from memory as it was. `DepthBound` then follows by
counting: the levels of calls are of different containers, those of handlers have
different priorities. For the refinement, each kind of `Moves` is shown to be the step of
`ContainerCalls` of the same name, on what containers see of a stage (`View`).

### SecureIntProofs

`TypeOK`, `HandlerInItsContainer`, `LockHolds`, `NormalsKeepToTheirs` and
`UnlockEnables`. The inductive invariant `OwnersInv` adds that the entries of
normal containers' interrupts agree with the handlers that run, and that the
selected interrupt stays in the table (the loops of lock and unlock run from the
first to the last interrupt of a finite set: `FirstIrq`, `LastIrq`).
`UnlockEnables` is proved for systems without a secure container that unlocks, which
is what the finding of `ints_unlock` leaves; `HandlerInItsContainer` and
`LockHolds` for normal containers (section 4).

### VmpuProofs

`TypeOK`, `EntriesUsable`, `FirstRegionsStay`, `RetriesBounded`, and the refinement
`Spec => P!Spec` of `Protection`. `ProtectionInv` is their conjunction with
`SlotBehind`: the entry that recovery replaces next is never one of the container's
first two. For the refinement, `EntriesUsable` shows that what passes is allowed,
and the search of `vmpu_fault_find_region` that what halts is not;
`SmallestElement` gives the lowest entry that decides an access.

`RetriesBounded` has two hypotheses, and is false without either. `RegionsAgree`: where
two regions that a container may use overlap, they give the same rights; otherwise
recovery may bring in, for ever, a region that does not permit the access while another
one would (section 4). `TwoToReplace`: recovery has two entries to replace; with one, an
instruction in one region that works on another evicts each with the other. The invariant
`RetryInv` says what each fault has achieved: after the first recovery has an entry to fill
(a switch that fills the MPU leaves it none, and that recovery writes nothing), after the second
one of the instruction's accesses has an entry that will not be replaced next,
after the third both have.

### BootSwapProofs

`TypeOK`, `NothingLost` and `NeverFailed`, for any images, sizes and number of
sectors, when power is not lost in the two circumstances of the findings
(`Excluded = {"stale", "revert"}`; without the assumption the invariants are
false, as the two runs show).

*The inductive invariant* is `SwapInv`. It says, for each value of `pc`, how far
the exchange is, in two independent ways, and that they agree:

- `Point(n, i, st)`: which area holds which sector of the two images, when n
  sectors are exchanged, i of them are done and the next one is in state st;
- `Told(n, i, st)`: what the trailers tell of it, in slot 0 or in the scratch
  area (`InSlot0`, `InScratch`), as the next start would read it.

With the power off, either no exchange is under way (`Intact`, `Silent`), and
then it is asked for again or was never begun (`Redo`, `Fresh`), or some
`Point(n, i, st)` holds together with `Told(n, i, st)` (`Off`). `ToldIsRead` shows
that the boot loader's own reading of the flash yields that n, i and st.

*The argument*: one lemma per flash operation, each of which moves `Point` or
`Told` one place on (`Saving`, `Moving`, `Advancing`) or disturbs only what the
present point does not need (`PointStep`); one for a power loss in each state,
which tears at most the sector whose contents are safe elsewhere; `ResumeStep`
and `StartStep` for the way back.

### BootUpgradeProofs

`Spec => ImplementsUpgrades`: what an application sees of the slots is a behaviour
of `Upgrades`, for any images, sizes and number of sectors, under the same assumption
as above.

`SwapInv` says where the images are, but not what was asked for. While the exchange
goes on the request is erased from slot 1, with the sector that shares its place or on
its own; a resumed start no longer knows its type (`swap_type = "resumed"`), and takes
what the flag image_ok in slot 0 says for it. The second layer, `UpgradeInv`, follows
that flag:

- `Asking`: before the first status is written the request still stands in slot 1, and
  the area it is copied to was erased before, so that no flag of an older exchange
  is taken over;
- `Marks`: from then on the trailer in use, in the scratch area or in slot 0, has the flag
  of the request (`Marked`), also after a power loss; `Carrying` is for the time in
  which the flag moves from one to the other;
- `Kind`: the exchange is one that is wanted, and a revert is never resumed (power is
  not lost in one: `boot_revert` shows what happens otherwise);
- `Tells`: with no exchange under way, the trailers say what was last seen, but for
  the erasure of a bad image that was cut off, which may have taken the request with it,
  and for slot 0's old trailer, which a request replaces.

*The argument*: one lemma per action keeps `UpgradeInv`, each with `SwapInv` at hand
(`GoingIsInterrupted`: an exchange that has written a status byte is always resumed,
never begun anew). Only the application's writes and the two marks of `boot_go`
change what is seen: they are `Download`, `Request`, `Confirm`, `Refuse` or
`Exchange` of `Upgrades`; every other step is a stutter (`NothingSeen`).

*The findings' properties*, `InterruptedSwapsComplete` and `RevertsAreConfirmed`, which the
runs `boot_stale` and `boot_revert` refute, are theorems when both circumstances are
excluded (`InterruptedSwapsAreCompleted`, `RevertsStayConfirmed`). Both are properties of
steps, and follow from what `SwapInv` and `UpgradeInv` say before and after the step
that settles an exchange.

### TaskSwitchProofs

`TypeOK`, `ExceptionStackFree`, `InterruptsFollowNesting`, `MostUrgentRuns` and
`SuspensionHolds`, for any tasks, priorities, levels and depths of nesting; and
`GivesAreCounted` when the handlers that call the kernel share one level
(`OneKernelLevel`; without it the run `task_lost_give` refutes it).

*The inductive invariant* is `TaskInv`. Every pop in the port trusts what was pushed
many steps before, by code that has been interrupted since, so the invariant speaks
of the whole chain of unfinished code: item 0 is the task that has the processor,
item k what executes, the rest the handlers in between, each with its place, its
stack, its depth there and the handlers counted so far.

- `Linked`: how a handler stands to the code that it interrupted (`Link`), and that
  the chain changes to the exception stack once. A link stays true while both of its ends
  are interrupted, so a step has to look at the end of the chain only.
- `Placed`: the frame of each item is where the depth says, nothing has
  overwritten it, and the exception stack is empty while nobody is on it.
- `Shape`: `irq_act` is the set of levels of the chain and `exc_nest_count` the number of
  handlers that have counted themselves.
- `Scheduled`: the task of item 0 is among the most urgent that are ready, or a switch is
  requested, or a handler is about to request one, or the scheduler is suspended.
- `Counting`: between the two halves of a give, the handler's old copy of the count
  is still the count (with one kernel level).
- `Others`, `AreStacks`, `OwnStacks`: a task that does not run is on a stack of its own,
  whose end is the switch record with its nesting below which its frame lies.

*The argument*: one lemma per action (`InterruptKeeps`, `CountHandlerKeeps`, ...). They
share what happens to a chain: a new item (`ChainGrows`), a last item that goes on
(`ChainGoesOn`), a last item that ends (`ChainShrinks`), and what happens when the
processor passes to another task (`SwitchGoesOn`), where a task goes on after its
call, or at the end of the interrupt or exception in which it was switched away.

*Where the tasks are* (`TaskAt`, as in the refinement of `Multitasking`). `TasksStayPut`:
only the task that executes moves (`OthersStayPut`), the half of that
refinement about tasks. `NotifiedReady`: `NotifiedTasksAreReady`, with one kernel
level. By `StepMoves` a step is either one after which all tasks are where
they were (`AllStay`: what handlers do, and the return from the last one even
when it passes the processor on) or one in which the running task arrives
somewhere (`TaskMoves`). Each action has a lemma; they share `SwitchLeaves`
(after a switch every task is where it was left) and `NobodyMoves` (what a handler
pushes leaves the end of the interrupted task's stack, where its frame is).
On top of `TaskInv` the second theorem needs `Paid`: a task that is ready and
goes on in `ulTaskNotifyTake` has a notification to take. It speaks of places
(`TaskAt`), since such a task may have been switched away from, and it holds without the
assumption on levels, because `FinishGive` writes a number above zero however
stale the one it has read.

*Where the handlers are*. `EveryHandlerHasOnePlace`: a handler of `irq_act` is in the
registers or in one frame. It follows from the chain: each frame of a stack in use is
an item of the chain (`FramesAreItems`: the least item that lies no deeper, which
exists since the numbers are well founded, is the one the frame belongs to), and no two
items have one level. So `Nest` reads the chain, from the last handler to the
first, and what a step does to it is one of three things: a handler more (`ListBegins`),
the one that executes goes on (`ListWorks`), the one that executes ends
(`ListEnds`). Steps of tasks find no handler and leave none (`TasksAreQuiet`).

*The refinement*. `MultitaskingIsImplemented` puts both halves together: each action has a
lemma that names the step of `Multitasking` it is, or the stutter, and `StepIsAbstract`
collects them. It needs `TaskInv` only, and no assumption on the levels that
call the kernel: a lost give is the kernel's, the port's promise is kept.

### SerialProofs

Lemmas about the ring buffer: `rb_add` appends to its contents and `rb_remove`
takes the first one away, whatever the positions of head and tail. With them
`TypeOK`, `NeverWaits`, and the refinement `Spec => Line!Spec` of `SerialLine`,
for any sizes. The inductive invariant `LineInv` says for each place of the
processor how much it has promised the FIFOs, which the line only makes more room
for, and that a character is there for a timeout to drop. The mapping
joins three sequences on the way out (FIFO, callback's buffer, ring buffer) and two on
the way in (ring buffer, callback's buffer); lemmas on such rows say what it
is to move, add or drop a character in one. So what `SerialLine` says of losses holds
for all sizes: on the way out by closing only; on the way in by closing, behind a
full receive buffer, and the oldest waiting character once per timeout.

### Only model-checked

Liveness, which is out of this prover's reach: `AllowedIsDone`, `EventuallyRuns`,
`UrgentTaskRuns`, `OutputGoesOn`, `InputGoesOn`, `EndsInTime`. Every invariant, every
property of steps and every refinement that a passing run checks is a theorem.

## 6. Not modelled

- *SecureShield*: version 2 switches in hardware that the repository does not
  describe. In the container switch: argument copying, register contents, and the
  halts other than those of a full stack and an invalid call. In the interrupts:
  priorities and trigger modes, and queries, which change nothing. In the memory
  protection: the variant with region SIDs, how start-up turns the configuration
  into regions (sizes below the MPU's minimum, alignment), peripherals without
  MPU, the interface table.
- *MCUboot*: cryptography and parsing; a flash whose driver reports errors
  (`flash_map.c` ignores them: every property of the swap is lost with them).
- *FreeRTOS*: the hardware's stack checking, the fast-interrupt variant of the
  entry (the same protocol), ticks, time limits, queues, and the rest of the vendored
  kernel. A handler that comes between `seti` and the change of the stack pointer
  runs on the stack of the task; how deep that stack must be is a property of the
  application.
- *UART*: buffer descriptors (`UART_CMD_SET_TXINT_BUF` with a buffer), aborts, line-status
  and modem interrupts (never enabled), several openings of one device.
- *I2C* (`dw_iic.c`). Reading it for a model showed that what the driver promises
  for interrupt-driven transfers does not hold in too many places for a model to
  say something useful. The clearing write at the end of the handler also clears an
  abort that came after the status was read, so bytes are skipped. A write puts its last bytes into the FIFO and
  reports success before it looks for an abort, and then reports the error as
  well; success is reported with bytes only in the FIFO, and a later NACK hits the
  next transfer. `dw_iic_write` returns a number of bytes in the same way.
  A callback that installs the next buffer loses it. An overflow of the receive
  FIFO leaves a read that never ends. `IIC_CMD_RESET` keeps mask, state and buffers.
  Turning off one direction tests and then acts, against a callback that starts
  the other. A model needs the controller's behaviour on an abort, which is not in
  the repository.
- *RW009*: scanning, disconnecting, power modes, the shell's commands, frames (a
  command overwrites a frame that the sender is putting together), what lwIP sends
  from within a callback.
- *uDMA* (`arc_udma.c`). Its behaviour hangs on when the hardware clears a channel's
  complete bit, which the repository does not say. Three places to look at:
  the shared handler goes over all channels and uses the entry of one that was released;
  `dmac_start_channel` enables the channel before it marks it busy;
  `dmac_release_channel` takes no lock.
- The ARC exception layer has the protocol of the FreeRTOS port without tasks.
  Boards, the other radio modules, third-party middleware, the C library and the examples are left out.

## 7. Plan

Done: `ContainerSwitch`, `SecureInt`, `BootSwap`, `TaskSwitch`, `Vmpu`, `SerialIO`, `WifiLink`,
each with its abstract specification where it has one.

Left, in order of what matters most:

1. `DwUart` with buffer descriptors and callbacks that install the next one.
2. `Iic` with an explicit model of the controller's aborts.
3. `Udma` with a channel's completion against start, wait and release.
4. Scanning, disconnecting and the shell's commands in `WifiLink`.
5. `Ticks`: time limits of notifications and the delayed list against the tick
   handler.
