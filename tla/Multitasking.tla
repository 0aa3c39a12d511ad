---------------------------- MODULE Multitasking ----------------------------
(***************************************************************************)
(* What the FreeRTOS port promises to tasks and handlers: every task has a *)
(* processor of its own, which stands still while the task does not run;   *)
(* interrupt handlers nest on top of the task that runs, last in first     *)
(* out; the processor passes to another task only when no handler is left  *)
(* unfinished.                                                             *)
(***************************************************************************)
EXTENDS Naturals, Sequences

CONSTANT Tasks

VARIABLES
    task,     \* task[t]: where task t is (its registers)
    runs,     \* the task that has the processor
    handlers  \* where the unfinished handlers are, outermost first

vars == <<task, runs, handlers>>

Front(s) == SubSeq(s, 1, Len(s) - 1)

Init ==
    /\ runs \in Tasks
    /\ handlers = <<>>

\* The running task executes; it may give the processor away.
Execute ==
    /\ handlers = <<>>
    /\ \A t \in Tasks \ {runs} : task'[t] = task[t]
    /\ runs' \in Tasks
    /\ UNCHANGED handlers

Begin ==
    /\ Len(handlers') = Len(handlers) + 1
    /\ Front(handlers') = handlers
    /\ UNCHANGED <<task, runs>>

Work ==
    /\ handlers # <<>>
    /\ Len(handlers') = Len(handlers)
    /\ Front(handlers') = Front(handlers)
    /\ UNCHANGED <<task, runs>>

\* Only the outermost handler may leave the processor to another task.
Finish ==
    /\ handlers # <<>>
    /\ handlers' = Front(handlers)
    /\ runs' \in IF Len(handlers) = 1 THEN Tasks ELSE {runs}
    /\ UNCHANGED task

Next == Execute \/ Begin \/ Work \/ Finish

Spec == Init /\ [][Next]_vars
=============================================================================
