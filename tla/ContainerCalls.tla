---------------------------- MODULE ContainerCalls ----------------------------
(***************************************************************************)
(* What the SecureShield runtime promises to the containers: container     *)
(* calls and interrupts nest like procedure calls.  There is one chain of  *)
(* activities; the last one runs, the others wait for the one after them.  *)
(* An activity that waits keeps its registers, its interrupt state and its *)
(* locals; a call hands its argument to the callee and the callee's result *)
(* to the caller, an interrupt leaves no trace in what it interrupted.     *)
(***************************************************************************)
EXTENDS Naturals, Sequences, SequencesExt

CONSTANTS Containers, Values

VARIABLES
  nest,     \* the chain of activities, the running one last
  stopped   \* the runtime halted the processor

Activity == [cont : Containers, kind : {"main", "fn", "isr"},
             locals : Nat, r0 : Values, ie : BOOLEAN]

Running == Last(nest)

Init == /\ nest = <<[cont |-> 0, kind |-> "main", locals |-> 0, r0 |-> 0,
                     ie |-> TRUE]>>
        /\ stopped = FALSE

(* The running activity works on its own registers and its own locals.     *)
Work ==
  /\ \E v \in Values, e \in BOOLEAN,
        n \in {Running.locals, Running.locals + 1, Running.locals - 1} :
       /\ n >= 0
       /\ nest' = [nest EXCEPT ![Len(nest)] =
            [@ EXCEPT !.r0 = v, !.ie = e, !.locals = n]]
  /\ UNCHANGED stopped

(* Calls are made outside of handlers, to a container that is not waiting. *)
Call ==
  /\ \A k \in DOMAIN nest : nest[k].kind # "isr"
  /\ \E d \in Containers \ {nest[k].cont : k \in DOMAIN nest},
        v \in Values, e \in BOOLEAN :
       nest' = Append(nest, [cont |-> d, kind |-> "fn", locals |-> 0,
                             r0 |-> v, ie |-> e])
  /\ UNCHANGED stopped

Return ==
  /\ Running.kind = "fn" /\ Running.locals = 0
  /\ nest' = [Front(nest) EXCEPT ![Len(nest) - 1].r0 = Running.r0]
  /\ UNCHANGED stopped

Interrupt ==
  /\ Running.ie
  /\ \E d \in Containers, e \in BOOLEAN :
       nest' = Append(nest, [cont |-> d, kind |-> "isr", locals |-> 0,
                             r0 |-> 0, ie |-> e])
  /\ UNCHANGED stopped

InterruptReturn ==
  /\ Running.kind = "isr" /\ Running.locals = 0
  /\ nest' = Front(nest)
  /\ UNCHANGED stopped

Stop == stopped' = TRUE /\ UNCHANGED nest

Next == ~stopped /\ (Work \/ Call \/ Return \/ Interrupt \/ InterruptReturn \/ Stop)

Spec == Init /\ [][Next]_<<nest, stopped>>
=============================================================================
