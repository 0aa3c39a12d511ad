-------------------------- MODULE MCContainerSwitch --------------------------
(* Small instances of ContainerSwitch for TLC. *)
EXTENDS ContainerSwitchImplements, SequencesExt

Entry(c, h) == [id |-> c, handler |-> h, enabled |-> TRUE]

(* Interrupt 1 is more urgent than interrupt 2; any owners, or interrupt 2 *)
(* without a handler. Interrupt 3 is never enabled.                        *)
TwoInterrupts ==
  {[table  |-> (1 :> Entry(c, TRUE)) @@ (2 :> Entry(d, h)) @@ (3 :> Entry(0, FALSE)),
    enable |-> [i \in 1 .. 3 |-> i < 3],
    pri    |-> (1 :> 0) @@ (2 :> 1) @@ (3 :> 1)] :
     <<c, d, h>> \in {<<0, 0, TRUE>>, <<1, 0, TRUE>>, <<1, 1, TRUE>>, <<2, 0, TRUE>>,
                      <<2, 1, TRUE>>, <<2, 2, TRUE>>, <<1, 0, FALSE>>}}

(* Three interrupts of different urgency, for each pair of owners the      *)
(* order that TwoInterrupts does not have: the container stack fills up.   *)
ThreeInterrupts ==
  {[table  |-> [i \in 1 .. 3 |-> Entry(i - 1, TRUE)],
    enable |-> [i \in 1 .. 3 |-> TRUE],
    pri    |-> [i \in 1 .. 3 |-> i - 1]]}

AnyOwners == TwoInterrupts \cup ThreeInterrupts

(* What the future depends on: the cells of a stack below its pointer or   *)
(* below a frame some entry or context points to, the entries of the       *)
(* container stack under its pointer, the contexts of the containers that  *)
(* are not running (the running one's is written before it is read).       *)
InStack == {n \in DOMAIN stack : n < ptr}
Live(c) ==
  {IF c = curr_id THEN sp ELSE context[c].cur_sp}
    \cup {stack[n].src_sp : n \in {m \in InStack : stack[m].src_id = c}}
LiveState ==
  <<cpu, irq, table, halted, curr_id, active,
    [n \in InStack |-> stack[n]],
    [c \in Containers |->
      <<IF c = curr_id THEN {} ELSE context[c],
        [k \in 1 .. Max(Live(c)) |-> mem[c][k]]>>]>>
=============================================================================
