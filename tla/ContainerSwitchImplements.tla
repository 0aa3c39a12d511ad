---------------------- MODULE ContainerSwitchImplements ----------------------
(***************************************************************************)
(* ContainerSwitch implements ContainerCalls.  The chain of activities is  *)
(* nowhere in the code: it is read out of the container stack and of the   *)
(* frames its entries point to, so a frame that is overwritten, lost or    *)
(* resumed twice shows as a chain the abstract specification cannot reach. *)
(***************************************************************************)
EXTENDS ContainerSwitch, Sequences

(* An activity of the chain, with the registers it runs or waits with and  *)
(* the number of entries of the container stack below it.                  *)
Stages == [act : Activities, sp : Depths, usp : Depths, r0 : Values, ie : BOOLEAN,
           level : 0 .. MaxDepth]

Running == [act |-> act, sp |-> sp, usp |-> usp, r0 |-> r0, ie |-> ie, level |-> ptr]

(* What it interrupted or was called from: a handler called from the       *)
(* interrupt entry an activity of its own container, whose frame lies      *)
(* where the handler's locals begin; any other one that of the entry below *)
(* it on the container stack.                                              *)
UnderHandler(x) ==
  LET f == mem[x.act.cont][x.act.fp]
  IN  [act |-> f.act, sp |-> x.act.fp - 1, usp |-> x.usp, r0 |-> f.r0, ie |-> f.ie,
       level |-> x.level]
UnderEntry(x) ==
  LET c == stack[x.level - 1].src_id
      k == stack[x.level - 1].src_sp
      f == mem[c][k - 1]
  IN  [act |-> f.act, sp |-> k - 2, usp |-> mem[c][k].usp, r0 |-> f.r0, ie |-> f.ie,
       level |-> x.level - 1]
Under(x) == IF x.act.kind = "direct" THEN UnderHandler(x) ELSE UnderEntry(x)

IsFirst(x) == x.act.kind # "direct" /\ x.level = 0

(* The chain, unrolled n times from the running activity, and all of it:   *)
(* a handler called from the interrupt entry has its bit in AUX_IRQ_ACT,   *)
(* any other activity but the first its entry on the container stack.      *)
Longer == [s \in Seq(Stages) |-> IF IsFirst(s[1]) THEN s ELSE <<Under(s[1])>> \o s]
Unrolled[n \in Nat] == IF n = 0 THEN <<Running>> ELSE Longer[Unrolled[n - 1]]
Chain == Unrolled[ptr + Cardinality(irq_act)]

(* What the containers see of it.                                          *)
View(x) ==
  [cont |-> x.act.cont, kind |-> IF x.act.kind = "direct" THEN "isr" ELSE x.act.kind,
   locals |-> Frame(x.act.cont, x.sp, x.usp) - x.act.fp, r0 |-> x.r0, ie |-> x.ie]
Views == [s \in Seq(Stages) |-> [k \in DOMAIN s |-> View(s[k])]]
Nest == Views[Chain]

Abstract == INSTANCE ContainerCalls WITH nest <- Nest, stopped <- halted

(* The runtime never does anything but nest: every entry and exit of a     *)
(* container is a call, a return, an interrupt or its return of the chain. *)
ImplementsContainerCalls == Abstract!Spec

CallerIdAbove == IF ptr < 1 THEN -1 ELSE stack[ptr].src_id   \* slip: no -1

(* secure_container_id_caller: what the runtime answers when a container   *)
(* asks who called it.                                                     *)
CallerId == IF ptr < 1 THEN -1 ELSE stack[ptr - 1].src_id

(* An interface function is told the container that waits for it, whatever *)
(* interrupts came and went since it was called.                           *)
CallerIsWaiting ==
  act.kind = "fn" => CallerId = Nest[Len(Nest) - 1].cont

(* AUX_IRQ_ACT says exactly which handlers of the chain are unfinished:    *)
(* one bit per handler, so a call is refused inside each of them and       *)
(* allowed again when the last one is left.                                *)
IrqActIsNesting ==
  ~halted =>
    Cardinality(irq_act) = Cardinality({k \in DOMAIN Nest : Nest[k].kind = "isr"})
=============================================================================
