----------------------- MODULE ContainerSwitchProofs -----------------------
(***************************************************************************)
(* Proofs about ContainerSwitch, for any set of containers, interrupts and *)
(* priorities, any stack sizes and any length of the container stack.      *)
(*                                                                         *)
(* The inductive invariant is SwitchInv.  FramesIntact and FramesDisjoint  *)
(* are not inductive alone: they need that no activity of a secure         *)
(* container, running or saved, can pop its locals into a frame saved      *)
(* before it was entered, and that handlers called from the interrupt      *)
(* entry find their return frame (ActivitiesSound).  There is one lemma    *)
(* per action; the actions that switch stacks share PushInv and PopInv.    *)
(***************************************************************************)
EXTENDS ContainerSwitch, TLAPS

USE DEF IsSecure, vmpu_switch

(* vmpu_ac_container and the startup code leave a state in which every     *)
(* invariant holds: nothing waits, every context points to its idle frame. *)
LEMMA InitInv == Init => SwitchInv
<1> SUFFICES ASSUME Init PROVE SwitchInv
  OBVIOUS
<1> USE ContainersAssumption, BootAssumption, NumbersAssumption
<1>1. TypeOK
  <2>0. Main \in Activities
    BY DEF Main, Activities, Depths
  <2>1. act \in Activities /\ sp \in Depths /\ usp \in Depths /\ r0 \in Values
        /\ irq_act \subseteq Priorities
        /\ ptr \in 0 .. MaxDepth
        /\ curr_id \in Containers /\ active \in Containers
    BY <2>0 DEF Init, Depths, Background
  <2>7. ie \in BOOLEAN /\ halted \in BOOLEAN
    BY DEF Init
  <2>2. irq_en \in [Irqs -> BOOLEAN] /\ irq_pri \in [Irqs -> Priorities]
        /\ table \in [Irqs -> Entries]
    BY DEF Init, SetUps
  <2>3. CalleeCell(0) \in Cells /\ LocalCell \in Cells
    BY DEF CalleeCell, LocalCell, Cells, Main, Activities, Depths
  <2>4. mem \in [Containers -> [1 .. StackCells -> Cells]]
    BY <2>3 DEF Init
  <2>5. stack \in [0 .. MaxDepth - 1 -> Items]
    BY DEF Init, Items, Depths
  <2>6. context \in [Containers -> Contexts]
    BY DEF Init, Contexts, Depths, IdleContext
  <2> QED BY <2>1, <2>2, <2>4, <2>5, <2>6, <2>7 DEF TypeOK
<1>2. ActiveIsRunning
  BY DEF Init, ActiveIsRunning, Main, Background
<1>3. FramesIntact /\ FramesDisjoint
  BY DEF Init, FramesIntact, FramesDisjoint
<1>4. ActivitiesSound
  BY DEF Init, ActivitiesSound, CellSound, Sound, Main, CalleeCell, LocalCell, InUse, IdleContext, Background
<1>5. ContextsHaveFrame
  BY DEF Init, ContextsHaveFrame, IdleContext, Background
<1> QED
  BY <1>1, <1>2, <1>3, <1>4, <1>5 DEF SwitchInv

(* An activity stays sound when no frame appears among its k cells and the *)
(* frame a direct handler returns through is not overwritten by locals.    *)
LEMMA SoundKept ==
  ASSUME NEW a, NEW k, Sound(a, k),
         \A n \in 0 .. ptr' - 1 :
           stack'[n].src_id = a.cont /\ stack'[n].src_sp <= k =>
             n \in 0 .. ptr - 1 /\ stack'[n] = stack[n],
         a.kind = "direct" => mem'[a.cont][a.fp].kind = "exc"
  PROVE  Sound(a, k)'
BY DEF Sound

(* The same for the activity a saved frame holds: it stays sound when the  *)
(* cells under it keep what they hold and no entry appears among them.     *)
LEMMA CellSoundKept ==
  ASSUME NEW c \in Containers, NEW j \in 1 .. StackCells,
         CellSound(c, j),
         mem'[c][j].kind = mem[c][j].kind, mem'[c][j].act = mem[c][j].act,
         \A n \in 0 .. ptr' - 1 :
           stack'[n].src_id = c /\ stack'[n].src_sp <= j - 1 =>
             n \in 0 .. ptr - 1 /\ stack'[n] = stack[n],
         mem[c][j].kind = "exc" /\ mem[c][j].act.kind = "direct" =>
           mem'[c][mem[c][j].act.fp].kind = "exc"
  PROVE  CellSound(c, j)'
<1> SUFFICES ASSUME mem[c][j].kind = "exc"
             PROVE  mem[c][j].act.cont = c /\ Sound(mem[c][j].act, j - 1)'
  BY DEF CellSound, Sound
<1>1. mem[c][j].act.cont = c /\ Sound(mem[c][j].act, j - 1)
  BY DEF CellSound
<1> QED BY <1>1, SoundKept

(* The exception frame the running activity leaves is sound.               *)
LEMMA SavedCellSound ==
  ASSUME TypeOK, ActiveIsRunning, ActivitiesSound,
         NEW c \in Containers, NEW j \in 1 .. StackCells,
         c = curr_id, j = sp + 1, mem'[c][j].act = act,
         \A n \in 0 .. ptr' - 1 :
           stack'[n].src_id = c /\ stack'[n].src_sp <= sp =>
             n \in 0 .. ptr - 1 /\ stack'[n] = stack[n],
         \A f \in 1 .. sp : mem[c][f].kind = "exc" => mem'[c][f].kind = "exc"
  PROVE  CellSound(c, j)'
<1>1. act \in Activities /\ sp \in Depths /\ act.cont = c /\ Sound(act, sp)
  BY DEF TypeOK, ActiveIsRunning, ActivitiesSound
<1>2. ASSUME NEW a, NEW k, a = act, k = sp
      PROVE  Sound(a, k)'
  <2>1. Sound(a, k)
    BY <1>1, <1>2
  <2>2. a.kind = "direct" => mem'[a.cont][a.fp].kind = "exc"
    BY <1>1, <1>2 DEF Sound, Activities, Depths
  <2> QED BY <1>1, <1>2, <2>1, <2>2, SoundKept
<1>3. j - 1 = sp
  BY <1>1 DEF Depths
<1> QED BY <1>1, <1>2, <1>3 DEF CellSound, Sound

(* Steps that leave the container stack, the contexts and the cells in use *)
(* as they are.                                                            *)
LEMMA NothingMoves ==
  ASSUME SwitchInv, TypeOK',
         UNCHANGED <<act, sp, mem, stack, ptr, curr_id, context, active, halted>>
  PROVE  SwitchInv'
<1>1. ActiveIsRunning' /\ FramesIntact' /\ ContextsHaveFrame'
  BY DEF SwitchInv, ActiveIsRunning, FramesIntact, ContextsHaveFrame
<1>2. FramesDisjoint'
  BY DEF SwitchInv, FramesDisjoint, InUse
<1>3. ActivitiesSound'
  BY DEF SwitchInv, ActivitiesSound, CellSound, Sound, InUse
<1> QED BY <1>1, <1>2, <1>3 DEF SwitchInv

LEMMA ComputeInv == ASSUME SwitchInv, NEW v \in Values, Compute(v) PROVE SwitchInv'
<1>1. TypeOK'
  BY DEF SwitchInv, TypeOK, Compute, irq, chain
<1>2. UNCHANGED <<act, sp, mem, stack, ptr, curr_id, context, active, halted>>
  BY DEF Compute, chain
<1> QED BY <1>1, <1>2, NothingMoves

(* The running activity pushes locals: on the kernel stack only when its   *)
(* container is secure, above every frame that was saved there.            *)
LEMMA PushLocalInv == ASSUME SwitchInv, PushLocal PROVE SwitchInv'
<1> USE ContainersAssumption, NumbersAssumption
<1>0. TypeOK /\ ActiveIsRunning /\ FramesIntact /\ FramesDisjoint
      /\ ActivitiesSound /\ ContextsHaveFrame
  BY DEF SwitchInv
<1>1. UNCHANGED <<act, stack, ptr, curr_id, context, active, halted>>
  BY DEF PushLocal, chain
<1>2. CASE IsSecure(act.cont)
  <2>1. sp' = sp + 1 /\ usp' = usp /\ sp + 2 <= StackCells
        /\ mem' = [mem EXCEPT ![act.cont][sp + 1] = LocalCell]
    BY <1>2 DEF PushLocal, Room
  <2>2. sp \in Nat /\ sp + 1 \in 1 .. StackCells /\ act.cont = curr_id
        /\ act.cont \in Containers /\ LocalCell \in Cells
    BY <1>0, <2>1 DEF TypeOK, Depths, ActiveIsRunning, LocalCell, Cells, Main, Activities
  <2>3. mem' \in [Containers -> [1 .. StackCells -> Cells]]
    BY <1>0, <2>1, <2>2 DEF TypeOK
  <2>4. \A c \in Containers : \A j \in 1 .. StackCells :
          mem'[c][j] = IF c = curr_id /\ j = sp + 1 THEN LocalCell ELSE mem[c][j]
    BY <1>0, <2>1, <2>2 DEF TypeOK
  <2>5. TypeOK'
    BY <1>0, <1>1, <2>1, <2>2, <2>3 DEF PushLocal, irq, TypeOK, Depths
  <2>6. ActiveIsRunning' /\ ContextsHaveFrame'
    BY <1>0, <1>1 DEF ActiveIsRunning, ContextsHaveFrame
  <2>7. FramesDisjoint'
    BY <1>0, <1>1, <2>1, <2>2 DEF FramesDisjoint, InUse, TypeOK, Items, Depths
  <2>8. FramesIntact'
    <3> SUFFICES ASSUME NEW n \in 0 .. ptr - 1
                 PROVE  LET c == stack[n].src_id
                            k == stack[n].src_sp
                        IN  /\ k >= 2
                            /\ mem'[c][k].kind = "callee"
                            /\ mem'[c][k - 1].kind = "exc"
                            /\ mem'[c][k - 1].act.cont = c
      BY <1>1 DEF FramesIntact
    <3>1. stack[n].src_id \in Containers /\ stack[n].src_sp \in 0 .. StackCells
      <4>1. n \in 0 .. MaxDepth - 1 /\ stack \in [0 .. MaxDepth - 1 -> Items]
        BY <1>0 DEF TypeOK
      <4> QED BY <4>1 DEF Items, Depths
    <3>2. /\ stack[n].src_sp >= 2
          /\ mem[stack[n].src_id][stack[n].src_sp].kind = "callee"
          /\ mem[stack[n].src_id][stack[n].src_sp - 1].kind = "exc"
          /\ mem[stack[n].src_id][stack[n].src_sp - 1].act.cont = stack[n].src_id
      BY <1>0 DEF FramesIntact
    <3>3. stack[n].src_id = curr_id => stack[n].src_sp <= sp
      BY <1>0 DEF FramesDisjoint, InUse
    <3>4. stack[n].src_sp \in 1 .. StackCells /\ stack[n].src_sp - 1 \in 1 .. StackCells
      BY <3>1, <3>2, NumbersAssumption
    <3>5. stack[n].src_id = curr_id =>
            stack[n].src_sp # sp + 1 /\ stack[n].src_sp - 1 # sp + 1
      BY <2>2, <3>1, <3>3
    <3>6. /\ mem'[stack[n].src_id][stack[n].src_sp] = mem[stack[n].src_id][stack[n].src_sp]
          /\ mem'[stack[n].src_id][stack[n].src_sp - 1]
               = mem[stack[n].src_id][stack[n].src_sp - 1]
      BY <2>4, <3>1, <3>4, <3>5
    <3> QED BY <3>2, <3>6
  <2>9. ActivitiesSound'
    <3>1. Sound(act, sp)'
      BY <1>0, <1>1, <2>1, <2>2, <2>4 DEF ActivitiesSound, CellSound, Sound, TypeOK, Items, Depths, Activities, FramesDisjoint, InUse
    <3>2. ASSUME NEW c \in Containers, NEW j \in 1 .. StackCells, j <= InUse(c)'
          PROVE  CellSound(c, j)'
      <4>1. CASE c = curr_id /\ j = sp + 1
        BY <2>4, <4>1 DEF CellSound, LocalCell
      <4>2. CASE ~(c = curr_id /\ j = sp + 1)
        <5>1. mem'[c][j] = mem[c][j]
          BY <2>4, <4>2
        <5>2. j <= InUse(c) /\ (c = curr_id => j <= sp)
          BY <1>0, <1>1, <2>1, <2>2, <3>2, <4>2 DEF InUse
        <5>3. CellSound(c, j) /\ mem[c][j].act \in Activities
          <6>1. mem[c][j] \in Cells
            BY <1>0 DEF TypeOK
          <6>2. mem[c][j].act \in Activities
            BY <6>1 DEF Cells
          <6>3. CellSound(c, j)
            BY <1>0, <5>2 DEF ActivitiesSound
          <6> QED BY <6>2, <6>3
        <5>4. ASSUME mem[c][j].kind = "exc", mem[c][j].act.kind = "direct"
              PROVE  mem'[c][mem[c][j].act.fp].kind = "exc"
          <6> DEFINE f == mem[c][j].act.fp
          <6>1. f \in 1 .. j - 1 /\ mem[c][f].kind = "exc"
            BY <5>3, <5>4 DEF CellSound, Sound, Activities, Depths
          <6>2. f \in 1 .. StackCells /\ ~(c = curr_id /\ f = sp + 1)
            BY <2>2, <5>2, <6>1
          <6>3. mem'[c][f] = mem[c][f]
            BY <2>4, <6>2
          <6> QED BY <6>1, <6>3
        <5> QED
          BY <1>1, <5>1, <5>3, <5>4, CellSoundKept
      <4> QED BY <4>1, <4>2
    <3> QED BY <3>1, <3>2 DEF ActivitiesSound
  <2> QED BY <2>5, <2>6, <2>7, <2>8, <2>9 DEF SwitchInv
<1>3. CASE ~IsSecure(act.cont)
  <2>1. UNCHANGED <<sp, mem>> /\ usp' \in Depths
    BY <1>0, <1>3 DEF PushLocal, TypeOK, Depths
  <2>2. TypeOK'
    BY <1>0, <1>1, <2>1 DEF PushLocal, irq, TypeOK
  <2> QED BY <1>1, <2>1, <2>2, NothingMoves
<1> QED BY <1>2, <1>3

(* The running activity pops locals, never below where it was entered.     *)
LEMMA PopLocalInv == ASSUME SwitchInv, PopLocal PROVE SwitchInv'
<1> USE ContainersAssumption, NumbersAssumption
<1>0. TypeOK /\ ActiveIsRunning /\ FramesIntact /\ FramesDisjoint
      /\ ActivitiesSound /\ ContextsHaveFrame
  BY DEF SwitchInv
<1>1. UNCHANGED <<act, mem, stack, ptr, curr_id, context, active, halted>>
  BY DEF PopLocal, chain
<1>2. sp' \in Depths /\ usp' \in Depths /\ sp' <= sp /\ (IsSecure(act.cont) => act.fp <= sp')
      /\ (~IsSecure(act.cont) => sp' = sp)
  BY <1>0 DEF PopLocal, TypeOK, Depths, LocalsSp, Frame, Activities
<1>3. TypeOK'
  BY <1>0, <1>1, <1>2 DEF PopLocal, irq, TypeOK
<1>4. ActiveIsRunning' /\ ContextsHaveFrame' /\ FramesIntact'
  BY <1>0, <1>1 DEF ActiveIsRunning, ContextsHaveFrame, FramesIntact
<1>5. FramesDisjoint'
  BY <1>0, <1>1, <1>2 DEF FramesDisjoint, InUse, ActivitiesSound, Sound, ActiveIsRunning,
     TypeOK, Items, Depths, Activities
<1>6. Sound(act, sp)'
  BY <1>0, <1>1, <1>2 DEF ActivitiesSound, Sound, TypeOK, Items, Depths, Activities
<1>7. ASSUME NEW c \in Containers, NEW j \in 1 .. StackCells, j <= InUse(c)'
      PROVE  CellSound(c, j)'
  <2>1. j <= InUse(c)
    BY <1>0, <1>1, <1>2, <1>7 DEF InUse, TypeOK, Depths
  <2>2. CellSound(c, j)
    BY <1>0, <2>1 DEF ActivitiesSound
  <2> QED BY <1>1, <2>2 DEF CellSound, Sound
<1> QED BY <1>3, <1>4, <1>5, <1>6, <1>7 DEF SwitchInv, ActivitiesSound

(* A secure container masks or unmasks interrupts.                         *)
LEMMA ToggleInv == ASSUME SwitchInv, ToggleInterrupts PROVE SwitchInv'
<1>1. TypeOK'
  BY DEF SwitchInv, TypeOK, ToggleInterrupts, irq, chain
<1>2. UNCHANGED <<act, sp, mem, stack, ptr, curr_id, context, active, halted>>
  BY DEF ToggleInterrupts, chain
<1> QED BY <1>1, <1>2, NothingMoves

(* The prologue of an entry writes one exception frame above the cells in  *)
(* use.                                                                    *)
LEMMA SaveExcCells ==
  ASSUME TypeOK, Room, mem' = SaveExc
  PROVE  /\ mem' \in [Containers -> [1 .. StackCells -> Cells]]
         /\ sp + 1 \in 1 .. StackCells /\ sp \in Nat
         /\ mem'[curr_id][sp + 1] = ExcCell(act, r0, ie)
         /\ \A c \in Containers, j \in 1 .. StackCells :
              ~(c = curr_id /\ j = sp + 1) => mem'[c][j] = mem[c][j]
<1> USE ContainersAssumption, NumbersAssumption
<1>1. sp \in Nat /\ sp + 1 \in 1 .. StackCells /\ curr_id \in Containers
  BY DEF TypeOK, Room, Depths
<1>2. ExcCell(act, r0, ie) \in Cells
  BY DEF TypeOK, Cells, ExcCell, Depths
<1>3. mem \in [Containers -> [1 .. StackCells -> Cells]]
  BY DEF TypeOK
<1> QED BY <1>1, <1>2, <1>3 DEF SaveExc

(* Whatever is written above the cells in use leaves the frames alone.     *)
LEMMA AboveInv ==
  ASSUME TypeOK, FramesIntact, FramesDisjoint, ActivitiesSound,
         sp + 1 \in 1 .. StackCells,
         \A c \in Containers, j \in 1 .. StackCells :
           ~(c = curr_id /\ j = sp + 1) => mem'[c][j] = mem[c][j],
         UNCHANGED <<stack, ptr, curr_id, context>>
  PROVE  /\ FramesIntact'
         /\ \A a \in Activities, k \in Depths :
              a.cont = curr_id /\ k <= sp /\ Sound(a, k) => Sound(a, k)'
         /\ \A c \in Containers, j \in 1 .. StackCells :
              j <= InUse(c) => CellSound(c, j)'
<1> USE ContainersAssumption, NumbersAssumption
<1>0. sp \in Nat /\ curr_id \in Containers /\ act \in Activities
  BY DEF TypeOK, Depths
<1>1. FramesIntact'
  <2> SUFFICES ASSUME NEW n \in 0 .. ptr - 1
               PROVE  /\ stack[n].src_sp >= 2
                      /\ mem'[stack[n].src_id][stack[n].src_sp].kind = "callee"
                      /\ mem'[stack[n].src_id][stack[n].src_sp - 1].kind = "exc"
                      /\ mem'[stack[n].src_id][stack[n].src_sp - 1].act.cont = stack[n].src_id
    BY DEF FramesIntact
  <2>1. stack[n] \in Items
    BY DEF TypeOK
  <2>2. stack[n].src_id \in Containers /\ stack[n].src_sp \in Depths
    BY <2>1 DEF Items
  <2>3. stack[n].src_sp >= 2 /\ (stack[n].src_id = curr_id => stack[n].src_sp <= sp)
    BY DEF FramesIntact, FramesDisjoint, InUse
  <2>4. /\ stack[n].src_sp \in 1 .. StackCells /\ stack[n].src_sp - 1 \in 1 .. StackCells
        /\ stack[n].src_id = curr_id => stack[n].src_sp # sp + 1 /\ stack[n].src_sp - 1 # sp + 1
    BY <1>0, <2>2, <2>3 DEF Depths
  <2>5. /\ mem'[stack[n].src_id][stack[n].src_sp] = mem[stack[n].src_id][stack[n].src_sp]
        /\ mem'[stack[n].src_id][stack[n].src_sp - 1] = mem[stack[n].src_id][stack[n].src_sp - 1]
    BY <2>2, <2>4
  <2> QED BY <2>5 DEF FramesIntact
<1>2. ASSUME NEW a \in Activities, NEW k \in Depths, a.cont = curr_id, k <= sp, Sound(a, k)
      PROVE  Sound(a, k)'
  <2>1. ASSUME a.kind = "direct"
        PROVE  mem'[a.cont][a.fp].kind = "exc"
    <3>1. a.fp \in 1 .. sp /\ mem[a.cont][a.fp].kind = "exc"
      BY <1>0, <1>2, <2>1 DEF Sound, Activities, Depths
    <3>2. a.fp \in 1 .. StackCells /\ a.fp # sp + 1
      BY <1>0, <3>1
    <3> QED BY <1>0, <1>2, <3>1, <3>2
  <2> QED BY <1>2, <2>1, SoundKept
<1>3. ASSUME NEW c \in Containers, NEW j \in 1 .. StackCells, j <= InUse(c)
      PROVE  CellSound(c, j)'
  <2>1. mem[c][j] \in Cells
    BY DEF TypeOK
  <2>2. mem[c][j].act \in Activities
    BY <2>1 DEF Cells
  <2>3. CellSound(c, j)
    BY <1>3 DEF ActivitiesSound
  <2>4. c = curr_id => j <= sp
    BY <1>3 DEF InUse
  <2>5. mem'[c][j] = mem[c][j]
    BY <1>0, <2>4
  <2>6. ASSUME mem[c][j].kind = "exc", mem[c][j].act.kind = "direct"
        PROVE  mem'[c][mem[c][j].act.fp].kind = "exc"
    <3> DEFINE f == mem[c][j].act.fp
    <3>1. f \in 1 .. j - 1 /\ mem[c][f].kind = "exc"
      BY <2>2, <2>3, <2>6 DEF CellSound, Sound, Activities, Depths
    <3>2. f \in 1 .. StackCells /\ ~(c = curr_id /\ f = sp + 1)
      BY <1>0, <2>4, <3>1
    <3> QED BY <3>1, <3>2
  <2> QED BY <2>3, <2>5, <2>6, CellSoundKept
<1> QED BY <1>1, <1>2, <1>3

(* A trap or an interrupt that comes back to where it was taken.           *)
LEMMA ComeBackInv ==
  ASSUME SwitchInv, Room, mem' = SaveExc,
         UNCHANGED <<act, sp, stack, ptr, curr_id, context>>, TypeOK',
         halted' \/ UNCHANGED <<active, halted>>
  PROVE  SwitchInv'
<1>0. TypeOK /\ ActiveIsRunning /\ FramesIntact /\ FramesDisjoint
      /\ ActivitiesSound /\ ContextsHaveFrame
  BY DEF SwitchInv
<1>1. /\ sp + 1 \in 1 .. StackCells
      /\ \A c \in Containers, j \in 1 .. StackCells :
           ~(c = curr_id /\ j = sp + 1) => mem'[c][j] = mem[c][j]
  BY <1>0, SaveExcCells
<1>2. /\ FramesIntact'
      /\ \A a \in Activities, k \in Depths :
           a.cont = curr_id /\ k <= sp /\ Sound(a, k) => Sound(a, k)'
      /\ \A c \in Containers, j \in 1 .. StackCells : j <= InUse(c) => CellSound(c, j)'
  BY <1>0, <1>1, AboveInv
<1>3. ActivitiesSound'
  <2>1. Sound(act, sp)'
    <3>1. act \in Activities /\ sp \in Depths /\ sp <= sp /\ act.cont = curr_id /\ Sound(act, sp)
      BY <1>0 DEF ActivitiesSound, ActiveIsRunning, TypeOK, Depths
    <3> QED BY <1>2, <3>1 DEF Sound
  <2> QED BY <1>2, <2>1 DEF ActivitiesSound, InUse
<1>4. ActiveIsRunning' /\ ContextsHaveFrame' /\ FramesDisjoint'
  BY <1>0 DEF ActiveIsRunning, ContextsHaveFrame, FramesDisjoint, InUse
<1> QED BY <1>2, <1>3, <1>4 DEF SwitchInv

(* A call made by a handler is refused and the trap comes back.            *)
LEMMA CallInInterruptInv == ASSUME SwitchInv, CallInInterrupt PROVE SwitchInv'
<1>0. TypeOK /\ Room /\ mem' = SaveExc
  BY DEF SwitchInv, CallInInterrupt
<1>1. mem' \in [Containers -> [1 .. StackCells -> Cells]]
  BY <1>0, SaveExcCells
<1>2. TypeOK'
  BY <1>0, <1>1 DEF CallInInterrupt, TypeOK, cpu, irq, chain
<1>3. UNCHANGED <<act, sp, stack, ptr, curr_id, context, active, halted>>
  BY DEF CallInInterrupt, cpu, chain
<1> QED BY <1>0, <1>2, <1>3, ComeBackInv

(* A call that is refused for good halts where the trap was taken.         *)
LEMMA CallHaltInv ==
  ASSUME SwitchInv, NEW d \in Containers, CallHalt(d) PROVE SwitchInv'
<1>0. TypeOK /\ Room /\ mem' = SaveExc
  BY DEF SwitchInv, CallHalt
<1>1. mem' \in [Containers -> [1 .. StackCells -> Cells]]
  BY <1>0, SaveExcCells
<1>2. TypeOK'
  BY <1>0, <1>1 DEF CallHalt, TypeOK, cpu, irq, chain
<1>3. UNCHANGED <<act, sp, stack, ptr, curr_id, context, active>> /\ halted'
  BY DEF CallHalt, cpu, chain
<1> QED BY <1>0, <1>2, <1>3, ComeBackInv

(* An interrupt without a handler is disabled and the entry comes back.    *)
LEMMA InterruptNotInstalledInv ==
  ASSUME SwitchInv, NEW i \in Irqs, InterruptNotInstalled(i) PROVE SwitchInv'
<1>0. TypeOK /\ Room /\ mem' = SaveExc
  BY DEF SwitchInv, InterruptNotInstalled, Accepted
<1>1. mem' \in [Containers -> [1 .. StackCells -> Cells]]
  BY <1>0, SaveExcCells
<1>2. irq_en' \in [Irqs -> BOOLEAN]
  BY <1>0 DEF InterruptNotInstalled, TypeOK
<1>3. TypeOK'
  BY <1>0, <1>1, <1>2 DEF InterruptNotInstalled, TypeOK, cpu, chain
<1>4. UNCHANGED <<act, sp, stack, ptr, curr_id, context, active, halted>>
  BY DEF InterruptNotInstalled, cpu, chain
<1> QED BY <1>0, <1>3, <1>4, ComeBackInv

(* A full container stack halts after vmpu_switch: only the active         *)
(* container, which no longer has to be the current one, has changed.      *)
LEMMA InterruptHaltInv ==
  ASSUME SwitchInv, NEW i \in Irqs, InterruptHalt(i) PROVE SwitchInv'
<1>0. TypeOK /\ Room /\ mem' = SaveExc
  BY DEF SwitchInv, InterruptHalt, Accepted
<1>1. mem' \in [Containers -> [1 .. StackCells -> Cells]]
  BY <1>0, SaveExcCells
<1>2. irq_act' \subseteq Priorities /\ table[i].id \in Containers
  BY <1>0 DEF InterruptHalt, TypeOK, Entries
<1>3. TypeOK'
  BY <1>0, <1>1, <1>2 DEF InterruptHalt, TypeOK, cpu
<1>4. UNCHANGED <<act, sp, stack, ptr, curr_id, context>> /\ halted'
  BY DEF InterruptHalt, cpu
<1> QED BY <1>0, <1>3, <1>4, ComeBackInv

(* A handler called from the interrupt entry begins its locals right above *)
(* the frame of what it interrupted, and knows it is there.                *)
LEMMA InterruptDirectInv ==
  ASSUME SwitchInv, NEW i \in Irqs, InterruptDirect(i) PROVE SwitchInv'
<1> USE ContainersAssumption, NumbersAssumption
<1>0. TypeOK /\ ActiveIsRunning /\ FramesIntact /\ FramesDisjoint
      /\ ActivitiesSound /\ ContextsHaveFrame
  BY DEF SwitchInv
<1>1. /\ Room /\ mem' = SaveExc /\ IsSecure(curr_id) /\ sp' = sp + 1
      /\ act' = [cont |-> curr_id, kind |-> "direct", fp |-> sp + 1]
      /\ UNCHANGED <<stack, ptr, curr_id, context, active, halted>>
  BY DEF InterruptDirect, Accepted, chain
<1>2. /\ mem' \in [Containers -> [1 .. StackCells -> Cells]]
      /\ sp + 1 \in 1 .. StackCells /\ sp \in Nat
      /\ mem'[curr_id][sp + 1] = ExcCell(act, r0, ie)
      /\ \A c \in Containers, j \in 1 .. StackCells :
           ~(c = curr_id /\ j = sp + 1) => mem'[c][j] = mem[c][j]
  BY <1>0, <1>1, SaveExcCells
<1>3. /\ FramesIntact'
      /\ \A a \in Activities, k \in Depths :
           a.cont = curr_id /\ k <= sp /\ Sound(a, k) => Sound(a, k)'
      /\ \A c \in Containers, j \in 1 .. StackCells : j <= InUse(c) => CellSound(c, j)'
  BY <1>0, <1>1, <1>2, AboveInv
<1>4. TypeOK'
  <2>1. act' \in Activities /\ sp' \in Depths
    BY <1>0, <1>1, <1>2 DEF TypeOK, Activities, Depths
  <2>2. irq_act' \subseteq Priorities
    BY <1>0 DEF InterruptDirect, TypeOK
  <2>3. r0' \in Values
    BY DEF InterruptDirect
  <2> QED BY <1>0, <1>1, <1>2, <2>1, <2>2, <2>3 DEF InterruptDirect, TypeOK
<1>5. ActiveIsRunning' /\ ContextsHaveFrame'
  BY <1>0, <1>1 DEF ActiveIsRunning, ContextsHaveFrame
<1>6. FramesDisjoint'
  BY <1>0, <1>1, <1>2 DEF FramesDisjoint, InUse, TypeOK, Items, Depths
<1>7. Sound(act, sp)'
  <2>1. mem'[curr_id][sp + 1].kind = "exc"
    BY <1>2 DEF ExcCell
  <2> QED BY <1>1, <1>2, <2>1 DEF Sound
<1>8. ASSUME NEW c \in Containers, NEW j \in 1 .. StackCells, c = curr_id, j = sp + 1
      PROVE  CellSound(c, j)'
  <2>1. mem'[c][j].act = act
    BY <1>2, <1>8 DEF ExcCell
  <2>2. ASSUME NEW f \in 1 .. sp PROVE mem'[c][f] = mem[c][f]
    <3>1. f \in 1 .. StackCells /\ f # sp + 1
      BY <1>2
    <3> QED BY <1>2, <3>1
  <2> QED BY <1>0, <1>1, <1>8, <2>1, <2>2, SavedCellSound
<1>9. ASSUME NEW c \in Containers, NEW j \in 1 .. StackCells, j <= InUse(c)'
      PROVE  CellSound(c, j)'
  <2>1. CASE c = curr_id /\ j = sp + 1
    BY <1>8, <2>1
  <2>2. CASE ~(c = curr_id /\ j = sp + 1)
    <3>1. j <= InUse(c)
      BY <1>1, <1>2, <1>9, <2>2 DEF InUse
    <3> QED BY <1>3, <3>1
  <2> QED BY <2>1, <2>2
<1> QED BY <1>3, <1>4, <1>5, <1>6, <1>7, <1>9 DEF SwitchInv, ActivitiesSound

(* It returns to that frame, which nothing has overwritten.                *)
LEMMA DirectReturnInv == ASSUME SwitchInv, DirectReturn PROVE SwitchInv'
<1> USE ContainersAssumption, NumbersAssumption
<1>0. TypeOK /\ ActiveIsRunning /\ FramesIntact /\ FramesDisjoint
      /\ ActivitiesSound /\ ContextsHaveFrame
  BY DEF SwitchInv
<1>1. /\ act.kind = "direct" /\ sp = act.fp /\ sp' = sp - 1
      /\ act' = mem[curr_id][sp].act /\ r0' = mem[curr_id][sp].r0 /\ ie' = mem[curr_id][sp].ie
      /\ UNCHANGED <<mem, stack, ptr, curr_id, context, active, halted>>
  BY DEF DirectReturn, chain
<1>2. /\ act.cont = curr_id /\ IsSecure(curr_id) /\ sp \in 1 .. StackCells
      /\ mem[curr_id][sp].kind = "exc" /\ curr_id \in Containers
  BY <1>0, <1>1 DEF ActivitiesSound, Sound, ActiveIsRunning, TypeOK, Depths
<1>3. mem[curr_id][sp] \in Cells
  BY <1>0, <1>2 DEF TypeOK
<1>4. act' \in Activities /\ r0' \in Values /\ sp' \in Depths
  BY <1>1, <1>2, <1>3 DEF Cells, Depths
<1>5. ie' \in BOOLEAN
  BY <1>1, <1>3 DEF Cells
<1>6. irq_act' \subseteq Priorities
  BY <1>0 DEF DirectReturn, TypeOK
<1>7. TypeOK'
  BY <1>0, <1>1, <1>4, <1>5, <1>6 DEF DirectReturn, TypeOK
<1>8. CellSound(curr_id, sp)
  <2>1. sp <= InUse(curr_id)
    BY <1>2 DEF InUse
  <2> QED BY <1>0, <1>2, <2>1 DEF ActivitiesSound
<1>9. ActiveIsRunning' /\ ContextsHaveFrame' /\ FramesIntact'
  <2>1. ActiveIsRunning'
    BY <1>0, <1>1, <1>2, <1>8 DEF ActiveIsRunning, CellSound
  <2>2. ContextsHaveFrame' /\ FramesIntact'
    BY <1>0, <1>1 DEF ContextsHaveFrame, FramesIntact
  <2> QED BY <2>1, <2>2
<1>10. Sound(act, sp)'
  BY <1>1, <1>2, <1>8 DEF CellSound, Sound
<1>11. FramesDisjoint'
  <2>1. ASSUME NEW n \in 0 .. ptr - 1, stack[n].src_id = curr_id
        PROVE  stack[n].src_sp <= sp - 1
    <3>1. stack[n] \in Items
      BY <1>0 DEF TypeOK
    <3>2. stack[n].src_sp \in Depths /\ stack[n].src_sp <= sp
      BY <1>0, <2>1, <3>1 DEF Items, FramesDisjoint, InUse
    <3>3. stack[n].src_sp # sp
      BY <1>0, <1>2, <2>1 DEF FramesIntact
    <3> QED BY <1>2, <3>2, <3>3 DEF Depths
  <2> QED BY <1>0, <1>1, <2>1 DEF FramesDisjoint, InUse
<1>12. ASSUME NEW c \in Containers, NEW j \in 1 .. StackCells, j <= InUse(c)'
      PROVE  CellSound(c, j)'
  <2>1. j <= InUse(c)
    BY <1>1, <1>2, <1>12 DEF InUse
  <2>2. CellSound(c, j)
    BY <1>0, <2>1 DEF ActivitiesSound
  <2> QED BY <1>1, <2>2 DEF CellSound, Sound
<1> QED BY <1>7, <1>9, <1>10, <1>11, <1>12 DEF SwitchInv, ActivitiesSound

(* The two returns: the running activity's frame is saved above the cells  *)
(* in use and becomes, or not, the new idle frame of its container; the    *)
(* entry on top of the container stack is popped and resumed.              *)
SavedAbove ==
  \A c \in Containers, j \in 1 .. StackCells :
    IF c = curr_id /\ j = sp + 1 THEN mem'[c][j].kind = "exc" /\ mem'[c][j].act = act
    ELSE IF c = curr_id /\ j = sp + 2 THEN mem'[c][j].kind = "callee"
    ELSE mem'[c][j].kind = mem[c][j].kind /\ mem'[c][j].act = mem[c][j].act
Popping(x, status, src, k) ==
  /\ Room /\ ptr # 0 /\ x \in {sp, sp + 2} /\ x >= 2
  /\ src = stack[ptr - 1].src_id /\ k = stack[ptr - 1].src_sp
  /\ Pop(curr_id, x, status)
  /\ mem' \in [Containers -> [1 .. StackCells -> Cells]]
  /\ SavedAbove
  /\ Resume(src, k) /\ active' = src /\ halted' = halted
  /\ irq_act' \subseteq Priorities /\ UNCHANGED <<irq_en, irq_pri, table>>

(* container_stack_pop with the entry it returns to keeps the invariant.   *)
LEMMA PopInv ==
  ASSUME SwitchInv, NEW x, NEW status \in BOOLEAN, NEW src, NEW k,
         Popping(x, status, src, k)
  PROVE  SwitchInv'
<1> USE ContainersAssumption, NumbersAssumption
<1>0. TypeOK /\ ActiveIsRunning /\ FramesIntact /\ FramesDisjoint
      /\ ActivitiesSound /\ ContextsHaveFrame
  BY DEF SwitchInv
<1>1. /\ ptr \in 1 .. MaxDepth /\ curr_id \in Containers /\ sp \in Nat /\ sp + 2 <= StackCells
      /\ sp + 1 \in 1 .. StackCells /\ usp \in Depths /\ act \in Activities
      /\ x \in Nat /\ x >= 2 /\ sp <= x /\ x <= StackCells /\ x \in {sp, sp + 2}
  BY <1>0 DEF TypeOK, Depths, Room, Popping
<1>i. \A c \in Containers : context[c].cur_sp \in Depths /\ InUse(c) \in Depths
  <2> TAKE c \in Containers
  <2>1. context[c] \in Contexts
    BY <1>0 DEF TypeOK
  <2> QED BY <1>0, <2>1 DEF Contexts, InUse, TypeOK
<1>2. \A n \in 0 .. ptr - 1 :
        /\ stack[n].src_id \in Containers /\ stack[n].src_sp \in Depths
        /\ stack[n].src_sp >= 2
        /\ stack[n].src_id = curr_id => stack[n].src_sp <= sp
        /\ stack[n].src_id # curr_id => stack[n].src_sp <= context[stack[n].src_id].cur_sp
  <2> TAKE n \in 0 .. ptr - 1
  <2>1. stack[n] \in Items
    BY <1>0, <1>1 DEF TypeOK
  <2> QED BY <1>0, <2>1 DEF Items, FramesIntact, FramesDisjoint, InUse
<1>3. src \in Containers /\ k \in Depths /\ k >= 2 /\ ptr - 1 \in 0 .. ptr - 1
      /\ k - 1 \in 1 .. StackCells /\ k \in 1 .. StackCells
      /\ src = stack[ptr - 1].src_id /\ k = stack[ptr - 1].src_sp
  <2>1. ptr - 1 \in 0 .. ptr - 1 /\ src = stack[ptr - 1].src_id /\ k = stack[ptr - 1].src_sp
    BY <1>1 DEF Popping
  <2>2. src \in Containers /\ k \in Depths /\ k >= 2
    BY <1>2, <2>1
  <2> QED BY <1>1, <2>1, <2>2 DEF Depths
<1>4. /\ mem[src][k - 1].kind = "exc" /\ mem[src][k - 1].act.cont = src
      /\ mem'[src][k - 1].kind = "exc" /\ mem'[src][k - 1].act = mem[src][k - 1].act
  <2>1. mem[src][k - 1].kind = "exc" /\ mem[src][k - 1].act.cont = src
    BY <1>0, <1>3 DEF FramesIntact
  <2>2. ~(src = curr_id /\ k - 1 \in {sp + 1, sp + 2})
    BY <1>1, <1>2, <1>3 DEF Depths
  <2> QED BY <1>3, <2>1, <2>2 DEF Popping, SavedAbove
<1>5. /\ act' = mem[src][k - 1].act /\ sp' = k - 2
      /\ r0' = mem'[src][k - 1].r0 /\ ie' = mem'[src][k - 1].ie /\ usp' = mem'[src][k].usp
  BY <1>4 DEF Popping, Resume
<1>6. /\ stack' = stack /\ ptr' = ptr - 1 /\ curr_id' = src /\ active' = src
      /\ context' \in [Containers -> Contexts]
      /\ context'[curr_id].cur_sp = x
      /\ \A c \in Containers \ {curr_id} : context'[c] = context[c]
  <2>1. x \in Depths
    BY <1>1 DEF Depths
  <2>2. [cur_sp |-> x, normal_sp |-> usp, cpu_status |-> status] \in Contexts
    BY <1>1, <2>1 DEF Contexts
  <2>3. context \in [Containers -> Contexts]
    BY <1>0 DEF TypeOK
  <2> QED BY <1>1, <1>3, <2>2, <2>3 DEF Popping, Pop
<1>7. TypeOK'
  <2>0. mem' \in [Containers -> [1 .. StackCells -> Cells]]
    BY DEF Popping
  <2>1. mem'[src][k - 1] \in Cells /\ mem'[src][k] \in Cells
    BY <1>3, <2>0
  <2>2. act' \in Activities /\ r0' \in Values /\ usp' \in Depths
    BY <1>4, <1>5, <2>1 DEF Cells
  <2>3. ie' \in BOOLEAN
    BY <1>5, <2>1 DEF Cells
  <2>4. sp' \in Depths /\ ptr' \in 0 .. MaxDepth
    BY <1>1, <1>3, <1>5, <1>6 DEF Depths
  <2>5. /\ irq_act' \subseteq Priorities /\ UNCHANGED <<irq_en, irq_pri, table>>
        /\ halted' = halted
    BY DEF Popping
  <2> QED BY <1>0, <1>3, <1>6, <2>0, <2>2, <2>3, <2>4, <2>5 DEF TypeOK
<1>8. ActiveIsRunning'
  <2>1. act'.cont = curr_id' /\ active' = curr_id'
    BY <1>4, <1>5, <1>6
  <2> QED BY <2>1 DEF ActiveIsRunning
<1>9. \A c \in Containers :
        InUse(c)' = IF c = src THEN k - 2 ELSE IF c = curr_id THEN x ELSE context[c].cur_sp
  BY <1>5, <1>6 DEF InUse
<1>10. FramesIntact'
  <2> SUFFICES ASSUME NEW n \in 0 .. ptr - 2
               PROVE  /\ stack[n].src_sp >= 2
                      /\ mem'[stack[n].src_id][stack[n].src_sp].kind = "callee"
                      /\ mem'[stack[n].src_id][stack[n].src_sp - 1].kind = "exc"
                      /\ mem'[stack[n].src_id][stack[n].src_sp - 1].act.cont = stack[n].src_id
    BY <1>1, <1>6 DEF FramesIntact
  <2>1. n \in 0 .. ptr - 1
    BY <1>1
  <2>2. /\ stack[n].src_sp \in 1 .. StackCells /\ stack[n].src_sp - 1 \in 1 .. StackCells
        /\ stack[n].src_id = curr_id => /\ stack[n].src_sp \notin {sp + 1, sp + 2}
                                        /\ stack[n].src_sp - 1 \notin {sp + 1, sp + 2}
    BY <1>1, <1>2, <2>1 DEF Depths
  <2>3. /\ mem'[stack[n].src_id][stack[n].src_sp].kind = mem[stack[n].src_id][stack[n].src_sp].kind
        /\ mem'[stack[n].src_id][stack[n].src_sp - 1].kind = mem[stack[n].src_id][stack[n].src_sp - 1].kind
        /\ mem'[stack[n].src_id][stack[n].src_sp - 1].act = mem[stack[n].src_id][stack[n].src_sp - 1].act
    BY <1>2, <2>1, <2>2 DEF Popping, SavedAbove
  <2> QED BY <1>0, <2>1, <2>3 DEF FramesIntact
<1>11. FramesDisjoint'
  <2>1. ASSUME NEW n \in 0 .. ptr - 2
        PROVE  /\ stack[n].src_id = src => stack[n].src_sp <= k - 2
               /\ stack[n].src_id # src /\ stack[n].src_id = curr_id => stack[n].src_sp <= x
               /\ stack[n].src_id # src /\ stack[n].src_id # curr_id =>
                    stack[n].src_sp <= context[stack[n].src_id].cur_sp
               /\ stack[n].src_id \in Containers
    <3>1. n \in 0 .. ptr - 1 /\ n < ptr - 1
      BY <1>1
    <3>2. stack[n].src_id = src => stack[n].src_sp + 2 <= k
      BY <1>0, <1>3, <3>1 DEF FramesDisjoint
    <3> QED BY <1>1, <1>2, <1>3, <3>1, <3>2 DEF Depths
  <2>2. ptr' - 1 = ptr - 2 /\ 0 .. ptr' - 1 \subseteq 0 .. ptr - 1
    BY <1>1, <1>6
  <2>3. ASSUME NEW n \in 0 .. ptr - 2, NEW c, c = stack[n].src_id
        PROVE  stack[n].src_sp <= InUse(c)'
    BY <1>9, <2>1, <2>3
  <2>4. \A n \in 0 .. ptr' - 1 : (stack[n].src_sp <= InUse(stack[n].src_id))'
    BY <1>6, <2>2, <2>3
  <2>5. \A n, m \in 0 .. ptr' - 1 :
          n < m /\ stack'[n].src_id = stack'[m].src_id => stack'[n].src_sp + 2 <= stack'[m].src_sp
    BY <1>0, <1>6, <2>2 DEF FramesDisjoint
  <2> QED BY <2>4, <2>5 DEF FramesDisjoint
<1>12. ContextsHaveFrame'
  <2> SUFFICES ASSUME NEW c \in Containers, c # src PROVE context'[c].cur_sp >= 2
    BY <1>6 DEF ContextsHaveFrame
  <2>1. CASE c = curr_id
    BY <1>1, <1>6, <2>1
  <2>2. CASE c # curr_id
    BY <1>0, <1>6, <2>2 DEF ContextsHaveFrame
  <2> QED BY <2>1, <2>2
<1>13. \A c \in Containers, f \in 1 .. StackCells :
         (c = curr_id => f <= sp) /\ mem[c][f].kind = "exc" => mem'[c][f].kind = "exc"
  <2> TAKE c \in Containers, f \in 1 .. StackCells
  <2> HAVE (c = curr_id => f <= sp) /\ mem[c][f].kind = "exc"
  <2>1. ~(c = curr_id /\ f \in {sp + 1, sp + 2})
    BY <1>1
  <2> QED BY <2>1 DEF Popping, SavedAbove
<1>14. \A c \in Containers, m \in Nat : \A n \in 0 .. ptr' - 1 :
         stack'[n].src_id = c /\ stack'[n].src_sp <= m => n \in 0 .. ptr - 1 /\ stack'[n] = stack[n]
  BY <1>1, <1>6
<1>15. Sound(act, sp)'
  <2>1. k - 1 <= InUse(src)
    <3>1. k <= InUse(src)
      BY <1>2, <1>3 DEF InUse
    <3> QED BY <1>3, <1>i, <3>1 DEF Depths
  <2>2. CellSound(src, k - 1)
    BY <1>0, <1>3, <2>1 DEF ActivitiesSound
  <2>3. (k - 1) - 1 = k - 2 /\ k - 2 \in Nat
    BY <1>3 DEF Depths
  <2>4. ASSUME NEW a, NEW m, a = mem[src][k - 1].act, m = k - 2
        PROVE  Sound(a, m)'
    <3>1. Sound(a, m) /\ a.cont = src
      BY <1>4, <2>2, <2>3, <2>4 DEF CellSound
    <3>2. a \in Activities
      <4>1. mem \in [Containers -> [1 .. StackCells -> Cells]]
        BY <1>0 DEF TypeOK
      <4>2. mem[src][k - 1] \in Cells
        BY <1>3, <4>1
      <4> QED BY <2>4, <4>2 DEF Cells
    <3>3. ASSUME a.kind = "direct" PROVE mem'[a.cont][a.fp].kind = "exc"
      <4>1. a.fp \in 1 .. k - 2 /\ mem[a.cont][a.fp].kind = "exc"
        BY <2>4, <3>1, <3>2, <3>3 DEF Sound, Activities, Depths
      <4>2. a.fp \in 1 .. StackCells /\ (src = curr_id => a.fp <= sp)
        BY <1>1, <1>2, <1>3, <4>1 DEF Depths
      <4> QED BY <1>3, <1>13, <3>1, <4>1, <4>2
    <3>4. \A n \in 0 .. ptr' - 1 : stack'[n].src_id = a.cont /\ stack'[n].src_sp <= m =>
            n \in 0 .. ptr - 1 /\ stack'[n] = stack[n]
      BY <1>14, <1>3, <2>3, <2>4, <3>1
    <3> QED BY <3>1, <3>3, <3>4, SoundKept
  <2> QED BY <1>5, <2>4 DEF Sound
<1>16. ASSUME NEW c \in Containers, NEW j \in 1 .. StackCells, j <= InUse(c)'
       PROVE  CellSound(c, j)'
  <2>1. CASE c = curr_id /\ j = sp + 1
    <3>1. mem'[c][j].act = act
      BY <2>1 DEF Popping, SavedAbove
    <3>2. \A f \in 1 .. sp : f \in 1 .. StackCells
      BY <1>1
    <3> QED BY <1>0, <1>1, <1>13, <1>14, <2>1, <3>1, <3>2, SavedCellSound
  <2>2. CASE c = curr_id /\ j = sp + 2
    <3>1. mem'[c][j].kind = "callee"
      BY <1>1, <2>2 DEF Popping, SavedAbove
    <3> QED BY <3>1 DEF CellSound
  <2>3. CASE ~(c = curr_id /\ j \in {sp + 1, sp + 2})
    <3>1. j <= InUse(c)
      <4>1. CASE c = src
        <5>1. k <= InUse(src) /\ j <= k - 2
          BY <1>2, <1>3, <1>9, <1>16, <4>1 DEF InUse
        <5> QED BY <1>3, <1>i, <4>1, <5>1 DEF Depths
      <4>2. CASE c # src /\ c = curr_id
        <5>1. InUse(c) = sp /\ j <= x
          BY <1>9, <1>16, <4>2 DEF InUse
        <5> QED BY <1>1, <2>3, <4>2, <5>1
      <4>3. CASE c # src /\ c # curr_id
        BY <1>9, <1>16, <4>3 DEF InUse
      <4> QED BY <4>1, <4>2, <4>3
    <3>2. CellSound(c, j) /\ mem[c][j] \in Cells
      BY <1>0, <3>1 DEF ActivitiesSound, TypeOK
    <3>3. mem[c][j].act \in Activities
      BY <3>2 DEF Cells
    <3>4. ASSUME mem[c][j].kind = "exc", mem[c][j].act.kind = "direct"
          PROVE  mem'[c][mem[c][j].act.fp].kind = "exc"
      <4> DEFINE f == mem[c][j].act.fp
      <4>1. f \in 1 .. j - 1 /\ mem[c][f].kind = "exc"
        BY <3>2, <3>3, <3>4 DEF CellSound, Sound, Activities, Depths
      <4>2. f \in 1 .. StackCells /\ (c = curr_id => f <= sp)
        BY <1>1, <3>1, <4>1 DEF InUse
      <4> QED BY <1>13, <4>1, <4>2
    <3>5. j - 1 \in Nat /\ mem'[c][j].kind = mem[c][j].kind /\ mem'[c][j].act = mem[c][j].act
      BY <2>3 DEF Popping, SavedAbove
    <3> QED BY <1>14, <3>2, <3>4, <3>5, CellSoundKept
  <2> QED BY <2>1, <2>2, <2>3
<1> QED
  BY <1>7, <1>8, <1>10, <1>11, <1>12, <1>15, <1>16 DEF SwitchInv, ActivitiesSound

(* A call and an interrupt that changes stacks: the running activity's     *)
(* frame becomes the top entry of the container stack, and container d is  *)
(* entered at sp', no deeper than its saved frames.  A call also fills the *)
(* idle frame (hole) above sp' of a container that waits for nothing.      *)
Pushing(d, status, hole) ==
  /\ Room /\ ~StackFull
  /\ Push(curr_id, sp + 2, status, d)
  /\ mem' \in [Containers -> [1 .. StackCells -> Cells]]
  /\ \A c \in Containers, j \in 1 .. StackCells :
       IF c = curr_id /\ j = sp + 1 THEN mem'[c][j].kind = "exc" /\ mem'[c][j].act = act
       ELSE IF c = curr_id /\ j = sp + 2 THEN mem'[c][j].kind = "callee"
       ELSE \/ c = d /\ d # curr_id /\ j \in hole
            \/ mem'[c][j].kind = mem[c][j].kind /\ mem'[c][j].act = mem[c][j].act
  /\ sp' \in Nat /\ \A j \in hole : j > sp'
  /\ IF d = curr_id THEN sp' = sp + 2 ELSE sp' <= context[d].cur_sp
  /\ \A n \in 0 .. ptr - 1 :
       stack[n].src_id = d => hole = {} /\ stack[n].src_sp <= sp'
  /\ act' \in Activities /\ act'.cont = d /\ Sound(act, sp)'
  /\ usp' \in Depths /\ r0' \in Values /\ active' = d /\ halted' = halted
  /\ irq_act' \subseteq Priorities /\ UNCHANGED <<irq_en, irq_pri, table>>

(* container_stack_push with the container it enters keeps the invariant.  *)
LEMMA PushInv ==
  ASSUME SwitchInv, NEW d \in Containers, NEW status \in BOOLEAN, NEW hole,
         Pushing(d, status, hole), ie' \in BOOLEAN
  PROVE  SwitchInv'
<1> USE ContainersAssumption, NumbersAssumption
<1>0. TypeOK /\ ActiveIsRunning /\ FramesIntact /\ FramesDisjoint
      /\ ActivitiesSound /\ ContextsHaveFrame
  BY DEF SwitchInv
<1>1. /\ ptr \in 0 .. MaxDepth - 1 /\ curr_id \in Containers /\ sp \in Nat /\ sp + 2 <= StackCells
      /\ sp + 1 \in 1 .. StackCells /\ usp \in Depths /\ act \in Activities
  BY <1>0 DEF TypeOK, Depths, Room, Pushing, StackFull
<1>i. \A c \in Containers : context[c].cur_sp \in Depths /\ InUse(c) \in Depths
  <2> TAKE c \in Containers
  <2>1. context[c] \in Contexts
    BY <1>0 DEF TypeOK
  <2> QED BY <1>0, <2>1 DEF Contexts, InUse, TypeOK
<1>2. \A n \in 0 .. ptr - 1 :
        /\ stack[n].src_id \in Containers /\ stack[n].src_sp \in Depths
        /\ stack[n].src_sp >= 2
        /\ stack[n].src_id = curr_id => stack[n].src_sp <= sp
        /\ stack[n].src_id # curr_id => stack[n].src_sp <= context[stack[n].src_id].cur_sp
  <2> TAKE n \in 0 .. ptr - 1
  <2>1. stack[n] \in Items
    BY <1>0, <1>1 DEF TypeOK
  <2> QED BY <1>0, <2>1 DEF Items, FramesIntact, FramesDisjoint, InUse
<1>3. /\ sp' \in Nat /\ sp' \in Depths
      /\ IF d = curr_id THEN sp' = sp + 2 ELSE sp' <= context[d].cur_sp
  <2>1. sp' \in Nat /\ IF d = curr_id THEN sp' = sp + 2 ELSE sp' <= context[d].cur_sp
    BY DEF Pushing
  <2> QED BY <1>1, <1>i, <2>1 DEF Depths
<1>4. /\ ptr' = ptr + 1 /\ curr_id' = d /\ active' = d
      /\ stack' \in [0 .. MaxDepth - 1 -> Items] /\ context' \in [Containers -> Contexts]
      /\ stack'[ptr].src_id = curr_id /\ stack'[ptr].src_sp = sp + 2
      /\ \A n \in 0 .. ptr - 1 : stack'[n] = stack[n]
      /\ context'[curr_id].cur_sp = sp + 2
      /\ \A c \in Containers \ {curr_id} : context'[c] = context[c]
  <2>1. sp + 2 \in Depths
    BY <1>1 DEF Depths
  <2>2. [cur_sp |-> sp + 2, normal_sp |-> usp, cpu_status |-> status] \in Contexts
    BY <1>1, <2>1 DEF Contexts
  <2>3. [src_id |-> curr_id, src_sp |-> sp + 2] \in Items
    BY <1>1, <2>1 DEF Items
  <2>4. context \in [Containers -> Contexts] /\ stack \in [0 .. MaxDepth - 1 -> Items]
        /\ ptr \in 0 .. MaxDepth - 1 /\ ptr \notin 0 .. ptr - 1
        /\ 0 .. ptr - 1 \subseteq 0 .. MaxDepth - 1
    BY <1>0, <1>1 DEF TypeOK
  <2> QED BY <1>1, <2>2, <2>3, <2>4 DEF Pushing, Push
<1>5. \A n \in 0 .. ptr' - 1 : n \in 0 .. ptr - 1 \/ n = ptr
  BY <1>1, <1>4
<1>6. TypeOK'
  <2>1. ptr' \in 0 .. MaxDepth
    BY <1>1, <1>4
  <2> QED BY <1>0, <1>3, <1>4, <2>1 DEF TypeOK, Pushing
<1>7. ActiveIsRunning'
  BY <1>4 DEF ActiveIsRunning, Pushing
<1>8. \A c \in Containers :
        InUse(c)' = IF c = d THEN sp' ELSE IF c = curr_id THEN sp + 2 ELSE context[c].cur_sp
  BY <1>4 DEF InUse
<1>9. FramesIntact'
  <2>1. ASSUME NEW n \in 0 .. ptr - 1, NEW c, NEW k, c = stack[n].src_id, k = stack[n].src_sp
        PROVE  /\ k >= 2 /\ mem'[c][k].kind = "callee"
               /\ mem'[c][k - 1].kind = "exc" /\ mem'[c][k - 1].act.cont = c
    <3>1. c \in Containers /\ k \in 1 .. StackCells /\ k - 1 \in 1 .. StackCells /\ k >= 2
          /\ (c = curr_id => k # sp + 1 /\ k - 1 # sp + 1 /\ k # sp + 2 /\ k - 1 # sp + 2)
      BY <1>1, <1>2, <2>1 DEF Depths
    <3>2. c = d => hole = {}
      BY <2>1 DEF Pushing
    <3>3. /\ mem'[c][k].kind = mem[c][k].kind
          /\ mem'[c][k - 1].kind = mem[c][k - 1].kind /\ mem'[c][k - 1].act = mem[c][k - 1].act
      BY <3>1, <3>2 DEF Pushing
    <3> QED BY <1>0, <2>1, <3>1, <3>3 DEF FramesIntact
  <2>2. /\ sp + 2 >= 2 /\ mem'[curr_id][sp + 2].kind = "callee"
        /\ mem'[curr_id][(sp + 2) - 1].kind = "exc" /\ mem'[curr_id][(sp + 2) - 1].act.cont = curr_id
    <3>1. sp + 2 \in 1 .. StackCells /\ sp + 2 # sp + 1 /\ (sp + 2) - 1 = sp + 1 /\ sp + 2 >= 2
      BY <1>1
    <3>2. mem'[curr_id][sp + 2].kind = "callee"
      BY <1>1, <3>1 DEF Pushing
    <3>3. mem'[curr_id][sp + 1].kind = "exc" /\ mem'[curr_id][sp + 1].act = act
      BY <1>1 DEF Pushing
    <3> QED BY <1>0, <3>1, <3>2, <3>3 DEF ActiveIsRunning
  <2>3. ASSUME NEW n \in 0 .. ptr' - 1, NEW c, NEW k, c = stack'[n].src_id, k = stack'[n].src_sp
        PROVE  /\ k >= 2 /\ mem'[c][k].kind = "callee"
               /\ mem'[c][k - 1].kind = "exc" /\ mem'[c][k - 1].act.cont = c
    <3>1. CASE n \in 0 .. ptr - 1
      <4>1. c = stack[n].src_id /\ k = stack[n].src_sp
        BY <1>4, <2>3, <3>1
      <4> QED BY <2>1, <3>1, <4>1
    <3>2. CASE n = ptr
      BY <1>4, <2>2, <2>3, <3>2
    <3> QED BY <1>5, <3>1, <3>2
  <2> QED BY <2>3 DEF FramesIntact
<1>10. FramesDisjoint'
  <2>1. ASSUME NEW n \in 0 .. ptr' - 1, NEW c, c = stack'[n].src_id
        PROVE  stack'[n].src_sp <= InUse(c)' /\ c \in Containers
    <3>1. CASE n = ptr
      BY <1>1, <1>3, <1>4, <1>8, <2>1, <3>1
    <3>2. CASE n \in 0 .. ptr - 1
      <4>1. stack[n].src_id = c /\ c \in Containers /\ stack'[n] = stack[n]
        BY <1>2, <1>4, <2>1, <3>2
      <4>2. CASE c = d
        BY <1>8, <3>2, <4>1, <4>2 DEF Pushing
      <4>3. CASE c # d
        BY <1>1, <1>2, <1>8, <3>2, <4>1, <4>3 DEF Depths
      <4> QED BY <4>2, <4>3
    <3> QED BY <1>5, <3>1, <3>2
  <2>2. ASSUME NEW n \in 0 .. ptr' - 1, NEW m \in 0 .. ptr' - 1, n < m,
               stack'[n].src_id = stack'[m].src_id
        PROVE  stack'[n].src_sp + 2 <= stack'[m].src_sp
    <3>1. n \in 0 .. ptr - 1
      <4>1. ptr' - 1 = ptr
        BY <1>1, <1>4
      <4> QED BY <1>1, <2>2, <4>1
    <3>2. CASE m = ptr
      <4>1. stack[n].src_id = curr_id /\ stack'[n] = stack[n] /\ stack'[m].src_sp = sp + 2
        BY <1>4, <2>2, <3>1, <3>2
      <4>2. stack[n].src_sp <= sp /\ stack[n].src_sp \in Depths
        BY <1>2, <3>1, <4>1
      <4> QED BY <1>1, <4>1, <4>2 DEF Depths
    <3>3. CASE m \in 0 .. ptr - 1
      BY <1>0, <1>4, <2>2, <3>1, <3>3 DEF FramesDisjoint
    <3> QED BY <1>5, <3>2, <3>3
  <2>3. \A n \in 0 .. ptr' - 1 : (stack[n].src_sp <= InUse(stack[n].src_id))'
    BY <2>1
  <2> QED BY <2>2, <2>3 DEF FramesDisjoint
<1>11. ContextsHaveFrame'
  <2> SUFFICES ASSUME NEW c \in Containers, c # d PROVE context'[c].cur_sp >= 2
    BY <1>4 DEF ContextsHaveFrame
  <2>1. CASE c = curr_id
    BY <1>1, <1>4, <2>1
  <2>2. CASE c # curr_id
    BY <1>0, <1>4, <2>2 DEF ContextsHaveFrame
  <2> QED BY <2>1, <2>2
<1>12. ASSUME NEW c \in Containers, NEW f \in 1 .. StackCells,
              c = curr_id => f <= sp, c = d /\ d # curr_id => f <= sp'
       PROVE  mem'[c][f].kind = mem[c][f].kind /\ mem'[c][f].act = mem[c][f].act
  <2>1. ~(c = curr_id /\ (f = sp + 1 \/ f = sp + 2))
    BY <1>1, <1>12
  <2>2. ~(c = d /\ d # curr_id /\ f \in hole)
    BY <1>3, <1>12 DEF Pushing
  <2> QED BY <2>1, <2>2 DEF Pushing
<1>13. \A c \in Containers, m \in Nat : (c = curr_id => m <= sp) =>
         \A n \in 0 .. ptr' - 1 :
           stack'[n].src_id = c /\ stack'[n].src_sp <= m => n \in 0 .. ptr - 1 /\ stack'[n] = stack[n]
  BY <1>1, <1>4, <1>5
<1>14. ASSUME NEW c \in Containers, NEW j \in 1 .. StackCells, j <= InUse(c)'
       PROVE  CellSound(c, j)'
  <2>1. CASE c = curr_id /\ j = sp + 1
    <3>1. mem'[c][j].act = act
      BY <2>1 DEF Pushing
    <3>2. \A f \in 1 .. sp : f \in 1 .. StackCells /\ f <= sp
      BY <1>1
    <3>3. \A f \in 1 .. sp : mem'[c][f].kind = mem[c][f].kind
      BY <1>12, <2>1, <3>2
    <3>4. \A n \in 0 .. ptr' - 1 :
           stack'[n].src_id = c /\ stack'[n].src_sp <= sp => n \in 0 .. ptr - 1 /\ stack'[n] = stack[n]
      BY <1>1, <1>13, <2>1
    <3> QED BY <1>0, <2>1, <3>1, <3>3, <3>4, SavedCellSound
  <2>2. CASE c = curr_id /\ j = sp + 2
    <3>1. mem'[c][j].kind = "callee"
      BY <1>1, <2>2 DEF Pushing
    <3> QED BY <3>1 DEF CellSound
  <2>3. CASE ~(c = curr_id /\ (j = sp + 1 \/ j = sp + 2))
    <3>1. j <= InUse(c) /\ (c = curr_id => j <= sp) /\ (c = d /\ d # curr_id => j <= sp')
      <4>1. CASE c = curr_id
        BY <1>1, <1>3, <1>8, <1>14, <2>3, <4>1 DEF InUse
      <4>2. CASE c # curr_id
        BY <1>3, <1>i, <1>8, <1>14, <4>2 DEF InUse, Depths
      <4> QED BY <4>1, <4>2
    <3>2. CellSound(c, j) /\ mem[c][j] \in Cells
      BY <1>0, <3>1 DEF ActivitiesSound, TypeOK
    <3>3. mem[c][j].act \in Activities
      BY <3>2 DEF Cells
    <3>4. ASSUME mem[c][j].kind = "exc", mem[c][j].act.kind = "direct"
          PROVE  mem'[c][mem[c][j].act.fp].kind = "exc"
      <4> DEFINE f == mem[c][j].act.fp
      <4>1. f \in 1 .. j - 1 /\ mem[c][f].kind = "exc"
        BY <3>2, <3>3, <3>4 DEF CellSound, Sound, Activities, Depths
      <4>2. f \in 1 .. StackCells /\ (c = curr_id => f <= sp) /\ (c = d /\ d # curr_id => f <= sp')
        BY <1>1, <1>3, <3>1, <4>1
      <4> QED BY <1>12, <4>1, <4>2
    <3>5. mem'[c][j].kind = mem[c][j].kind /\ mem'[c][j].act = mem[c][j].act
      BY <1>12, <3>1
    <3>6. j - 1 \in Nat /\ (c = curr_id => j - 1 <= sp)
      BY <1>1, <3>1
    <3>7. \A n \in 0 .. ptr' - 1 :
           stack'[n].src_id = c /\ stack'[n].src_sp <= j - 1 => n \in 0 .. ptr - 1 /\ stack'[n] = stack[n]
      BY <1>13, <3>6
    <3> QED BY <3>2, <3>4, <3>5, <3>7, CellSoundKept
  <2> QED BY <2>1, <2>2, <2>3
<1> QED
  BY <1>6, <1>7, <1>9, <1>10, <1>11, <1>14 DEF SwitchInv, ActivitiesSound, Pushing

(* SAVE_CALLEE_REGS after the prologue: two cells above the ones in use.   *)
LEMMA SaveCalleeCells ==
  ASSUME TypeOK, Room
  PROVE  /\ SaveCallee \in [Containers -> [1 .. StackCells -> Cells]]
         /\ sp + 1 \in 1 .. StackCells /\ sp + 2 \in 1 .. StackCells /\ sp \in Nat
         /\ \A c \in Containers, j \in 1 .. StackCells :
              SaveCallee[c][j] =
                IF c = curr_id /\ j = sp + 1 THEN ExcCell(act, r0, ie)
                ELSE IF c = curr_id /\ j = sp + 2 THEN CalleeCell(usp)
                ELSE mem[c][j]
<1> USE ContainersAssumption, NumbersAssumption
<1>1. sp \in Nat /\ sp + 1 \in 1 .. StackCells /\ sp + 2 \in 1 .. StackCells
      /\ curr_id \in Containers
  BY DEF TypeOK, Room, Depths
<1>2. ExcCell(act, r0, ie) \in Cells
  BY DEF TypeOK, Cells, ExcCell, Depths
<1>3. CalleeCell(usp) \in Cells
  BY DEF TypeOK, Cells, CalleeCell, Depths, Main, Activities
<1>4. mem \in [Containers -> [1 .. StackCells -> Cells]]
  BY DEF TypeOK
<1>5. SaveExc \in [Containers -> [1 .. StackCells -> Cells]]
  BY <1>1, <1>2, <1>4 DEF SaveExc
<1>6. SaveCallee \in [Containers -> [1 .. StackCells -> Cells]]
  BY <1>1, <1>3, <1>5 DEF SaveCallee
<1>7. \A c \in Containers, j \in 1 .. StackCells :
        SaveExc[c][j] = IF c = curr_id /\ j = sp + 1 THEN ExcCell(act, r0, ie) ELSE mem[c][j]
  BY <1>1, <1>2, <1>4 DEF SaveExc
<1>8. \A c \in Containers, j \in 1 .. StackCells :
        SaveCallee[c][j] = IF c = curr_id /\ j = sp + 2 THEN CalleeCell(usp) ELSE SaveExc[c][j]
  BY <1>1, <1>3, <1>5 DEF SaveCallee
<1>9. sp + 1 # sp + 2
  BY <1>1
<1> QED BY <1>1, <1>6, <1>7, <1>8, <1>9

(* Both are above the cells in use and say what was running.               *)
LEMMA SaveCalleeAbove ==
  ASSUME TypeOK, Room, mem' = SaveCallee
  PROVE  mem' \in [Containers -> [1 .. StackCells -> Cells]] /\ SavedAbove
<1>1. /\ mem' \in [Containers -> [1 .. StackCells -> Cells]]
      /\ \A c \in Containers, j \in 1 .. StackCells :
           mem'[c][j] = IF c = curr_id /\ j = sp + 1 THEN ExcCell(act, r0, ie)
                        ELSE IF c = curr_id /\ j = sp + 2 THEN CalleeCell(usp)
                        ELSE mem[c][j]
  BY SaveCalleeCells
<1>2. /\ ExcCell(act, r0, ie).kind = "exc" /\ ExcCell(act, r0, ie).act = act
      /\ CalleeCell(usp).kind = "callee"
  BY DEF ExcCell, CalleeCell
<1>3. SavedAbove
  <2> SUFFICES ASSUME NEW c \in Containers, NEW j \in 1 .. StackCells
               PROVE  IF c = curr_id /\ j = sp + 1
                      THEN mem'[c][j].kind = "exc" /\ mem'[c][j].act = act
                      ELSE IF c = curr_id /\ j = sp + 2 THEN mem'[c][j].kind = "callee"
                      ELSE mem'[c][j].kind = mem[c][j].kind /\ mem'[c][j].act = mem[c][j].act
    BY DEF SavedAbove
  <2>1. mem'[c][j] = IF c = curr_id /\ j = sp + 1 THEN ExcCell(act, r0, ie)
                     ELSE IF c = curr_id /\ j = sp + 2 THEN CalleeCell(usp)
                     ELSE mem[c][j]
    BY <1>1
  <2> QED BY <1>2, <2>1
<1> QED BY <1>1, <1>3

(* secureshield_int_return is such a return.                               *)
LEMMA IntReturnPops ==
  ASSUME SwitchInv, IntReturn
  PROVE  Popping(sp, ie, stack[ptr - 1].src_id, stack[ptr - 1].src_sp)
<1> USE ContainersAssumption, NumbersAssumption
<1>0. TypeOK /\ ActiveIsRunning /\ FramesIntact /\ ActivitiesSound
  BY DEF SwitchInv
<1>1. /\ Room /\ ptr # 0 /\ act.kind = "isr" /\ LocalsSp = act.fp /\ mem' = SaveCallee
      /\ Pop(curr_id, sp, ie) /\ active' = stack[ptr - 1].src_id
      /\ Resume(stack[ptr - 1].src_id, stack[ptr - 1].src_sp)
  BY DEF IntReturn
<1>2. sp \in Nat /\ act \in Activities
  BY <1>0 DEF TypeOK, Depths
<1>3. sp >= 2
  BY <1>0, <1>1, <1>2 DEF ActivitiesSound, Sound, LocalsSp, Frame
<1>4. mem' \in [Containers -> [1 .. StackCells -> Cells]] /\ SavedAbove
  BY <1>0, <1>1, SaveCalleeAbove
<1>5. irq_act' \subseteq Priorities
  BY <1>0 DEF IntReturn, TypeOK
<1> QED BY <1>1, <1>3, <1>4, <1>5 DEF Popping, IntReturn

LEMMA IntReturnInv == ASSUME SwitchInv, IntReturn PROVE SwitchInv'
<1>1. ie \in BOOLEAN
  BY DEF SwitchInv, TypeOK
<1> QED BY <1>1, IntReturnPops, PopInv

(* trap_container_call_out is such a return, with r0 of the callee copied  *)
(* into the exception frame of the caller.                                 *)
LEMMA CallReturnPops ==
  ASSUME SwitchInv, CallReturn
  PROVE  /\ Popping(sp + 2, ie, stack[ptr - 1].src_id, stack[ptr - 1].src_sp)
         /\ \A c \in Containers, j \in 1 .. StackCells :
              mem'[c][j].usp = SaveCallee[c][j].usp
<1> USE ContainersAssumption, NumbersAssumption
<1>0. TypeOK /\ ActiveIsRunning /\ FramesIntact /\ FramesDisjoint /\ ActivitiesSound
  BY DEF SwitchInv
<1> SUFFICES ASSUME NEW src, NEW k, src = stack[ptr - 1].src_id, k = stack[ptr - 1].src_sp
             PROVE  /\ Popping(sp + 2, ie, src, k)
                    /\ \A c \in Containers, j \in 1 .. StackCells :
                         mem'[c][j].usp = SaveCallee[c][j].usp
  OBVIOUS
<1>1. /\ Room /\ ptr # 0 /\ mem' = [SaveCallee EXCEPT ![src][k - 1].r0 = r0]
      /\ Pop(curr_id, sp + 2, ie) /\ active' = src /\ Resume(src, k)
      /\ UNCHANGED <<irq_act, irq_en, irq_pri, table, halted>>
  BY DEF CallReturn, irq
<1>2. /\ sp \in Nat /\ sp + 2 >= 2 /\ sp + 2 <= StackCells /\ r0 \in Values
      /\ ptr - 1 \in 0 .. ptr - 1
  BY <1>0, <1>1 DEF TypeOK, Depths, Room
<1>3. /\ src \in Containers /\ k \in Depths /\ k >= 2
      /\ src = curr_id => k <= sp
  <2>1. stack[ptr - 1] \in Items
    BY <1>0, <1>2 DEF TypeOK
  <2> QED BY <1>0, <1>2, <2>1 DEF Items, FramesIntact, FramesDisjoint, InUse
<1>4. k - 1 \in 1 .. StackCells
      /\ ~(src = curr_id /\ (k - 1 = sp + 1 \/ k - 1 = sp + 2))
  BY <1>2, <1>3 DEF Depths
<1>5. /\ SaveCallee \in [Containers -> [1 .. StackCells -> Cells]]
      /\ \A c \in Containers, j \in 1 .. StackCells :
           SaveCallee[c][j] =
             IF c = curr_id /\ j = sp + 1 THEN ExcCell(act, r0, ie)
             ELSE IF c = curr_id /\ j = sp + 2 THEN CalleeCell(usp)
             ELSE mem[c][j]
  BY <1>0, <1>1, SaveCalleeCells
<1>6. SaveCallee[src][k - 1] \in Cells
  BY <1>3, <1>4, <1>5
<1>7. [SaveCallee[src][k - 1] EXCEPT !.r0 = r0] \in Cells
  BY <1>2, <1>6 DEF Cells
<1>8. mem' \in [Containers -> [1 .. StackCells -> Cells]]
  BY <1>1, <1>3, <1>4, <1>5, <1>7
<1>9. \A c \in Containers, j \in 1 .. StackCells :
        /\ mem'[c][j].kind = SaveCallee[c][j].kind /\ mem'[c][j].act = SaveCallee[c][j].act
        /\ mem'[c][j].usp = SaveCallee[c][j].usp
  <2>1. \A c \in Containers, j \in 1 .. StackCells :
          mem'[c][j] = IF c = src /\ j = k - 1 THEN [SaveCallee[c][j] EXCEPT !.r0 = r0]
                       ELSE SaveCallee[c][j]
    BY <1>1, <1>3, <1>4, <1>5
  <2>2. \A x \in Cells : /\ [x EXCEPT !.r0 = r0].kind = x.kind
                        /\ [x EXCEPT !.r0 = r0].act = x.act
                        /\ [x EXCEPT !.r0 = r0].usp = x.usp
    BY DEF Cells
  <2> TAKE c \in Containers, j \in 1 .. StackCells
  <2>3. CASE c = src /\ j = k - 1
    <3>1. mem'[c][j] = [SaveCallee[src][k - 1] EXCEPT !.r0 = r0]
      BY <2>1, <2>3
    <3> QED BY <1>6, <2>2, <2>3, <3>1
  <2>4. CASE ~(c = src /\ j = k - 1)
    BY <2>1, <2>4
  <2> QED BY <2>3, <2>4
<1>10. SavedAbove
  <2>1. ExcCell(act, r0, ie).kind = "exc" /\ ExcCell(act, r0, ie).act = act
        /\ CalleeCell(usp).kind = "callee"
    BY DEF ExcCell, CalleeCell
  <2> SUFFICES ASSUME NEW c \in Containers, NEW j \in 1 .. StackCells
               PROVE  IF c = curr_id /\ j = sp + 1
                      THEN mem'[c][j].kind = "exc" /\ mem'[c][j].act = act
                      ELSE IF c = curr_id /\ j = sp + 2 THEN mem'[c][j].kind = "callee"
                      ELSE mem'[c][j].kind = mem[c][j].kind /\ mem'[c][j].act = mem[c][j].act
    BY DEF SavedAbove
  <2>2. mem'[c][j].kind = SaveCallee[c][j].kind /\ mem'[c][j].act = SaveCallee[c][j].act
    BY <1>9
  <2>3. SaveCallee[c][j] = IF c = curr_id /\ j = sp + 1 THEN ExcCell(act, r0, ie)
                           ELSE IF c = curr_id /\ j = sp + 2 THEN CalleeCell(usp)
                           ELSE mem[c][j]
    BY <1>5
  <2> QED BY <2>1, <2>2, <2>3
<1>11. Popping(sp + 2, ie, src, k)
  <2>1. irq_act' \subseteq Priorities /\ sp + 2 \in {sp, sp + 2}
    BY <1>0, <1>1 DEF TypeOK
  <2>2. src = stack[ptr - 1].src_id /\ k = stack[ptr - 1].src_sp
    OBVIOUS
  <2>3. sp + 2 >= 2
    BY <1>2
  <2> QED BY <1>1, <1>8, <1>10, <2>1, <2>2, <2>3 DEF Popping
<1> QED BY <1>9, <1>11

LEMMA CallReturnInv == ASSUME SwitchInv, CallReturn PROVE SwitchInv'
<1>1. ie \in BOOLEAN
  BY DEF SwitchInv, TypeOK
<1> QED BY <1>1, CallReturnPops, PopInv

(* With no loops, a container call enters a container that waits for       *)
(* nothing: its context points to the idle frame.                          *)
LEMMA ContainerCallPushes ==
  ASSUME AllowLoops = FALSE, SwitchInv, NEW d \in Containers, NEW v \in Values,
         ContainerCall(d, v), NEW frame, frame = context[d].cur_sp
  PROVE  /\ Pushing(d, ie, {frame - 1}) /\ ie' \in BOOLEAN
         /\ \A c \in Containers, j \in 1 .. StackCells :
              ~(c = d /\ j = frame - 1) => mem'[c][j] = SaveCallee[c][j]
         /\ act'.kind = "fn" /\ sp' = frame - 2
         /\ IsSecure(d) => act'.fp = frame - 2
<1> USE ContainersAssumption, NumbersAssumption
<1>0. TypeOK /\ ActiveIsRunning /\ ContextsHaveFrame
  BY DEF SwitchInv
<1> DEFINE entry == [cont |-> d, kind |-> "fn",
                     fp |-> Frame(d, frame - 2, mem[d][frame].usp)]
<1>1. /\ Room /\ ~StackFull /\ d # curr_id /\ Push(curr_id, sp + 2, ie, d)
      /\ mem' = [SaveCallee EXCEPT ![d][frame - 1] = ExcCell(entry, v, context[d].cpu_status)]
      /\ active' = d /\ Resume(d, frame)
      /\ UNCHANGED <<irq_act, irq_en, irq_pri, table, halted>>
  BY DEF ContainerCall, CallTarget, irq
<1>2. \A n \in 0 .. ptr - 1 : stack[n].src_id # d
  BY DEF ContainerCall, CallerObeys, Waiting
<1>3. /\ frame \in Nat /\ frame >= 2 /\ frame \in 1 .. StackCells /\ frame - 1 \in 1 .. StackCells
      /\ frame - 2 \in Depths /\ frame - 2 \in Nat /\ frame - 1 > frame - 2
  <2>1. context[d] \in Contexts /\ frame >= 2
    BY <1>0, <1>1 DEF TypeOK, ContextsHaveFrame
  <2> QED BY <2>1 DEF Contexts, Depths
<1>4. context[d].cpu_status \in BOOLEAN
  <2>1. context[d] \in Contexts
    BY <1>0 DEF TypeOK
  <2> QED BY <2>1 DEF Contexts
<1>5. mem[d][frame].usp \in Depths
  <2>1. mem[d][frame] \in Cells
    BY <1>0, <1>3 DEF TypeOK
  <2> QED BY <2>1 DEF Cells
<1>6. entry \in Activities /\ entry.cont = d /\ entry.kind = "fn"
      /\ (IsSecure(d) => entry.fp = frame - 2)
  BY <1>3, <1>5 DEF Activities, Frame
<1>7. /\ SaveCallee \in [Containers -> [1 .. StackCells -> Cells]]
      /\ sp + 1 \in 1 .. StackCells /\ sp \in Nat
      /\ \A c \in Containers, j \in 1 .. StackCells :
           SaveCallee[c][j] =
             IF c = curr_id /\ j = sp + 1 THEN ExcCell(act, r0, ie)
             ELSE IF c = curr_id /\ j = sp + 2 THEN CalleeCell(usp)
             ELSE mem[c][j]
  BY <1>0, <1>1, SaveCalleeCells
<1>8. ExcCell(entry, v, context[d].cpu_status) \in Cells
  BY <1>4, <1>6 DEF Cells, ExcCell, Depths
<1>9. /\ mem' \in [Containers -> [1 .. StackCells -> Cells]]
      /\ mem'[d][frame - 1] = ExcCell(entry, v, context[d].cpu_status)
      /\ \A c \in Containers, j \in 1 .. StackCells :
           ~(c = d /\ j = frame - 1) => mem'[c][j] = SaveCallee[c][j]
  BY <1>1, <1>3, <1>7, <1>8
<1>10. \A c \in Containers, j \in 1 .. StackCells :
         IF c = curr_id /\ j = sp + 1 THEN mem'[c][j].kind = "exc" /\ mem'[c][j].act = act
         ELSE IF c = curr_id /\ j = sp + 2 THEN mem'[c][j].kind = "callee"
         ELSE \/ c = d /\ d # curr_id /\ j \in {frame - 1}
              \/ mem'[c][j].kind = mem[c][j].kind /\ mem'[c][j].act = mem[c][j].act
  <2>1. ExcCell(act, r0, ie).kind = "exc" /\ ExcCell(act, r0, ie).act = act
        /\ CalleeCell(usp).kind = "callee"
    BY DEF ExcCell, CalleeCell
  <2> TAKE c \in Containers, j \in 1 .. StackCells
  <2>2. CASE c = d /\ j = frame - 1
    BY <1>1, <2>2
  <2>3. CASE ~(c = d /\ j = frame - 1)
    <3>1. mem'[c][j] = IF c = curr_id /\ j = sp + 1 THEN ExcCell(act, r0, ie)
                       ELSE IF c = curr_id /\ j = sp + 2 THEN CalleeCell(usp)
                       ELSE mem[c][j]
      BY <1>7, <1>9, <2>3
    <3> QED BY <2>1, <3>1
  <2> QED BY <2>2, <2>3
<1> HIDE DEF entry
<1>11. act' = entry /\ r0' = v /\ sp' = frame - 2
  BY <1>1, <1>9 DEF Resume, ExcCell
<1>12. usp' \in Depths
  <2>1. mem'[d][frame] \in Cells
    BY <1>3, <1>9
  <2> QED BY <1>1, <2>1 DEF Resume, Cells
<1>13. ie' \in BOOLEAN
  <2>1. ie' = context[d].cpu_status
    BY <1>1, <1>9 DEF Resume, ExcCell
  <2> QED BY <1>4, <2>1
<1>14. Sound(act, sp)'
  <2>1. \A n \in 0 .. ptr' - 1 : stack'[n].src_id # d
    <3>1. ptr' = ptr + 1 /\ ptr \in 0 .. MaxDepth - 1
      BY <1>0, <1>1 DEF Push, TypeOK, StackFull
    <3>2. stack' = [stack EXCEPT ![ptr] = [src_id |-> curr_id, src_sp |-> sp + 2]]
      BY <1>1 DEF Push
    <3>3. stack \in [0 .. MaxDepth - 1 -> Items]
      BY <1>0 DEF TypeOK
    <3> TAKE n \in 0 .. ptr' - 1
    <3>4. n \in 0 .. MaxDepth - 1 /\ (n = ptr \/ n \in 0 .. ptr - 1)
      BY <3>1
    <3> QED BY <1>1, <1>2, <3>1, <3>2, <3>3, <3>4
  <2>2. ASSUME NEW a, NEW k, a = entry, k = frame - 2
        PROVE  Sound(a, k)'
    BY <1>3, <1>6, <2>1, <2>2 DEF Sound
  <2> QED BY <1>11, <2>2 DEF Sound
<1>15. Pushing(d, ie, {frame - 1})
  <2>1. sp' \in Nat /\ (\A j \in {frame - 1} : j > sp') /\ sp' <= context[d].cur_sp
    BY <1>3, <1>11
  <2>2. irq_act' \subseteq Priorities
    BY <1>0, <1>1 DEF TypeOK
  <2>3. \A n \in 0 .. ptr - 1 :
          stack[n].src_id = d => {frame - 1} = {} /\ stack[n].src_sp <= sp'
    BY <1>2
  <2>4. act' \in Activities /\ act'.cont = d /\ r0' \in Values
    BY <1>6, <1>11
  <2> QED BY <1>1, <1>9, <1>10, <1>12, <1>14, <2>1, <2>2, <2>3, <2>4 DEF Pushing
<1> QED BY <1>6, <1>9, <1>11, <1>13, <1>15

LEMMA ContainerCallInv ==
  ASSUME AllowLoops = FALSE, SwitchInv, NEW d \in Containers, NEW v \in Values,
         ContainerCall(d, v)
  PROVE  SwitchInv'
<1>1. PICK frame : frame = context[d].cur_sp
  OBVIOUS
<1>2. Pushing(d, ie, {frame - 1}) /\ ie' \in BOOLEAN
  BY <1>1, ContainerCallPushes
<1>3. ie \in BOOLEAN
  BY DEF SwitchInv, TypeOK
<1> QED BY <1>2, <1>3, PushInv

(* An interrupt enters its container below everything it has saved.        *)
LEMMA InterruptSwitchPushes ==
  ASSUME SwitchInv, NEW i \in Irqs, InterruptSwitch(i), NEW d, d = table[i].id
  PROVE  /\ d \in Containers /\ Pushing(d, ie, {}) /\ ie' \in BOOLEAN
         /\ mem' = SaveCallee
         /\ sp' = IF d = curr_id THEN sp + 2 ELSE context[d].cur_sp
         /\ act'.kind = "isr" /\ act'.fp = Frame(d, sp', usp')
         /\ ~IsSecure(d) =>
              usp' = IF d = curr_id THEN usp ELSE context[d].normal_sp
<1> USE ContainersAssumption, NumbersAssumption
<1>0. TypeOK /\ ActiveIsRunning /\ ContextsHaveFrame /\ FramesDisjoint
  BY DEF SwitchInv
<1>1. /\ Room /\ ~StackFull /\ (d # curr_id \/ ~IsSecure(curr_id))
      /\ Push(curr_id, sp + 2, ie, d) /\ mem' = SaveCallee /\ active' = d
      /\ sp' = context'[d].cur_sp
      /\ usp' = IF IsSecure(d) THEN 0 ELSE context'[d].normal_sp
      /\ ie' = IF d # curr_id THEN context[d].cpu_status ELSE ie
      /\ act' = [cont |-> d, kind |-> "isr", fp |-> Frame(d, sp', usp')]
      /\ r0' = 0
      /\ irq_act' = irq_act \cup {irq_pri[i]}
      /\ UNCHANGED <<irq_en, irq_pri, table, halted>>
  BY DEF InterruptSwitch, Accepted
<1>2. d \in Containers
  <2>1. table[i] \in Entries
    BY <1>0 DEF TypeOK
  <2> QED BY <2>1 DEF Entries
<1>3. /\ curr_id \in Containers /\ sp \in Nat /\ sp + 2 \in Depths /\ sp + 2 >= 2
      /\ usp \in Depths /\ ptr \in 0 .. MaxDepth - 1
  BY <1>0, <1>1 DEF TypeOK, Depths, Room, StackFull
<1>4. \A c \in Containers : context[c].cur_sp \in Depths /\ context[c].normal_sp \in Depths
  <2> TAKE c \in Containers
  <2>1. context[c] \in Contexts
    BY <1>0 DEF TypeOK
  <2> QED BY <2>1 DEF Contexts
<1>5. context'[d].cur_sp = (IF d = curr_id THEN sp + 2 ELSE context[d].cur_sp)
      /\ context'[d].normal_sp = (IF d = curr_id THEN usp ELSE context[d].normal_sp)
  <2>1. context \in [Containers -> Contexts]
    BY <1>0 DEF TypeOK
  <2> QED BY <1>1, <1>2, <1>3, <2>1 DEF Push
<1>6. /\ sp' \in Depths /\ sp' \in Nat /\ sp' >= 2
      /\ IF d = curr_id THEN sp' = sp + 2 ELSE sp' <= context[d].cur_sp
  <2>1. sp' = IF d = curr_id THEN sp + 2 ELSE context[d].cur_sp
    BY <1>1, <1>5
  <2>2. d # curr_id => context[d].cur_sp >= 2
    BY <1>0, <1>2 DEF ContextsHaveFrame
  <2> QED BY <1>2, <1>3, <1>4, <2>1, <2>2 DEF Depths
<1>7. usp' \in Depths
  <2>1. usp' = IF IsSecure(d) THEN 0
               ELSE IF d = curr_id THEN usp ELSE context[d].normal_sp
    BY <1>1, <1>5
  <2>2. context[d].normal_sp \in Depths
    BY <1>2, <1>4
  <2>3. 0 \in Depths
    BY DEF Depths
  <2> QED BY <1>3, <2>1, <2>2, <2>3
<1>8. /\ act' \in Activities /\ act'.cont = d /\ act'.kind = "isr"
      /\ (IsSecure(d) => act'.fp = sp')
  BY <1>1, <1>2, <1>6, <1>7 DEF Activities, Frame
<1>9. ie' \in BOOLEAN /\ ie \in BOOLEAN
  <2>1. context[d] \in Contexts /\ ie \in BOOLEAN
    BY <1>0, <1>2 DEF TypeOK
  <2>2. context[d].cpu_status \in BOOLEAN
    BY <2>1 DEF Contexts
  <2> QED BY <1>1, <2>1, <2>2
<1>10. mem' \in [Containers -> [1 .. StackCells -> Cells]]
       /\ \A c \in Containers, j \in 1 .. StackCells :
         IF c = curr_id /\ j = sp + 1 THEN mem'[c][j].kind = "exc" /\ mem'[c][j].act = act
         ELSE IF c = curr_id /\ j = sp + 2 THEN mem'[c][j].kind = "callee"
         ELSE \/ c = d /\ d # curr_id /\ j \in {}
              \/ mem'[c][j].kind = mem[c][j].kind /\ mem'[c][j].act = mem[c][j].act
  <2>1. mem' \in [Containers -> [1 .. StackCells -> Cells]] /\ SavedAbove
    BY <1>0, <1>1, SaveCalleeAbove
  <2> QED BY <2>1 DEF SavedAbove
<1>11. Sound(act, sp)'
  <2>1. ASSUME NEW a, NEW k, a = act', k = sp'
        PROVE  Sound(a, k)'
    BY <1>6, <1>8, <2>1 DEF Sound
  <2> QED BY <2>1 DEF Sound
<1>12. \A n \in 0 .. ptr - 1 : stack[n].src_id = d => {} = {} /\ stack[n].src_sp <= sp'
  <2> TAKE n \in 0 .. ptr - 1
  <2>1. stack[n] \in Items
    BY <1>0, <1>3 DEF TypeOK
  <2>2. stack[n].src_sp \in Nat /\ stack[n].src_sp <= InUse(stack[n].src_id)
    BY <1>0, <2>1 DEF Items, Depths, FramesDisjoint
  <2>3. sp' = IF d = curr_id THEN sp + 2 ELSE context[d].cur_sp
    BY <1>1, <1>5
  <2> QED BY <1>3, <2>2, <2>3 DEF InUse
<1>13. irq_act' \subseteq Priorities
  BY <1>0, <1>1 DEF TypeOK
<1>14. Pushing(d, ie, {})
  <2>1. r0' \in Values
    BY <1>1
  <2> QED BY <1>1, <1>6, <1>7, <1>8, <1>10, <1>11, <1>12, <1>13, <2>1 DEF Pushing
<1> QED BY <1>1, <1>2, <1>5, <1>8, <1>9, <1>14

LEMMA InterruptSwitchInv ==
  ASSUME SwitchInv, NEW i \in Irqs, InterruptSwitch(i) PROVE SwitchInv'
<1>1. PICK d : d = table[i].id
  OBVIOUS
<1>2. d \in Containers /\ Pushing(d, ie, {}) /\ ie' \in BOOLEAN
  BY <1>1, InterruptSwitchPushes
<1>3. ie \in BOOLEAN
  BY DEF SwitchInv, TypeOK
<1> QED BY <1>2, <1>3, PushInv

(* Every step of the runtime and of the containers keeps the invariant.    *)
LEMMA SwitchStep ==
  ASSUME AllowLoops = FALSE, SwitchInv, [Next]_vars PROVE SwitchInv'
<1>1. CASE UNCHANGED vars
  <2>1. UNCHANGED <<act, sp, usp, r0, ie, irq_act, irq_en, irq_pri, mem, stack, ptr,
                    curr_id, context, active, table, halted>>
    BY <1>1 DEF vars, cpu, irq, chain
  <2>2. TypeOK'
    BY <2>1 DEF SwitchInv, TypeOK
  <2> QED BY <2>1, <2>2, NothingMoves
<1>2. CASE \E v \in Values : Compute(v)
  BY <1>2, ComputeInv
<1>3. CASE PushLocal \/ PopLocal \/ ToggleInterrupts
  BY <1>3, PushLocalInv, PopLocalInv, ToggleInv
<1>4. CASE CallInInterrupt \/ \E d \in Containers : CallHalt(d)
  BY <1>4, CallInInterruptInv, CallHaltInv
<1>5. CASE \E d \in Containers, v \in Values : ContainerCall(d, v)
  BY <1>5, ContainerCallInv
<1>6. CASE CallReturn
  BY <1>6, CallReturnInv
<1>7. CASE \E i \in Irqs : InterruptNotInstalled(i) \/ InterruptDirect(i)
                           \/ InterruptSwitch(i) \/ InterruptHalt(i)
  BY <1>7, InterruptNotInstalledInv, InterruptDirectInv, InterruptSwitchInv, InterruptHaltInv
<1>8. CASE DirectReturn \/ IntReturn
  BY <1>8, DirectReturnInv, IntReturnInv
<1> QED BY <1>1, <1>2, <1>3, <1>4, <1>5, <1>6, <1>7, <1>8 DEF Next, Halted

(* In every behaviour in which no call loops back to a container that      *)
(* waits, the conjuncts of SwitchInv hold in every state.                  *)
LEMMA SwitchIsSafe == ASSUME AllowLoops = FALSE PROVE Spec => []SwitchInv
<1>1. SwitchInv /\ [Next]_vars => SwitchInv'
  BY SwitchStep
<1> QED BY InitInv, <1>1, PTL DEF Spec

(* Every stack pointer, frame, context and table entry the runtime handles *)
(* keeps its type: whatever is nested, ptr stays within g_container_stack  *)
(* and every saved stack pointer within its stack, as long as the          *)
(* containers' own stacks are large enough (Room).                         *)
THEOREM TypeCorrect == ASSUME AllowLoops = FALSE PROVE Spec => []TypeOK
<1>1. SwitchInv => TypeOK
  BY DEF SwitchInv
<1> QED BY <1>1, SwitchIsSafe, PTL

(* The processor always executes code of the container the runtime says is *)
(* current, under that container's MPU regions.                            *)
THEOREM RunningIsActive == ASSUME AllowLoops = FALSE PROVE Spec => []ActiveIsRunning
<1>1. SwitchInv => ActiveIsRunning
  BY DEF SwitchInv
<1> QED BY <1>1, SwitchIsSafe, PTL

(* Whatever calls, returns and interrupts came in between, the frame each  *)
(* entry of the container stack points to is still the frame that was      *)
(* saved there: a callee frame below an exception frame of its container.  *)
THEOREM FramesStayIntact == ASSUME AllowLoops = FALSE PROVE Spec => []FramesIntact
<1>1. SwitchInv => FramesIntact
  BY DEF SwitchInv
<1> QED BY <1>1, SwitchIsSafe, PTL

(* No saved frame overlaps another one or the stack of what runs above it. *)
THEOREM FramesStayDisjoint == ASSUME AllowLoops = FALSE PROVE Spec => []FramesDisjoint
<1>1. SwitchInv => FramesDisjoint
  BY DEF SwitchInv
<1> QED BY <1>1, SwitchIsSafe, PTL

(***************************************************************************)
(* A second layer: why a container can be entered again.  When a function  *)
(* leaves, its container must be left with the idle frame it was entered   *)
(* on; when a handler leaves, with the frame it was entered on, which must *)
(* still be the container's newest one.  So every activity, running or     *)
(* saved, keeps what its return relies on (ActivitiesEntered).             *)
(***************************************************************************)
Newest(k, F) == IF F = {} THEN k = 2 ELSE k \in F /\ \A f \in F : f <= k
Below(c, k)  == {f \in Frames(c) : f <= k}

(* What activity a, with k cells of its container's stack in use, finds    *)
(* under its own locals.                                                   *)
Base(a, k) == IF IsSecure(a.cont) THEN a.fp ELSE k
Entered(a, k) ==
  /\ a.kind = "fn" => Below(a.cont, k) = {} /\ Base(a, k) = 0
  /\ a.kind = "isr" =>
       /\ Newest(Base(a, k), Below(a.cont, k))
       /\ mem[a.cont][Base(a, k)].kind = "callee"
       /\ ~IsSecure(a.cont) => mem[a.cont][Base(a, k)].usp = a.fp
CellEntered(c, j)  == mem[c][j].kind = "exc" => Entered(mem[c][j].act, j - 1)
ActivitiesEntered ==
  /\ Entered(act, sp)
  /\ \A c \in Containers, j \in 1 .. StackCells : j <= InUse(c) => CellEntered(c, j)

EnterInv == SwitchInv /\ ContextsEnterable /\ ActivitiesEntered

(* The step leaves what a cell says of the code it belongs to.             *)
Kept(c, j) ==
  /\ mem'[c][j].kind = mem[c][j].kind
  /\ mem'[c][j].act = mem[c][j].act
  /\ mem'[c][j].usp = mem[c][j].usp

(* Every frame of a container lies in the part of its stack in use.        *)
LEMMA FramesInUse ==
  ASSUME SwitchInv, NEW c \in Containers
  PROVE  \A f \in Frames(c) : f \in Nat /\ f >= 2 /\ f <= StackCells /\ f <= InUse(c)
<1> USE NumbersAssumption
<1> TAKE f \in Frames(c)
<1>1. PICK n \in 0 .. ptr - 1 : stack[n].src_id = c /\ stack[n].src_sp = f
  BY DEF Frames
<1>2. stack[n] \in Items
  BY DEF SwitchInv, TypeOK
<1>3. f \in Depths
  BY <1>1, <1>2 DEF Items
<1> QED BY <1>1, <1>3 DEF SwitchInv, FramesIntact, FramesDisjoint, Depths

(* An activity keeps what its return relies on when the cells it stands on *)
(* and the frames among them are kept.                                     *)
LEMMA EnteredKept ==
  ASSUME NEW a \in Activities, NEW k \in Depths, Sound(a, k), Entered(a, k),
         Below(a.cont, k)' = Below(a.cont, k),
         \A j \in 1 .. k : Kept(a.cont, j)
  PROVE  Entered(a, k)'
<1>1. a.kind = "isr" => Base(a, k) \in 1 .. k
  BY DEF Base, Sound, Activities, Depths
<1>2. Base(a, k)' = Base(a, k)
  BY DEF Base
<1>3. a.kind = "isr" =>
        /\ mem'[a.cont][Base(a, k)].kind = mem[a.cont][Base(a, k)].kind
        /\ mem'[a.cont][Base(a, k)].usp = mem[a.cont][Base(a, k)].usp
  BY <1>1 DEF Kept
<1>4. Newest(Base(a, k), Below(a.cont, k))' <=> Newest(Base(a, k), Below(a.cont, k))
  BY <1>2 DEF Newest
<1> QED BY <1>2, <1>3, <1>4 DEF Entered

(* What a cell or the processor holds after the step.                      *)
LEMMA CellHolds ==
  ASSUME NEW c, NEW j, NEW a, NEW k, mem'[c][j].act = a, j - 1 = k, Entered(a, k)'
  PROVE  CellEntered(c, j)'
BY DEF CellEntered, Entered, Base

LEMMA ProcessorHolds ==
  ASSUME NEW a, NEW k, a = act', k = sp', Entered(a, k)'
  PROVE  Entered(act, sp)'
BY DEF Entered, Base

(* The same for the activity an exception frame holds.                     *)
LEMMA CellEnteredKept ==
  ASSUME SwitchInv, ActivitiesEntered,
         NEW c \in Containers, NEW j \in 1 .. StackCells, j <= InUse(c),
         Below(c, j - 1)' = Below(c, j - 1),
         \A i \in 1 .. j : Kept(c, i)
  PROVE  CellEntered(c, j)'
<1>1. mem'[c][j].kind = mem[c][j].kind /\ mem'[c][j].act = mem[c][j].act
  <2>1. Kept(c, j)
    OBVIOUS
  <2> QED BY <2>1 DEF Kept
<1>2. CASE mem[c][j].kind # "exc"
  BY <1>1, <1>2 DEF CellEntered
<1>3. CASE mem[c][j].kind = "exc"
  <2>1. mem[c][j] \in Cells
    BY DEF SwitchInv, TypeOK
  <2>2. j - 1 \in Depths /\ \A i \in 1 .. j - 1 : i \in 1 .. j
    BY NumbersAssumption DEF Depths
  <2>3. mem[c][j].act.cont = c /\ Sound(mem[c][j].act, j - 1)
    BY <1>3 DEF SwitchInv, ActivitiesSound, CellSound
  <2>4. Entered(mem[c][j].act, j - 1)
    BY <1>3 DEF ActivitiesEntered, CellEntered
  <2>5. ASSUME NEW a, a = mem[c][j].act PROVE Entered(a, j - 1)'
    <3>1. a \in Activities
      BY <2>1, <2>5 DEF Cells
    <3>2. \A i \in 1 .. j - 1 : Kept(a.cont, i)
      BY <2>2, <2>3, <2>5
    <3> QED BY <2>2, <2>3, <2>4, <2>5, <3>1, <3>2, EnteredKept
  <2>6. PICK a : a = mem[c][j].act
    OBVIOUS
  <2>7. Entered(a, j - 1)' /\ a = mem'[c][j].act
    BY <1>1, <2>5, <2>6
  <2> QED BY <2>7, CellHolds
<1> QED BY <1>2, <1>3

(* And for the running activity, whose frame a step may have saved.        *)
LEMMA RunningKept ==
  ASSUME SwitchInv, ActivitiesEntered, NEW a, a = act, NEW k, k = sp,
         Below(a.cont, k)' = Below(a.cont, k),
         \A j \in 1 .. k : Kept(a.cont, j)
  PROVE  Entered(a, k)'
<1>1. a \in Activities /\ k \in Depths
  BY DEF SwitchInv, TypeOK
<1>2. Sound(a, k) /\ Entered(a, k)
  BY DEF SwitchInv, ActivitiesSound, ActivitiesEntered
<1> QED BY <1>1, <1>2, EnteredKept

(* Steps that switch no container: the stack of the running one keeps the  *)
(* cells in use, a new one is no exception frame or the running activity's.*)
LEMMA StayEnters ==
  ASSUME EnterInv, SwitchInv', UNCHANGED <<stack, ptr, curr_id, context>>,
         \A c \in Containers, j \in 1 .. StackCells :
           (c = curr_id => j <= sp) => Kept(c, j),
         Entered(act, sp)',
         \/ sp' <= sp
         \/ sp' = sp + 1 /\ (mem'[curr_id][sp + 1].kind = "exc" =>
                               mem'[curr_id][sp + 1].act = act)
  PROVE  ContextsEnterable' /\ ActivitiesEntered'
<1> USE ContainersAssumption, NumbersAssumption
<1>0. SwitchInv /\ ContextsEnterable /\ ActivitiesEntered /\ TypeOK
  BY DEF EnterInv, SwitchInv
<1>1. curr_id \in Containers /\ sp \in Nat /\ sp <= StackCells /\ sp' \in Nat
  BY <1>0 DEF SwitchInv, TypeOK, Depths
<1>2. \A c : Frames(c)' = Frames(c) /\ \A k : Below(c, k)' = Below(c, k)
  BY DEF Below, Frames
<1>3. ContextsEnterable'
  <2> SUFFICES ASSUME NEW c \in Containers \ {curr_id}, NEW k, k = context[c].cur_sp
               PROVE  /\ IF Frames(c) = {} THEN k = 2
                         ELSE k \in Frames(c) /\ \A f \in Frames(c) : f <= k
                      /\ mem'[c][k].kind = "callee"
                      /\ ~IsSecure(c) => mem'[c][k].usp = context[c].normal_sp
    BY <1>2 DEF ContextsEnterable
  <2>1. context[c] \in Contexts /\ k >= 2
    BY <1>0 DEF SwitchInv, TypeOK, ContextsHaveFrame
  <2>2. k \in 1 .. StackCells
    BY <2>1 DEF Contexts, Depths
  <2>3. mem'[c][k].kind = mem[c][k].kind /\ mem'[c][k].usp = mem[c][k].usp
    BY <2>2 DEF Kept
  <2> QED BY <1>0, <2>3 DEF ContextsEnterable
<1>4. ASSUME NEW c \in Containers, NEW j \in 1 .. StackCells, j <= InUse(c)'
      PROVE  CellEntered(c, j)'
  <2>1. CASE c = curr_id /\ j = sp + 1
    <3>1. sp' = sp + 1 /\ (mem'[c][j].kind = "exc" => mem'[c][j].act = act)
      BY <1>1, <1>4, <2>1 DEF InUse
    <3>2. \A i \in 1 .. sp : Kept(curr_id, i)
      BY <1>1
    <3>3. PICK a, k : a = act /\ k = sp /\ a.cont = curr_id
      BY <1>0 DEF SwitchInv, ActiveIsRunning
    <3>4. Entered(a, k)'
      <4>1. Below(a.cont, k)' = Below(a.cont, k) /\ \A i \in 1 .. k : Kept(a.cont, i)
        BY <1>2, <3>2, <3>3
      <4> QED BY <1>0, <3>3, <4>1, RunningKept
    <3>5. CASE mem'[c][j].kind = "exc"
      <4>1. mem'[c][j].act = a /\ j - 1 = k
        BY <1>1, <2>1, <3>1, <3>3, <3>5
      <4> QED BY <3>4, <4>1, CellHolds
    <3>6. CASE mem'[c][j].kind # "exc"
      BY <3>6 DEF CellEntered
    <3> QED BY <3>5, <3>6
  <2>2. CASE ~(c = curr_id /\ j = sp + 1)
    <3>1. j <= InUse(c) /\ (c = curr_id => j <= sp)
      BY <1>1, <1>4, <2>2 DEF InUse
    <3>2. \A i \in 1 .. j : Kept(c, i)
      <4> TAKE i \in 1 .. j
      <4>1. i \in 1 .. StackCells /\ (c = curr_id => i <= sp)
        BY <1>1, <3>1
      <4> QED BY <4>1
    <3>3. Below(c, j - 1)' = Below(c, j - 1)
      BY <1>2
    <3> QED BY <1>0, <3>1, <3>2, <3>3, CellEnteredKept
  <2> QED BY <2>1, <2>2
<1> QED BY <1>3, <1>4 DEF ActivitiesEntered

(* container_stack_pop takes the newest frame of the container it returns  *)
(* to and no other.                                                        *)
LEMMA PopFrames ==
  ASSUME SwitchInv, ptr # 0, ptr' = ptr - 1, stack' = stack, NEW src, NEW k,
         src = stack[ptr - 1].src_id, k = stack[ptr - 1].src_sp
  PROVE  /\ \A c : c # src => Frames(c)' = Frames(c)
         /\ Frames(src) = Frames(src)' \cup {k}
         /\ \A f \in Frames(src)' : f + 2 <= k
<1>1. /\ ptr \in Nat /\ ptr >= 1 /\ ptr' - 1 = ptr - 2
      /\ \A n : n \in 0 .. ptr - 1 <=> n \in 0 .. ptr - 2 \/ n = ptr - 1
  BY DEF SwitchInv, TypeOK
<1>2. \A c, f : f \in Frames(c) <=>
        \E n \in 0 .. ptr - 1 : stack[n].src_id = c /\ stack[n].src_sp = f
  BY DEF Frames
<1>3. \A c, f : f \in Frames(c)' <=>
        \E n \in 0 .. ptr - 2 : stack[n].src_id = c /\ stack[n].src_sp = f
  BY <1>1 DEF Frames
<1>4. \A c, f : f \in Frames(c) <=> f \in Frames(c)' \/ (c = src /\ f = k)
  BY <1>1, <1>2, <1>3
<1>5. \A f \in Frames(src)' : f + 2 <= k
  <2> TAKE f \in Frames(src)'
  <2>1. PICK n \in 0 .. ptr - 2 : stack[n].src_id = src /\ stack[n].src_sp = f
    BY <1>3
  <2>2. n \in 0 .. ptr - 1 /\ ptr - 1 \in 0 .. ptr - 1 /\ n < ptr - 1
    BY <1>1
  <2> QED BY <2>1, <2>2 DEF SwitchInv, FramesDisjoint
<1>6. ASSUME NEW c, c # src PROVE Frames(c)' = Frames(c)
  <2>1. \A f : f \in Frames(c)' <=> f \in Frames(c)
    BY <1>4, <1>6
  <2> QED BY <2>1 DEF Frames
<1>7. Frames(src) = Frames(src)' \cup {k}
  BY <1>4
<1> QED BY <1>5, <1>6, <1>7

(* container_stack_push adds one frame, above all others of its container. *)
LEMMA PushFrames ==
  ASSUME SwitchInv, Room, ~StackFull, NEW status, NEW d,
         Push(curr_id, sp + 2, status, d), NEW c0, c0 = curr_id
  PROVE  /\ \A c : c # c0 => Frames(c)' = Frames(c)
         /\ Frames(c0)' = Frames(c0) \cup {sp + 2}
         /\ \A f \in Frames(c0) : f \in Nat /\ f <= sp
<1>1. ptr \in 0 .. MaxDepth - 1 /\ ptr' = ptr + 1 /\ ptr' - 1 = ptr
      /\ c0 \in Containers
  BY NumbersAssumption DEF SwitchInv, TypeOK, StackFull, Push
<1>2. /\ stack'[ptr].src_id = c0 /\ stack'[ptr].src_sp = sp + 2
      /\ \A n \in 0 .. ptr - 1 : stack'[n] = stack[n]
  <2>1. stack \in [0 .. MaxDepth - 1 -> Items] /\ ptr \notin 0 .. ptr - 1
        /\ 0 .. ptr - 1 \subseteq 0 .. MaxDepth - 1
    BY <1>1, NumbersAssumption DEF SwitchInv, TypeOK
  <2> QED BY <1>1, <2>1 DEF Push
<1>3. \A n : n \in 0 .. ptr <=> n \in 0 .. ptr - 1 \/ n = ptr
  BY <1>1
<1>4. \A c, f : f \in Frames(c) <=>
        \E n \in 0 .. ptr - 1 : stack[n].src_id = c /\ stack[n].src_sp = f
  BY DEF Frames
<1>5. \A c, f : f \in Frames(c)' <=>
        \E n \in 0 .. ptr : stack'[n].src_id = c /\ stack'[n].src_sp = f
  BY <1>1 DEF Frames
<1>6. \A c, f : f \in Frames(c)' <=> f \in Frames(c) \/ (c = c0 /\ f = sp + 2)
  BY <1>2, <1>3, <1>4, <1>5
<1>7. ASSUME NEW c, c # c0 PROVE Frames(c)' = Frames(c)
  BY <1>6, <1>7
<1>8. Frames(c0)' = Frames(c0) \cup {sp + 2}
  BY <1>6
<1>9. \A f \in Frames(c0) : f \in Nat /\ f <= sp
  BY <1>1, FramesInUse DEF InUse
<1> QED BY <1>7, <1>8, <1>9

(* A return: the container it leaves has its frame to be entered on at x,  *)
(* the activity it resumes finds its cells as it left them.                *)
LEMMA PopEnters ==
  ASSUME EnterInv, SwitchInv', NEW x, NEW status, NEW src, NEW k,
         Popping(x, status, src, k), NEW c0, c0 = curr_id,
         \A c \in Containers, j \in 1 .. StackCells :
           ~(c = c0 /\ (j = sp + 1 \/ j = sp + 2)) => mem'[c][j].usp = mem[c][j].usp,
         src # c0 => /\ Newest(x, Frames(c0)) /\ mem'[c0][x].kind = "callee"
                     /\ ~IsSecure(c0) => mem'[c0][x].usp = usp
  PROVE  ContextsEnterable' /\ ActivitiesEntered'
<1> USE ContainersAssumption, NumbersAssumption
<1>0. SwitchInv /\ ContextsEnterable /\ ActivitiesEntered /\ TypeOK
  BY DEF EnterInv, SwitchInv
<1>1. /\ ptr \in 1 .. MaxDepth /\ c0 \in Containers /\ sp \in Nat /\ sp + 2 <= StackCells
      /\ sp + 1 \in 1 .. StackCells /\ x \in Nat /\ x >= 2 /\ x <= StackCells
      /\ x \in {sp, sp + 2} /\ ptr # 0 /\ ptr - 1 \in 0 .. ptr - 1
  BY <1>0 DEF TypeOK, Depths, Room, Popping
<1>2. /\ src = stack[ptr - 1].src_id /\ k = stack[ptr - 1].src_sp
      /\ src \in Containers /\ k \in Frames(src)
  <2>1. src = stack[ptr - 1].src_id /\ k = stack[ptr - 1].src_sp
    BY DEF Popping
  <2>2. stack[ptr - 1] \in Items
    <3>1. ptr - 1 \in 0 .. MaxDepth - 1
      BY <1>1
    <3>2. stack \in [0 .. MaxDepth - 1 -> Items]
      BY <1>0 DEF TypeOK
    <3> QED BY <3>1, <3>2
  <2>3. src \in Containers
    BY <2>1, <2>2 DEF Items
  <2>4. k \in Frames(src)
    BY <1>1, <2>1 DEF Frames
  <2> QED BY <2>1, <2>3, <2>4
<1>3. /\ k \in Nat /\ k >= 2 /\ k <= StackCells /\ k <= InUse(src)
      /\ k - 1 \in 1 .. StackCells /\ k - 2 \in Nat /\ (k - 1) - 1 = k - 2
      /\ src = c0 => k <= sp
  <2>1. k \in Nat /\ k >= 2 /\ k <= StackCells /\ k <= InUse(src)
    BY <1>0, <1>2, FramesInUse
  <2> QED BY <1>1, <2>1 DEF InUse
<1>4. /\ stack' = stack /\ ptr' = ptr - 1 /\ curr_id' = src
      /\ context'[c0].cur_sp = x /\ context'[c0].normal_sp = usp
      /\ \A c \in Containers \ {c0} : context'[c] = context[c]
  <2>1. context \in [Containers -> Contexts]
    BY <1>0 DEF TypeOK
  <2> QED BY <1>1, <1>2, <2>1 DEF Popping, Pop
<1>5. /\ \A c : c # src => Frames(c)' = Frames(c)
      /\ Frames(src) = Frames(src)' \cup {k}
      /\ \A f \in Frames(src)' : f + 2 <= k
  BY <1>0, <1>1, <1>2, <1>4, PopFrames
<1>6. ASSUME NEW c \in Containers, NEW m \in Nat, c = src => m < k
      PROVE  Below(c, m)' = Below(c, m)
  <2>1. \A f \in Frames(c) : f <= m => f # k \/ c # src
    BY <1>3, <1>6
  <2>2. CASE c = src
    <3>1. \A f : f \in Frames(c)' /\ f <= m <=> f \in Frames(c) /\ f <= m
      BY <1>5, <2>1, <2>2
    <3> QED BY <3>1 DEF Below
  <2>3. CASE c # src
    BY <1>5, <2>3 DEF Below
  <2> QED BY <2>2, <2>3
<1>7. ASSUME NEW c \in Containers, NEW j \in 1 .. StackCells, c = c0 => j <= sp
      PROVE  Kept(c, j)
  <2>1. ~(c = c0 /\ (j = sp + 1 \/ j = sp + 2))
    BY <1>1, <1>7
  <2> QED BY <2>1 DEF Kept, Popping, SavedAbove
<1>8. ContextsEnterable'
  <2>1. ASSUME NEW c \in Containers, c # src, NEW m, m = context'[c].cur_sp
        PROVE  /\ Newest(m, Frames(c)')
               /\ mem'[c][m].kind = "callee"
               /\ ~IsSecure(c) => mem'[c][m].usp = context'[c].normal_sp
    <3>1. CASE c = c0
      BY <1>4, <1>5, <2>1, <3>1
    <3>2. CASE c # c0
      <4>1. m = context[c].cur_sp /\ context'[c].normal_sp = context[c].normal_sp
        BY <1>4, <2>1, <3>2
      <4>2. context[c] \in Contexts /\ m >= 2
        BY <1>0, <3>2, <4>1 DEF SwitchInv, TypeOK, ContextsHaveFrame
      <4>3. m \in 1 .. StackCells
        BY <4>1, <4>2 DEF Contexts, Depths
      <4>4. mem'[c][m].kind = mem[c][m].kind /\ mem'[c][m].usp = mem[c][m].usp
        BY <1>7, <3>2, <4>3 DEF Kept
      <4>5. /\ Newest(m, Frames(c)) /\ mem[c][m].kind = "callee"
            /\ ~IsSecure(c) => mem[c][m].usp = context[c].normal_sp
        BY <1>0, <3>2, <4>1 DEF ContextsEnterable, Newest
      <4> QED BY <1>5, <2>1, <4>1, <4>4, <4>5
    <3> QED BY <3>1, <3>2
  <2> QED BY <1>4, <2>1 DEF ContextsEnterable, Newest
<1>9. ASSUME NEW c \in Containers, NEW j \in 1 .. StackCells, j <= InUse(c),
             c = c0 => j <= sp, c = src => j < k
      PROVE  CellEntered(c, j)'
  <2>1. \A i \in 1 .. j : Kept(c, i)
    <3> TAKE i \in 1 .. j
    <3>1. i \in 1 .. StackCells /\ (c = c0 => i <= sp)
      BY <1>1, <1>9
    <3> QED BY <1>7, <3>1
  <2>2. j - 1 \in Nat /\ (c = src => j - 1 < k)
    BY <1>3, <1>9
  <2>3. Below(c, j - 1)' = Below(c, j - 1)
    BY <1>6, <2>2
  <2> QED BY <1>0, <1>9, <2>1, <2>3, CellEnteredKept
<1>10. Entered(act, sp)'
  <2>1. k - 1 <= InUse(src) /\ (src = c0 => k - 1 <= sp) /\ k - 1 < k
    <3>1. InUse(src) \in Nat
      <4>1. context[src] \in Contexts
        BY <1>0, <1>2 DEF TypeOK
      <4> QED BY <1>1, <4>1 DEF InUse, Contexts, Depths
    <3> QED BY <1>1, <1>3, <3>1
  <2>2. CellEntered(src, k - 1)'
    BY <1>2, <1>3, <1>9, <2>1
  <2>3. mem[src][k - 1].kind = "exc"
    BY <1>0, <1>1, <1>2 DEF SwitchInv, FramesIntact
  <2>4. mem'[src][k - 1].kind = "exc"
    BY <1>2, <1>3, <1>7, <2>1, <2>3 DEF Kept
  <2>5. act' = mem'[src][k - 1].act /\ sp' = k - 2
    BY DEF Popping, Resume
  <2> QED BY <1>3, <2>2, <2>4, <2>5 DEF CellEntered, Entered, Base
<1>11. ASSUME NEW c \in Containers, NEW j \in 1 .. StackCells, j <= InUse(c)'
       PROVE  CellEntered(c, j)'
  <2>0. InUse(c)' = IF c = src THEN k - 2 ELSE IF c = c0 THEN x ELSE context[c].cur_sp
    <3>1. sp' = k - 2
      BY DEF Popping, Resume
    <3> QED BY <1>4, <3>1 DEF InUse
  <2>1. CASE c = src
    <3>1. j <= k - 2 /\ j < k /\ (c = c0 => j <= sp)
      BY <1>1, <1>3, <1>11, <2>0, <2>1
    <3>2. context[c] \in Contexts
      BY <1>0 DEF TypeOK
    <3>3. InUse(c) \in Nat
      BY <1>1, <3>2 DEF InUse, Contexts, Depths
    <3>4. j <= InUse(c)
      BY <1>3, <2>1, <3>1, <3>3
    <3> QED BY <1>9, <3>1, <3>4
  <2>2. CASE c # src /\ c # c0
    <3>1. j <= InUse(c)
      BY <1>11, <2>0, <2>2 DEF InUse
    <3> QED BY <1>9, <2>2, <3>1
  <2>3. CASE c # src /\ c = c0
    <3>1. j <= sp \/ j = sp + 1 \/ j = sp + 2
      BY <1>1, <1>11, <2>0, <2>3
    <3>2. CASE j <= sp
      <4>1. j <= InUse(c)
        BY <2>3, <3>2 DEF InUse
      <4> QED BY <1>9, <2>3, <3>2, <4>1
    <3>3. CASE j = sp + 1
      <4>1. mem'[c][j].act = act
        BY <2>3, <3>3 DEF Popping, SavedAbove
      <4>2. PICK a, m : a = act /\ m = sp /\ a.cont = c
        BY <1>0, <2>3 DEF SwitchInv, ActiveIsRunning
      <4>3. \A i \in 1 .. m : Kept(a.cont, i)
        <5> TAKE i \in 1 .. m
        <5>1. i \in 1 .. StackCells /\ i <= sp
          BY <1>1, <4>2
        <5> QED BY <1>1, <1>7, <2>3, <4>2, <5>1
      <4>4. Below(a.cont, m)' = Below(a.cont, m)
        BY <1>1, <1>6, <2>3, <4>2
      <4>5. Entered(a, m)'
        BY <1>0, <4>2, <4>3, <4>4, RunningKept
      <4>6. j - 1 = m
        BY <1>1, <3>3, <4>2
      <4>7. mem'[c][j].act = a
        BY <4>1, <4>2
      <4> QED BY <4>5, <4>6, <4>7, CellHolds
    <3>4. CASE j = sp + 2
      <4>1. mem'[c][j].kind = "callee"
        BY <1>1, <2>3, <3>4 DEF Popping, SavedAbove
      <4> QED BY <4>1 DEF CellEntered
    <3> QED BY <3>1, <3>2, <3>3, <3>4
  <2> QED BY <2>1, <2>2, <2>3
<1> QED BY <1>8, <1>10, <1>11 DEF ActivitiesEntered

(* A call or an interrupt: the container it leaves has just got its newest *)
(* frame, what the entered one runs finds what it will return on.          *)
LEMMA PushEnters ==
  ASSUME EnterInv, SwitchInv', NEW d \in Containers, NEW status, NEW hole,
         Pushing(d, status, hole), NEW c0, c0 = curr_id,
         \A c \in Containers, j \in 1 .. StackCells :
           /\ ~(c = c0 /\ (j = sp + 1 \/ j = sp + 2))
           /\ ~(c = d /\ d # c0 /\ j \in hole)
           => mem'[c][j].usp = mem[c][j].usp,
         mem'[c0][sp + 2].usp = usp,
         Entered(act, sp)'
  PROVE  ContextsEnterable' /\ ActivitiesEntered'
<1> USE ContainersAssumption, NumbersAssumption
<1>0. SwitchInv /\ ContextsEnterable /\ ActivitiesEntered /\ TypeOK
  BY DEF EnterInv, SwitchInv
<1>1. /\ c0 \in Containers /\ sp \in Nat /\ sp + 2 <= StackCells
      /\ sp + 1 \in 1 .. StackCells /\ sp + 2 \in 1 .. StackCells /\ sp' \in Nat
      /\ \A c \in Containers : InUse(c) \in Nat
  <2>1. c0 \in Containers /\ sp \in Nat /\ sp + 2 <= StackCells /\ sp' \in Nat
    BY <1>0 DEF TypeOK, Depths, Room, Pushing
  <2>2. ASSUME NEW c \in Containers PROVE InUse(c) \in Nat
    <3>1. context[c] \in Contexts
      BY <1>0 DEF TypeOK
    <3> QED BY <2>1, <3>1 DEF InUse, Contexts, Depths
  <2> QED BY <2>1, <2>2
<1>2. /\ curr_id' = d
      /\ context'[c0].cur_sp = sp + 2 /\ context'[c0].normal_sp = usp
      /\ \A c \in Containers \ {c0} : context'[c] = context[c]
  <2>1. context \in [Containers -> Contexts]
    BY <1>0 DEF TypeOK
  <2> QED BY <1>1, <2>1 DEF Pushing, Push
<1>3. IF d = c0 THEN sp' = sp + 2 ELSE sp' <= InUse(d)
  BY DEF Pushing, InUse
<1>4. /\ \A c : c # c0 => Frames(c)' = Frames(c)
      /\ Frames(c0)' = Frames(c0) \cup {sp + 2}
      /\ \A f \in Frames(c0) : f \in Nat /\ f <= sp
  <2>1. Room /\ ~StackFull /\ Push(curr_id, sp + 2, status, d)
    BY DEF Pushing
  <2> QED BY <1>0, <2>1, PushFrames
<1>5. ASSUME NEW c \in Containers, NEW m \in Nat, c = c0 => m <= sp
      PROVE  Below(c, m)' = Below(c, m)
  <2>1. CASE c = c0
    <3>1. \A f : f \in Frames(c)' /\ f <= m <=> f \in Frames(c) /\ f <= m
      BY <1>1, <1>4, <1>5, <2>1
    <3> QED BY <3>1 DEF Below
  <2>2. CASE c # c0
    BY <1>4, <2>2 DEF Below
  <2> QED BY <2>1, <2>2
<1>6. ASSUME NEW c \in Containers, NEW j \in 1 .. StackCells,
             c = c0 => j <= sp, c = d /\ d # c0 => j <= sp'
      PROVE  Kept(c, j)
  <2>1. ~(c = c0 /\ (j = sp + 1 \/ j = sp + 2))
    BY <1>1, <1>6
  <2>2. ~(c = d /\ d # c0 /\ j \in hole)
    BY <1>1, <1>6 DEF Pushing
  <2>3. mem'[c][j].usp = mem[c][j].usp
    BY <2>1, <2>2
  <2>4. mem'[c][j].kind = mem[c][j].kind /\ mem'[c][j].act = mem[c][j].act
    BY <2>1, <2>2 DEF Pushing
  <2> QED BY <2>3, <2>4 DEF Kept
<1>7. ContextsEnterable'
  <2>1. ASSUME NEW c \in Containers, c # d, NEW m, m = context'[c].cur_sp
        PROVE  /\ Newest(m, Frames(c)')
               /\ mem'[c][m].kind = "callee"
               /\ ~IsSecure(c) => mem'[c][m].usp = context'[c].normal_sp
    <3>1. CASE c = c0
      <4>1. m = sp + 2 /\ context'[c].normal_sp = usp
        BY <1>2, <2>1, <3>1
      <4>2. mem'[c][m].kind = "callee"
        <5>1. m \in 1 .. StackCells /\ m # sp + 1 /\ m = sp + 2
          BY <1>1, <4>1
        <5> QED BY <3>1, <5>1 DEF Pushing
      <4>3. m \in Frames(c)' /\ \A f \in Frames(c)' : f <= m
        BY <1>1, <1>4, <3>1, <4>1
      <4>4. mem'[c][m].usp = usp
        BY <3>1, <4>1
      <4>5. Newest(m, Frames(c)')
        BY <4>3 DEF Newest
      <4> QED BY <4>1, <4>2, <4>4, <4>5
    <3>2. CASE c # c0
      <4>1. m = context[c].cur_sp /\ context'[c].normal_sp = context[c].normal_sp
        BY <1>2, <2>1, <3>2
      <4>2. context[c] \in Contexts /\ m >= 2
        BY <1>0, <3>2, <4>1 DEF SwitchInv, TypeOK, ContextsHaveFrame
      <4>3. m \in 1 .. StackCells
        BY <4>1, <4>2 DEF Contexts, Depths
      <4>4. mem'[c][m].kind = mem[c][m].kind /\ mem'[c][m].usp = mem[c][m].usp
        BY <1>6, <2>1, <3>2, <4>3 DEF Kept
      <4>5. /\ Newest(m, Frames(c)) /\ mem[c][m].kind = "callee"
            /\ ~IsSecure(c) => mem[c][m].usp = context[c].normal_sp
        BY <1>0, <3>2, <4>1 DEF ContextsEnterable, Newest
      <4> QED BY <1>4, <3>2, <4>1, <4>4, <4>5
    <3> QED BY <3>1, <3>2
  <2> QED BY <1>2, <2>1 DEF ContextsEnterable, Newest
<1>8. ASSUME NEW c \in Containers, NEW j \in 1 .. StackCells, j <= InUse(c),
             c = c0 => j <= sp, c = d /\ d # c0 => j <= sp'
      PROVE  CellEntered(c, j)'
  <2>1. \A i \in 1 .. j : Kept(c, i)
    <3> TAKE i \in 1 .. j
    <3>1. i \in 1 .. StackCells /\ (c = c0 => i <= sp) /\ (c = d /\ d # c0 => i <= sp')
      BY <1>1, <1>8
    <3> QED BY <1>6, <3>1
  <2>2. j - 1 \in Nat /\ (c = c0 => j - 1 <= sp)
    BY <1>1, <1>8
  <2>3. Below(c, j - 1)' = Below(c, j - 1)
    BY <1>5, <2>2
  <2> QED BY <1>0, <1>8, <2>1, <2>3, CellEnteredKept
<1>9. ASSUME NEW c \in Containers, NEW j \in 1 .. StackCells, j <= InUse(c)'
      PROVE  CellEntered(c, j)'
  <2>0. InUse(c)' = IF c = d THEN sp' ELSE IF c = c0 THEN sp + 2 ELSE context[c].cur_sp
    BY <1>2 DEF InUse
  <2>1. CASE c # c0
    <3>1. InUse(c) = context[c].cur_sp
      BY <2>1 DEF InUse
    <3>2. j <= InUse(c) /\ (c = d => j <= sp')
      <4>1. CASE c = d
        BY <1>1, <1>3, <1>9, <2>0, <2>1, <4>1
      <4>2. CASE c # d
        BY <1>9, <2>0, <2>1, <3>1, <4>2
      <4> QED BY <4>1, <4>2
    <3> QED BY <1>8, <2>1, <3>2
  <2>2. CASE c = c0
    <3>1. j <= sp \/ j = sp + 1 \/ j = sp + 2
      BY <1>1, <1>3, <1>9, <2>0, <2>2
    <3>2. CASE j <= sp
      <4>1. j <= InUse(c)
        BY <2>2, <3>2 DEF InUse
      <4> QED BY <1>8, <2>2, <3>2, <4>1
    <3>3. CASE j = sp + 1
      <4>1. mem'[c][j].act = act
        BY <2>2, <3>3 DEF Pushing
      <4>2. PICK a, m : a = act /\ m = sp /\ a.cont = c
        BY <1>0, <2>2 DEF SwitchInv, ActiveIsRunning
      <4>3. \A i \in 1 .. m : Kept(a.cont, i)
        <5> TAKE i \in 1 .. m
        <5>1. i \in 1 .. StackCells /\ i <= sp
          BY <1>1, <4>2
        <5> QED BY <1>1, <1>6, <2>2, <4>2, <5>1
      <4>4. Below(a.cont, m)' = Below(a.cont, m)
        BY <1>1, <1>5, <2>2, <4>2
      <4>5. Entered(a, m)'
        BY <1>0, <4>2, <4>3, <4>4, RunningKept
      <4>6. j - 1 = m
        BY <1>1, <3>3, <4>2
      <4>7. mem'[c][j].act = a
        BY <4>1, <4>2
      <4> QED BY <4>5, <4>6, <4>7, CellHolds
    <3>4. CASE j = sp + 2
      <4>1. mem'[c][j].kind = "callee"
        BY <1>1, <2>2, <3>4 DEF Pushing
      <4> QED BY <4>1 DEF CellEntered
    <3> QED BY <3>1, <3>2, <3>3, <3>4
  <2> QED BY <2>1, <2>2
<1> QED BY <1>7, <1>9 DEF ActivitiesEntered

(* Locals of a secure container move its stack pointer, not what its       *)
(* running activity was entered on.                                        *)
LEMMA EnteredMoved ==
  ASSUME NEW a \in Activities, NEW k, NEW k2, IsSecure(a.cont), Entered(a, k),
         Below(a.cont, k2)' = Below(a.cont, k),
         mem'[a.cont][a.fp] = mem[a.cont][a.fp] \/ a.kind # "isr"
  PROVE  Entered(a, k2)'
<1>1. Base(a, k) = a.fp /\ Base(a, k2)' = a.fp
  BY DEF Base
<1>2. Newest(a.fp, Below(a.cont, k2))' <=> Newest(a.fp, Below(a.cont, k))
  BY DEF Newest
<1> QED BY <1>1, <1>2 DEF Entered

(* Steps that come back to the running activity, with or without the frame *)
(* of the trap or the interrupt they handled.                              *)
LEMMA ComeBackEnters ==
  ASSUME EnterInv, SwitchInv', UNCHANGED <<act, sp, stack, ptr, curr_id, context>>,
         mem' = mem \/ (Room /\ mem' = SaveExc)
  PROVE  ContextsEnterable' /\ ActivitiesEntered'
<1>0. SwitchInv /\ ActivitiesEntered /\ TypeOK
  BY DEF EnterInv, SwitchInv
<1>1. sp \in Nat /\ sp <= StackCells /\ curr_id \in Containers
  BY <1>0, NumbersAssumption DEF TypeOK, Depths
<1>2. ASSUME NEW c \in Containers, NEW j \in 1 .. StackCells, c = curr_id => j <= sp
      PROVE  Kept(c, j)
  <2>1. CASE mem' = mem
    BY <2>1 DEF Kept
  <2>2. CASE Room /\ mem' = SaveExc
    <3>1. ~(c = curr_id /\ j = sp + 1)
      BY <1>1, <1>2
    <3>2. mem'[c][j] = mem[c][j]
      BY <1>0, <2>2, <3>1, SaveExcCells
    <3> QED BY <3>2 DEF Kept
  <2> QED BY <2>1, <2>2
<1>3. PICK a, k : a = act /\ k = sp /\ a.cont = curr_id
  BY <1>0 DEF SwitchInv, ActiveIsRunning
<1>4. Entered(a, k)'
  <2>1. Below(a.cont, k)' = Below(a.cont, k)
    BY DEF Below, Frames
  <2>2. \A j \in 1 .. k : Kept(a.cont, j)
    <3> TAKE j \in 1 .. k
    <3>1. j \in 1 .. StackCells /\ j <= sp
      BY <1>1, <1>3, NumbersAssumption
    <3> QED BY <1>1, <1>2, <1>3, <3>1
  <2> QED BY <1>0, <1>3, <2>1, <2>2, RunningKept
<1>5. Entered(act, sp)'
  BY <1>3, <1>4, ProcessorHolds
<1>6. sp' <= sp
  BY <1>1
<1> QED BY <1>2, <1>5, <1>6, StayEnters

(* The running activity pushes or pops locals.                             *)
LEMMA LocalEnters ==
  ASSUME EnterInv, SwitchInv', PushLocal \/ PopLocal
  PROVE  ContextsEnterable' /\ ActivitiesEntered'
<1> USE NumbersAssumption
<1>0. SwitchInv /\ ActivitiesEntered /\ TypeOK
  BY DEF EnterInv, SwitchInv
<1>1. UNCHANGED <<act, stack, ptr, curr_id, context>>
  BY DEF PushLocal, PopLocal, chain
<1>2. CASE ~IsSecure(act.cont)
  <2>1. UNCHANGED <<sp, mem>>
    BY <1>2 DEF PushLocal, PopLocal
  <2> QED BY <1>1, <2>1, ComeBackEnters
<1>3. CASE IsSecure(act.cont)
  <2>1. PICK a, k, k2 : a = act /\ k = sp /\ k2 = sp'
    OBVIOUS
  <2>2. /\ a \in Activities /\ a.cont = curr_id /\ curr_id \in Containers
        /\ k \in Nat /\ k <= StackCells /\ a.fp \in Nat
        /\ Sound(a, k) /\ Entered(a, k) /\ a.fp <= k
        /\ \A f \in Frames(a.cont) : f \in Nat /\ f <= a.fp
    <3>1. a \in Activities /\ a.cont = curr_id /\ curr_id \in Containers /\ k \in Depths
      BY <1>0, <2>1 DEF SwitchInv, TypeOK, ActiveIsRunning
    <3>2. Sound(a, k) /\ Entered(a, k)
      BY <1>0, <2>1 DEF SwitchInv, ActivitiesSound, ActivitiesEntered
    <3>3. a.fp \in Nat /\ k \in Nat /\ k <= StackCells /\ a.fp <= k
      BY <1>3, <2>1, <3>1, <3>2 DEF Activities, Depths, Sound
    <3>4. \A f \in Frames(a.cont) : f \in Nat /\ f <= a.fp
      <4> TAKE f \in Frames(a.cont)
      <4>1. f \in Nat /\ f <= k
        BY <1>0, <2>1, <3>1, FramesInUse DEF InUse
      <4>2. PICK n \in 0 .. ptr - 1 : stack[n].src_id = a.cont /\ stack[n].src_sp = f
        BY DEF Frames
      <4> QED BY <1>3, <2>1, <3>2, <4>1, <4>2 DEF Sound
    <3> QED BY <3>1, <3>2, <3>3, <3>4
  <2>3. /\ k2 \in Nat /\ k2 >= a.fp
        /\ \/ k2 = k + 1 /\ k + 2 <= StackCells
              /\ mem' = [mem EXCEPT ![a.cont][k + 1] = LocalCell]
           \/ k2 = k - 1 /\ mem' = mem
    <3>1. CASE PushLocal
      BY <1>3, <2>1, <2>2, <3>1 DEF PushLocal, Room
    <3>2. CASE PopLocal
      BY <1>3, <2>1, <2>2, <3>2 DEF PopLocal, LocalsSp, Frame
    <3> QED BY <3>1, <3>2
  <2>4. ASSUME NEW c \in Containers, NEW j \in 1 .. StackCells
        PROVE  /\ ~(c = a.cont /\ j = k + 1) => mem'[c][j] = mem[c][j]
               /\ c = a.cont /\ j = k + 1 /\ k2 = k + 1 => mem'[c][j] = LocalCell
    <3>1. mem \in [Containers -> [1 .. StackCells -> Cells]]
      BY <1>0 DEF TypeOK
    <3>2. k2 = k + 1 => k2 # k - 1
      BY <2>2
    <3> QED BY <2>2, <2>3, <3>1, <3>2
  <2>5. Entered(a, k2)'
    <3>1. Below(a.cont, k2)' = Below(a.cont, k)
      <4>1. Frames(a.cont)' = Frames(a.cont)
        BY <1>1 DEF Frames
      <4>2. \A f \in Frames(a.cont) : f <= k /\ f <= k2
        BY <2>2, <2>3
      <4> QED BY <4>1, <4>2 DEF Below
    <3>2. mem'[a.cont][a.fp] = mem[a.cont][a.fp] \/ a.kind # "isr"
      <4>1. a.kind = "isr" => a.fp \in 1 .. StackCells /\ a.fp # k + 1
        BY <1>3, <2>1, <2>2 DEF Sound
      <4> QED BY <2>2, <2>4, <4>1
    <3> QED BY <1>3, <2>1, <2>2, <3>1, <3>2, EnteredMoved
  <2>6. Entered(act, sp)'
    BY <1>1, <2>1, <2>5, ProcessorHolds
  <2>7. \A c \in Containers, j \in 1 .. StackCells : (c = curr_id => j <= sp) => Kept(c, j)
    <3> TAKE c \in Containers, j \in 1 .. StackCells
    <3> HAVE c = curr_id => j <= sp
    <3>1. ~(c = a.cont /\ j = k + 1)
      BY <2>1, <2>2
    <3> QED BY <2>4, <3>1 DEF Kept
  <2>8. \/ sp' <= sp
        \/ sp' = sp + 1 /\ (mem'[curr_id][sp + 1].kind = "exc" =>
                              mem'[curr_id][sp + 1].act = act)
    <3>1. CASE k2 = k + 1
      <4>1. k + 1 \in 1 .. StackCells
        BY <2>2, <2>3, <3>1
      <4>2. mem'[a.cont][k + 1] = LocalCell
        BY <2>2, <2>4, <3>1, <4>1
      <4>3. mem'[curr_id][sp + 1].kind # "exc"
        BY <2>1, <2>2, <4>2 DEF LocalCell
      <4> QED BY <2>1, <3>1, <4>3
    <3>2. CASE k2 = k - 1
      BY <2>1, <2>2, <3>2
    <3> QED BY <2>3, <3>1, <3>2
  <2> QED BY <1>1, <2>6, <2>7, <2>8, StayEnters
<1> QED BY <1>2, <1>3

(* A handler called from the entry relies on the exception frame only.     *)
LEMMA InterruptDirectEnters ==
  ASSUME EnterInv, SwitchInv', NEW i \in Irqs, InterruptDirect(i)
  PROVE  ContextsEnterable' /\ ActivitiesEntered'
<1>0. SwitchInv /\ TypeOK
  BY DEF EnterInv, SwitchInv
<1>1. /\ Room /\ mem' = SaveExc /\ sp' = sp + 1 /\ act'.kind = "direct"
      /\ UNCHANGED <<stack, ptr, curr_id, context>>
  BY DEF InterruptDirect, Accepted, chain
<1>2. /\ sp \in Nat /\ mem'[curr_id][sp + 1].act = act
      /\ \A c \in Containers, j \in 1 .. StackCells :
           ~(c = curr_id /\ j = sp + 1) => mem'[c][j] = mem[c][j]
  BY <1>0, <1>1, SaveExcCells DEF ExcCell
<1>3. Entered(act, sp)'
  BY <1>1 DEF Entered
<1>4. \A c \in Containers, j \in 1 .. StackCells : (c = curr_id => j <= sp) => Kept(c, j)
  <2> TAKE c \in Containers, j \in 1 .. StackCells
  <2> HAVE c = curr_id => j <= sp
  <2>1. ~(c = curr_id /\ j = sp + 1)
    BY <1>2
  <2> QED BY <1>2, <2>1 DEF Kept
<1> QED BY <1>1, <1>2, <1>3, <1>4, StayEnters

LEMMA DirectReturnEnters ==
  ASSUME EnterInv, SwitchInv', DirectReturn
  PROVE  ContextsEnterable' /\ ActivitiesEntered'
<1>0. SwitchInv /\ ActivitiesEntered /\ TypeOK
  BY DEF EnterInv, SwitchInv
<1>1. /\ act.kind = "direct" /\ sp = act.fp /\ sp' = sp - 1 /\ act' = mem[curr_id][sp].act
      /\ UNCHANGED <<mem, stack, ptr, curr_id, context>>
  BY DEF DirectReturn, chain
<1>2. /\ curr_id \in Containers /\ sp \in 1 .. StackCells /\ sp <= InUse(curr_id)
      /\ mem[curr_id][sp].kind = "exc"
  <2>1. curr_id \in Containers /\ sp \in Depths /\ act.cont = curr_id
    BY <1>0 DEF SwitchInv, ActiveIsRunning, TypeOK
  <2>2. Sound(act, sp)
    BY <1>0 DEF SwitchInv, ActivitiesSound
  <2>3. sp >= 1 /\ mem[curr_id][sp].kind = "exc"
    BY <1>1, <2>1, <2>2 DEF Sound
  <2> QED BY <2>1, <2>3, NumbersAssumption DEF Depths, InUse
<1>3. Entered(mem[curr_id][sp].act, sp - 1)
  BY <1>0, <1>2 DEF ActivitiesEntered, CellEntered
<1>4. Entered(act, sp)'
  <2>1. \A c, k : Below(c, k)' = Below(c, k)
    BY <1>1 DEF Below, Frames
  <2> QED BY <1>1, <1>3, <2>1 DEF Entered, Base, Newest
<1>5. \A c \in Containers, j \in 1 .. StackCells : Kept(c, j)
  BY <1>1 DEF Kept
<1>6. sp' <= sp
  BY <1>1, <1>2
<1> QED BY <1>1, <1>4, <1>5, <1>6, StayEnters

(* A handler leaves on the frame it was entered on.                        *)
LEMMA IntReturnEnters ==
  ASSUME EnterInv, SwitchInv', IntReturn
  PROVE  ContextsEnterable' /\ ActivitiesEntered'
<1>0. SwitchInv /\ ActivitiesEntered /\ TypeOK
  BY DEF EnterInv, SwitchInv
<1>1. PICK c0, src, k : c0 = curr_id /\ src = stack[ptr - 1].src_id /\ k = stack[ptr - 1].src_sp
  OBVIOUS
<1>2. Popping(sp, ie, src, k) /\ mem' = SaveCallee /\ act.kind = "isr" /\ LocalsSp = act.fp
      /\ Room /\ act.cont = c0 /\ c0 \in Containers
  BY <1>0, <1>1, IntReturnPops DEF IntReturn, SwitchInv, ActiveIsRunning, TypeOK
<1>3. /\ sp \in Nat
      /\ \A c \in Containers, j \in 1 .. StackCells :
           ~(c = c0 /\ (j = sp + 1 \/ j = sp + 2)) => mem'[c][j] = mem[c][j]
  BY <1>0, <1>1, <1>2, SaveCalleeCells
<1>4. Base(act, sp) = sp /\ sp \in 1 .. StackCells
  <2>1. Base(act, sp) = sp
    BY <1>2 DEF Base, LocalsSp, Frame
  <2>2. sp >= 2 /\ sp <= StackCells
    BY <1>0, <1>2, <2>1, <1>3, NumbersAssumption
    DEF Popping, TypeOK, Depths
  <2> QED BY <1>3, <2>1, <2>2, NumbersAssumption
<1>5. /\ Newest(sp, Below(c0, sp)) /\ mem[c0][sp].kind = "callee"
      /\ ~IsSecure(c0) => mem[c0][sp].usp = usp
  <2>1. /\ Newest(sp, Below(c0, sp)) /\ mem[c0][sp].kind = "callee"
        /\ ~IsSecure(c0) => mem[c0][sp].usp = act.fp
    BY <1>0, <1>2, <1>4 DEF ActivitiesEntered, Entered
  <2> QED BY <1>2, <2>1 DEF LocalsSp, Frame
<1>6. Below(c0, sp) = Frames(c0)
  BY <1>0, <1>1, <1>2, FramesInUse DEF Below, InUse
<1>7. mem'[c0][sp] = mem[c0][sp]
  BY <1>2, <1>3, <1>4
<1> QED BY <1>1, <1>2, <1>3, <1>5, <1>6, <1>7, PopEnters

(* A called function leaves on the idle frame it was entered on.           *)
LEMMA CallReturnEnters ==
  ASSUME EnterInv, SwitchInv', CallReturn
  PROVE  ContextsEnterable' /\ ActivitiesEntered'
<1>0. SwitchInv /\ ActivitiesEntered /\ TypeOK
  BY DEF EnterInv, SwitchInv
<1>1. PICK c0, src, k : c0 = curr_id /\ src = stack[ptr - 1].src_id /\ k = stack[ptr - 1].src_sp
  OBVIOUS
<1>2. /\ Popping(sp + 2, ie, src, k) /\ act.kind = "fn" /\ LocalsSp = act.fp
      /\ Room /\ act.cont = c0 /\ c0 \in Containers
      /\ \A c \in Containers, j \in 1 .. StackCells : mem'[c][j].usp = SaveCallee[c][j].usp
  BY <1>0, <1>1, CallReturnPops DEF CallReturn, SwitchInv, ActiveIsRunning, TypeOK
<1>3. /\ sp \in Nat /\ sp + 2 \in 1 .. StackCells
      /\ \A c \in Containers, j \in 1 .. StackCells :
           ~(c = c0 /\ (j = sp + 1 \/ j = sp + 2)) => SaveCallee[c][j] = mem[c][j]
      /\ SaveCallee[c0][sp + 2].usp = usp
  <2>1. /\ sp + 1 \in 1 .. StackCells /\ sp + 2 \in 1 .. StackCells /\ sp \in Nat
        /\ \A c \in Containers, j \in 1 .. StackCells :
             SaveCallee[c][j] =
               IF c = c0 /\ j = sp + 1 THEN ExcCell(act, r0, ie)
               ELSE IF c = c0 /\ j = sp + 2 THEN CalleeCell(usp)
               ELSE mem[c][j]
    BY <1>0, <1>1, <1>2, SaveCalleeCells
  <2>2. sp + 2 # sp + 1
    BY <2>1
  <2>3. SaveCallee[c0][sp + 2] = CalleeCell(usp)
    BY <1>2, <2>1, <2>2
  <2> QED BY <2>1, <2>3 DEF CalleeCell
<1>4. Below(c0, sp) = {} /\ sp = 0
  <2>1. Below(c0, sp) = {} /\ Base(act, sp) = 0
    BY <1>0, <1>2 DEF ActivitiesEntered, Entered
  <2> QED BY <1>2, <2>1 DEF Base, LocalsSp, Frame
<1>5. Frames(c0) = {}
  BY <1>0, <1>1, <1>2, <1>4, FramesInUse DEF Below, InUse
<1>6. Newest(sp + 2, Frames(c0))
  BY <1>4, <1>5 DEF Newest
<1>7. mem'[c0][sp + 2].kind = "callee" /\ mem'[c0][sp + 2].usp = usp
  <2>1. PICK m : m = sp + 2 /\ m # sp + 1 /\ m \in 1 .. StackCells
    BY <1>3
  <2>2. SavedAbove
    BY <1>2 DEF Popping
  <2>3. mem'[c0][m].kind = "callee"
    BY <1>1, <1>2, <2>1, <2>2 DEF SavedAbove
  <2> QED BY <1>2, <1>3, <2>1, <2>3
<1>8. \A c \in Containers, j \in 1 .. StackCells :
        ~(c = c0 /\ (j = sp + 1 \/ j = sp + 2)) => mem'[c][j].usp = mem[c][j].usp
  BY <1>2, <1>3
<1> QED BY <1>1, <1>2, <1>6, <1>7, <1>8, PopEnters

(* A call enters a container that waits for nothing, on its idle frame.    *)
LEMMA ContainerCallEnters ==
  ASSUME AllowLoops = FALSE, EnterInv, SwitchInv',
         NEW d \in Containers, NEW v \in Values, ContainerCall(d, v)
  PROVE  ContextsEnterable' /\ ActivitiesEntered'
<1>0. SwitchInv /\ ContextsEnterable /\ TypeOK
  BY DEF EnterInv, SwitchInv
<1>1. PICK c0, frame : c0 = curr_id /\ frame = context[d].cur_sp
  OBVIOUS
<1>2. /\ Pushing(d, ie, {frame - 1}) /\ act'.kind = "fn" /\ act'.cont = d
      /\ sp' = frame - 2 /\ (IsSecure(d) => act'.fp = frame - 2)
      /\ \A c \in Containers, j \in 1 .. StackCells :
           ~(c = d /\ j = frame - 1) => mem'[c][j] = SaveCallee[c][j]
  <2>1. /\ Pushing(d, ie, {frame - 1})
        /\ \A c \in Containers, j \in 1 .. StackCells :
             ~(c = d /\ j = frame - 1) => mem'[c][j] = SaveCallee[c][j]
        /\ act'.kind = "fn" /\ sp' = frame - 2
        /\ IsSecure(d) => act'.fp = frame - 2
    <3>1. Pushing(d, ie, {frame - 1}) /\ act'.kind = "fn" /\ sp' = frame - 2
      BY <1>0, <1>1, ContainerCallPushes
    <3>2. IsSecure(d) => act'.fp = frame - 2
      BY <1>0, <1>1, ContainerCallPushes
    <3>3. ASSUME NEW c \in Containers, NEW j \in 1 .. StackCells, ~(c = d /\ j = frame - 1)
          PROVE  mem'[c][j] = SaveCallee[c][j]
      BY <1>0, <1>1, <3>3, ContainerCallPushes
    <3> QED BY <3>1, <3>2, <3>3
  <2>2. act'.cont = d
    BY <2>1 DEF Pushing
  <2> QED BY <2>1, <2>2
<1>3. Room /\ ~StackFull /\ d # c0 /\ c0 \in Containers /\ Push(curr_id, sp + 2, ie, d)
  BY <1>0, <1>1 DEF ContainerCall, CallTarget, TypeOK
<1>4. /\ sp \in Nat /\ sp + 2 \in 1 .. StackCells
      /\ \A c \in Containers, j \in 1 .. StackCells :
           SaveCallee[c][j] =
             IF c = c0 /\ j = sp + 1 THEN ExcCell(act, r0, ie)
             ELSE IF c = c0 /\ j = sp + 2 THEN CalleeCell(usp)
             ELSE mem[c][j]
  BY <1>0, <1>1, <1>3, SaveCalleeCells
<1>5. Frames(d) = {} /\ frame = 2
  <2>1. Frames(d) = {}
    BY DEF ContainerCall, CallerObeys, Waiting, Frames
  <2> QED BY <1>0, <1>1, <1>3, <2>1 DEF ContextsEnterable
<1>6. Frames(d)' = {}
  BY <1>0, <1>1, <1>3, <1>5, PushFrames
<1>7. Entered(act, sp)'
  <2>1. sp' = 0 /\ (IsSecure(d) => act'.fp = 0)
    BY <1>2, <1>5
  <2> QED BY <1>2, <1>6, <2>1 DEF Entered, Base, Below
<1>8. mem'[c0][sp + 2].usp = usp
  <2>1. sp + 2 # sp + 1
    BY <1>4
  <2>2. mem'[c0][sp + 2] = CalleeCell(usp)
    BY <1>2, <1>3, <1>4, <2>1
  <2> QED BY <2>2 DEF CalleeCell
<1>9. \A c \in Containers, j \in 1 .. StackCells :
        /\ ~(c = c0 /\ (j = sp + 1 \/ j = sp + 2))
        /\ ~(c = d /\ d # c0 /\ j \in {frame - 1})
        => mem'[c][j].usp = mem[c][j].usp
  BY <1>2, <1>3, <1>4
<1> QED BY <1>1, <1>2, <1>7, <1>8, <1>9, PushEnters

(* A handler is entered on its container's newest frame: the one of the    *)
(* code it interrupts when that runs in the same container.                *)
LEMMA InterruptSwitchEnters ==
  ASSUME EnterInv, SwitchInv', NEW i \in Irqs, InterruptSwitch(i)
  PROVE  ContextsEnterable' /\ ActivitiesEntered'
<1>0. SwitchInv /\ ContextsEnterable /\ TypeOK
  BY DEF EnterInv, SwitchInv
<1>1. PICK c0, d : c0 = curr_id /\ d = table[i].id
  OBVIOUS
<1>2. /\ d \in Containers /\ Pushing(d, ie, {}) /\ act'.kind = "isr" /\ act'.cont = d
      /\ mem' = SaveCallee /\ act'.fp = Frame(d, sp', usp')
      /\ sp' = IF d = c0 THEN sp + 2 ELSE context[d].cur_sp
      /\ ~IsSecure(d) => usp' = IF d = c0 THEN usp ELSE context[d].normal_sp
  BY <1>0, <1>1, InterruptSwitchPushes DEF Pushing
<1>3. Room /\ ~StackFull /\ c0 \in Containers /\ Push(curr_id, sp + 2, ie, d)
  BY <1>0, <1>1, <1>2 DEF Pushing, TypeOK
<1>4. /\ sp \in Nat /\ sp + 2 \in 1 .. StackCells
      /\ \A c \in Containers, j \in 1 .. StackCells :
           mem'[c][j] =
             IF c = c0 /\ j = sp + 1 THEN ExcCell(act, r0, ie)
             ELSE IF c = c0 /\ j = sp + 2 THEN CalleeCell(usp)
             ELSE mem[c][j]
  BY <1>0, <1>1, <1>2, <1>3, SaveCalleeCells
<1>5. mem'[c0][sp + 2] = CalleeCell(usp)
  <2>1. sp + 2 # sp + 1
    BY <1>4
  <2> QED BY <1>3, <1>4, <2>1
<1>6. /\ \A c : c # c0 => Frames(c)' = Frames(c)
      /\ Frames(c0)' = Frames(c0) \cup {sp + 2}
      /\ \A f \in Frames(c0) : f \in Nat /\ f <= sp
  BY <1>0, <1>1, <1>3, PushFrames
<1>7. ASSUME NEW k, k = sp'
      PROVE  /\ k \in Nat /\ Newest(k, Frames(d)')
             /\ mem'[d][k].kind = "callee"
             /\ ~IsSecure(d) => mem'[d][k].usp = usp'
  <2>1. CASE d = c0
    <3>1. k = sp + 2
      BY <1>2, <1>7, <2>1
    <3>2. k \in Frames(d)' /\ \A f \in Frames(d)' : f <= k
      BY <1>4, <1>6, <2>1, <3>1
    <3>3. mem'[d][k].kind = "callee" /\ mem'[d][k].usp = usp
      BY <1>5, <2>1, <3>1 DEF CalleeCell
    <3>4. ~IsSecure(d) => usp' = usp
      BY <1>2, <2>1
    <3>5. Newest(k, Frames(d)')
      BY <3>2 DEF Newest
    <3> QED BY <1>4, <3>1, <3>3, <3>4, <3>5
  <2>2. CASE d # c0
    <3>1. k = context[d].cur_sp /\ (~IsSecure(d) => usp' = context[d].normal_sp)
      BY <1>2, <1>7, <2>2
    <3>2. context[d] \in Contexts /\ k >= 2
      BY <1>0, <1>1, <1>2, <2>2, <3>1 DEF SwitchInv, TypeOK, ContextsHaveFrame
    <3>3. k \in 1 .. StackCells
      BY <3>1, <3>2, NumbersAssumption DEF Contexts, Depths
    <3>4. mem'[d][k] = mem[d][k]
      BY <1>2, <1>4, <2>2, <3>3
    <3>5. /\ Newest(k, Frames(d)) /\ mem[d][k].kind = "callee"
          /\ ~IsSecure(d) => mem[d][k].usp = context[d].normal_sp
      BY <1>0, <1>1, <1>2, <2>2, <3>1 DEF ContextsEnterable, Newest
    <3> QED BY <1>6, <2>2, <3>1, <3>3, <3>4, <3>5
  <2> QED BY <2>1, <2>2
<1>8. Entered(act, sp)'
  <2>1. PICK k : k = sp'
    OBVIOUS
  <2>2. Below(d, k)' = Frames(d)'
    <3>1. CASE Frames(d)' = {}
      BY <3>1 DEF Below
    <3>2. CASE Frames(d)' # {}
      BY <1>7, <2>1, <3>2 DEF Below, Newest
    <3> QED BY <3>1, <3>2
  <2>3. Base(act, sp)' = k
    BY <1>2, <2>1 DEF Base, Frame
  <2>4. ~IsSecure(d) => act'.fp = usp'
    BY <1>2 DEF Frame
  <2> QED BY <1>2, <1>7, <2>1, <2>2, <2>3, <2>4 DEF Entered, Below, Newest
<1>9. \A c \in Containers, j \in 1 .. StackCells :
        /\ ~(c = c0 /\ (j = sp + 1 \/ j = sp + 2))
        /\ ~(c = d /\ d # c0 /\ j \in {})
        => mem'[c][j].usp = mem[c][j].usp
  BY <1>4
<1>10. mem'[c0][sp + 2].usp = usp
  BY <1>5 DEF CalleeCell
<1> QED BY <1>1, <1>2, <1>8, <1>9, <1>10, PushEnters

(* The second layer holds at the start and is kept by every step.          *)
LEMMA InitEnters == Init => EnterInv
<1> SUFFICES ASSUME Init PROVE EnterInv
  OBVIOUS
<1> USE ContainersAssumption, NumbersAssumption
<1>1. \A c : Frames(c) = {}
  BY DEF Init, Frames
<1>2. ContextsEnterable
  BY <1>1 DEF Init, ContextsEnterable, IdleContext, Background, CalleeCell
<1>3. Entered(act, sp)
  BY DEF Init, Main, Entered
<1>4. \A c \in Containers, j \in 1 .. StackCells : mem[c][j].kind # "exc"
  BY DEF Init, CalleeCell, LocalCell
<1> QED BY <1>2, <1>3, <1>4, InitInv DEF EnterInv, ActivitiesEntered, CellEntered

LEMMA EnterStep ==
  ASSUME AllowLoops = FALSE, EnterInv, [Next]_vars PROVE EnterInv'
<1>0. SwitchInv'
  BY SwitchStep DEF EnterInv
<1> SUFFICES ContextsEnterable' /\ ActivitiesEntered'
  BY <1>0 DEF EnterInv
<1>1. CASE UNCHANGED vars
  <2>1. UNCHANGED <<act, sp, mem, stack, ptr, curr_id, context>>
    BY <1>1 DEF vars, cpu, chain
  <2> QED BY <1>0, <2>1, ComeBackEnters
<1>2. CASE (\E v \in Values : Compute(v)) \/ ToggleInterrupts
  <2>1. UNCHANGED <<act, sp, mem, stack, ptr, curr_id, context>>
    BY <1>2 DEF Compute, ToggleInterrupts, chain
  <2> QED BY <1>0, <2>1, ComeBackEnters
<1>3. CASE PushLocal \/ PopLocal
  BY <1>0, <1>3, LocalEnters
<1>4. CASE \/ CallInInterrupt \/ \E d \in Containers : CallHalt(d)
           \/ \E i \in Irqs : InterruptNotInstalled(i) \/ InterruptHalt(i)
  <2>1. UNCHANGED <<act, sp, stack, ptr, curr_id, context>> /\ Room /\ mem' = SaveExc
    BY <1>4 DEF CallInInterrupt, CallHalt, InterruptNotInstalled, InterruptHalt, Accepted,
            cpu, chain
  <2> QED BY <1>0, <2>1, ComeBackEnters
<1>5. CASE \E d \in Containers, v \in Values : ContainerCall(d, v)
  BY <1>0, <1>5, ContainerCallEnters
<1>6. CASE CallReturn \/ DirectReturn \/ IntReturn
  BY <1>0, <1>6, CallReturnEnters, DirectReturnEnters, IntReturnEnters
<1>7. CASE \E i \in Irqs : InterruptDirect(i) \/ InterruptSwitch(i)
  BY <1>0, <1>7, InterruptDirectEnters, InterruptSwitchEnters
<1> QED BY <1>1, <1>2, <1>3, <1>4, <1>5, <1>6, <1>7 DEF Next, Halted

(* Whatever calls, returns and interrupts came in between, a container     *)
(* that does not run can be entered: its context points to its newest      *)
(* saved frame, or to its idle frame when it waits for nothing, and the    *)
(* user stack pointer a handler would start with is the saved one.         *)
THEOREM ContextsStayEnterable ==
  ASSUME AllowLoops = FALSE PROVE Spec => []ContextsEnterable
<1>1. EnterInv /\ [Next]_vars => EnterInv'
  BY EnterStep
<1>2. EnterInv => ContextsEnterable
  BY DEF EnterInv
<1> QED BY InitEnters, <1>1, <1>2, PTL DEF Spec
=============================================================================
