------------------------ MODULE ContainerChainProofs ------------------------
(***************************************************************************)
(* ContainerSwitch implements ContainerCalls, for any set of containers,   *)
(* interrupts and priorities, any stack sizes and any length of the        *)
(* container stack.                                                        *)
(*                                                                         *)
(* The inductive invariant is ChainInv: SwitchInv, and that the chain that *)
(* can be read out of the container stack and the saved frames is well     *)
(* formed (GoodChain).  Each step of the runtime leaves the chain alone    *)
(* but for the running activity, adds one activity to it or takes the last *)
(* one away, which Moves says of the chains before and after (StepChain).  *)
(* What the invariants and the refinement say follows from that.           *)
(***************************************************************************)
EXTENDS ContainerSwitchProofs, ContainerSwitchImplements, FiniteSetTheorems,
        SequenceTheorems, WellFoundedInduction

-----------------------------------------------------------------------------
(* The chain of activities *)

(* Every set of naturals with an element has a smallest one.               *)
LEMMA SmallestElement ==
  ASSUME NEW T \in SUBSET Nat, T # {}
  PROVE  \E m \in T : \A n \in T : m <= n
<1> DEFINE UpTo(x) == {y \in T : y <= x}
           F == {UpTo(x) : x \in T}
<1>1. \A x \in T : UpTo(x) \in FiniteSubsetsOf(Nat)
  <2> TAKE x \in T
  <2>1. IsFiniteSet(UpTo(x))
    BY FS_BoundedSetOfNaturals
  <2> QED BY <2>1 DEF FiniteSubsetsOf
<1>2. F \subseteq FiniteSubsetsOf(Nat) /\ F # {}
  BY <1>1
<1>3. IsWellFoundedOn(StrictSubsetOrdering(Nat), FiniteSubsetsOf(Nat))
  BY FS_StrictSubsetOrderingWellFounded
<1>4. \E B \in F : \A C \in F : <<C, B>> \notin StrictSubsetOrdering(Nat)
  <2> HIDE DEF F
  <2> QED BY <1>2, <1>3, WFMin
<1>5. PICK m \in T : \A n \in T : <<UpTo(n), UpTo(m)>> \notin StrictSubsetOrdering(Nat)
  BY <1>4
<1>6. ASSUME NEW n \in T, n < m PROVE FALSE
  <2>0. m \in Nat /\ n \in Nat /\ \A y \in T : y \in Nat
    OBVIOUS
  <2>1. UpTo(n) \subseteq UpTo(m) /\ m \in UpTo(m) /\ m \notin UpTo(n)
    <3>1. \A y \in T : y <= n => y <= m
      BY <1>6, <2>0
    <3>2. m <= m /\ ~(m <= n)
      BY <1>6, <2>0
    <3> QED BY <3>1, <3>2
  <2>2. <<UpTo(n), UpTo(m)>> \in StrictSubsetOrdering(Nat)
    BY <2>1 DEF StrictSubsetOrdering
  <2> QED BY <1>5, <2>2
<1> QED BY <1>6

(* A set that contains 0 and with every number its successor contains all. *)
LEMMA AllNaturals ==
  ASSUME NEW T, 0 \in T, \A n \in Nat : n \in T => n + 1 \in T
  PROVE  \A n \in Nat : n \in T
<1> SUFFICES ASSUME NEW n \in Nat, n \notin T PROVE FALSE
  OBVIOUS
<1>1. {k \in Nat : k \notin T} # {}
  OBVIOUS
<1>2. PICK m \in {k \in Nat : k \notin T} : \A k \in {k \in Nat : k \notin T} : m <= k
  BY <1>1, SmallestElement
<1>3. m # 0 /\ m - 1 \in Nat /\ m - 1 + 1 = m
  BY <1>2
<1>4. m - 1 \in T
  BY <1>2, <1>3
<1> QED BY <1>2, <1>3, <1>4

(* A function defined by recursion on the naturals exists.                 *)
Iterates(g, a, F) == g = [n \in Nat |-> IF n = 0 THEN a ELSE F[g[n - 1]]]
LEMMA RecursionExists == \A a, F : \E g : Iterates(g, a, F)
<1> TAKE a, F
<1> DEFINE Approx(n, h) == h = [m \in 0 .. n |-> IF m = 0 THEN a ELSE F[h[m - 1]]]
           Has == {n \in Nat : \E h : Approx(n, h)}
<1>1. 0 \in Has
  <2> DEFINE h == [m \in 0 .. 0 |-> a]
  <2>1. h = [m \in 0 .. 0 |-> IF m = 0 THEN a ELSE F[h[m - 1]]]
    OBVIOUS
  <2> QED BY <2>1
<1>2. ASSUME NEW n \in Nat, n \in Has PROVE n + 1 \in Has
  <2>1. PICK h : Approx(n, h)
    BY <1>2
  <2> DEFINE g == [m \in 0 .. n + 1 |-> IF m <= n THEN h[m] ELSE F[h[n]]]
  <2>2. \A m \in 0 .. n : h[m] = IF m = 0 THEN a ELSE F[h[m - 1]]
    BY <2>1
  <2>3. ASSUME NEW m \in 0 .. n + 1 PROVE g[m] = IF m = 0 THEN a ELSE F[g[m - 1]]
    <3>1. CASE m <= n
      <4>1. g[m] = h[m] /\ (m # 0 => g[m - 1] = h[m - 1])
        BY <3>1
      <4> QED BY <2>2, <3>1, <4>1
    <3>2. CASE ~(m <= n)
      <4>1. m = n + 1 /\ m # 0 /\ g[m] = F[h[n]] /\ g[m - 1] = h[n]
        BY <3>2
      <4> QED BY <4>1
    <3> QED BY <3>1, <3>2
  <2>4. Approx(n + 1, g)
    BY <2>3
  <2> HIDE DEF g
  <2> QED BY <2>4
<1>3. \A n \in Nat : \E h : Approx(n, h)
  <2> HIDE DEF Has
  <2>1. \A n \in Nat : n \in Has
    BY <1>1, <1>2, AllNaturals
  <2> QED BY <2>1 DEF Has
<1> DEFINE at == [n \in Nat |-> CHOOSE h : Approx(n, h)]
<1>4. \A n \in Nat : Approx(n, at[n])
  BY <1>3
<1>5. \A n \in Nat : \A m \in 0 .. n : at[n][m] = IF m = 0 THEN a ELSE F[at[n][m - 1]]
  <2> HIDE DEF at
  <2> TAKE n \in Nat
  <2> TAKE m \in 0 .. n
  <2>1. PICK h : h = at[n]
    OBVIOUS
  <2>2. h = [k \in 0 .. n |-> IF k = 0 THEN a ELSE F[h[k - 1]]]
    BY <1>4, <2>1
  <2>3. h[m] = IF m = 0 THEN a ELSE F[h[m - 1]]
    BY <2>2
  <2> QED BY <2>1, <2>3
<1>6. ASSUME NEW n \in Nat PROVE at[n + 1][n] = at[n][n]
  <2> HIDE DEF at
  <2> DEFINE Same == {m \in Nat : m <= n => at[n + 1][m] = at[n][m]}
  <2>1. 0 \in Same
    BY <1>5
  <2>2. ASSUME NEW m \in Nat, m \in Same PROVE m + 1 \in Same
    <3> SUFFICES ASSUME m + 1 <= n PROVE at[n + 1][m + 1] = at[n][m + 1]
      OBVIOUS
    <3>1. at[n + 1][m] = at[n][m]
      BY <2>2
    <3>2. at[n + 1][m + 1] = F[at[n + 1][m + 1 - 1]] /\ at[n][m + 1] = F[at[n][m + 1 - 1]]
      BY <1>5
    <3> QED BY <3>1, <3>2
  <2>3. n \in Same
    <3> HIDE DEF Same
    <3> QED BY <2>1, <2>2, AllNaturals
  <2> QED BY <2>3
<1> DEFINE g == [n \in Nat |-> at[n][n]]
<1>7. ASSUME NEW n \in Nat PROVE g[n] = IF n = 0 THEN a ELSE F[g[n - 1]]
  <2> HIDE DEF at
  <2>1. CASE n = 0
    BY <1>5, <2>1
  <2>2. CASE n # 0
    <3>1. n - 1 \in Nat /\ n - 1 + 1 = n
      BY <2>2
    <3>2. at[n][n - 1] = at[n - 1][n - 1]
      BY <1>6, <3>1
    <3>3. at[n][n] = F[at[n][n - 1]]
      BY <1>5, <2>2
    <3> QED BY <2>2, <3>1, <3>2, <3>3
  <2> QED BY <2>1, <2>2
<1>8. g = [n \in Nat |-> IF n = 0 THEN a ELSE F[g[n - 1]]]
  <2> HIDE DEF at
  <2> QED BY <1>7
<1> QED BY <1>8 DEF Iterates

LEMMA UnrolledIs ==
  /\ Unrolled[0] = <<Running>>
  /\ \A n \in Nat : Unrolled[n + 1] = Longer[Unrolled[n]]
<1> DEFINE R(g) == g = [n \in Nat |-> IF n = 0 THEN <<Running>> ELSE Longer[g[n - 1]]]
<1>1. \E g : R(g)
  <2>1. \E g : Iterates(g, <<Running>>, Longer)
    BY RecursionExists
  <2> QED BY <2>1 DEF Iterates
<1>2. R(CHOOSE g : R(g))
  BY <1>1
<1>3. R(Unrolled)
  BY <1>2 DEF Unrolled
<1> HIDE DEF Unrolled, Longer, Running
<1> QED BY <1>3

(* A chain: the running activity last, each other one under the next one,  *)
(* the first one under none.                                               *)
IsChain(s) ==
  /\ s \in Seq(Stages) /\ s # <<>>
  /\ s[Len(s)] = Running /\ IsFirst(s[1])
  /\ \A k \in 2 .. Len(s) : ~IsFirst(s[k]) /\ s[k - 1] = Under(s[k])

LEMMA ChainStages ==
  ASSUME NEW s, IsChain(s)
  PROVE  /\ s \in Seq(Stages) /\ Len(s) \in Nat /\ Len(s) >= 1 /\ DOMAIN s = 1 .. Len(s)
         /\ \A k \in 1 .. Len(s) : s[k] \in Stages
<1>1. s \in Seq(Stages) /\ s # <<>>
  BY DEF IsChain
<1>2. Len(s) \in Nat \ {0}
  BY <1>1, EmptySeq
<1> QED BY <1>1, <1>2, ElementOfSeq, LenProperties

(* Unrolled finds it, one activity for every step.                         *)
LEMMA ChainUnrolls ==
  ASSUME NEW s, IsChain(s),
         ptr \in Nat, Cardinality(irq_act) \in Nat, Len(s) <= ptr + 1 + Cardinality(irq_act)
  PROVE  Chain = s
<1> DEFINE From(i) == IF i < Len(s) THEN Len(s) - i ELSE 1
           Good == {i \in Nat : Unrolled[i] = SubSeq(s, From(i), Len(s))}
<1>0. s \in Seq(Stages) /\ Len(s) \in Nat \ {0} /\ \A k \in 1 .. Len(s) : s[k] \in Stages
  BY EmptySeq, ElementOfSeq DEF IsChain
<1>1. 0 \in Good
  <2>1. SubSeq(s, Len(s), Len(s)) = <<s[Len(s)]>> \o SubSeq(s, Len(s) + 1, Len(s))
    BY <1>0, SubSeqRecursiveFirst
  <2>2. SubSeq(s, Len(s) + 1, Len(s)) = <<>>
    BY <1>0, SubSeqEmpty
  <2>3. <<s[Len(s)]>> \in Seq(Stages)
    BY <1>0
  <2>4. <<s[Len(s)]>> \o <<>> = <<s[Len(s)]>>
    BY <2>3, ConcatEmptySeq
  <2>5. Unrolled[0] = SubSeq(s, Len(s), Len(s))
    BY <2>1, <2>2, <2>4, UnrolledIs DEF IsChain
  <2>6. From(0) = Len(s)
    BY <1>0
  <2> HIDE DEF From
  <2> QED BY <2>5, <2>6
<1>2. ASSUME NEW i \in Nat, i \in Good PROVE i + 1 \in Good
  <2>1. From(i) \in 1 .. Len(s)
    BY <1>0
  <2> DEFINE t == SubSeq(s, From(i), Len(s))
  <2>2. t \in Seq(Stages) /\ t[1] = s[From(i)]
    BY <1>0, <2>1, SubSeqProperties
  <2>3. Longer[t] = IF IsFirst(s[From(i)]) THEN t ELSE <<Under(s[From(i)])>> \o t
    BY <2>2 DEF Longer
  <2>4. CASE From(i) = 1
    <3>1. From(i + 1) = 1
      BY <1>0, <2>4
    <3> HIDE DEF From
    <3>2. Longer[t] = t
      BY <2>3, <2>4 DEF IsChain
    <3>3. Unrolled[i + 1] = Longer[t]
      BY <1>2, UnrolledIs
    <3>4. Unrolled[i + 1] = SubSeq(s, From(i + 1), Len(s))
      BY <2>4, <3>1, <3>2, <3>3
    <3> QED BY <3>4
  <2>5. CASE From(i) # 1
    <3>1. From(i + 1) = From(i) - 1 /\ From(i) \in 2 .. Len(s)
      BY <1>0, <2>1, <2>5
    <3>2. Longer[t] = <<s[From(i) - 1]>> \o t
      BY <2>3, <3>1 DEF IsChain
    <3>3. SubSeq(s, From(i) - 1, Len(s)) = <<s[From(i) - 1]>> \o SubSeq(s, From(i) - 1 + 1, Len(s))
      <4> HIDE DEF From
      <4>1. From(i) - 1 \in 1 .. Len(s) /\ Len(s) \in From(i) - 1 .. Len(s)
        BY <1>0, <3>1
      <4> QED BY <1>0, <4>1, SubSeqRecursiveFirst
    <3>4. From(i) - 1 + 1 = From(i)
      BY <3>1
    <3> HIDE DEF From
    <3>5. Unrolled[i + 1] = Longer[t]
      BY <1>2, UnrolledIs
    <3>6. SubSeq(s, From(i + 1), Len(s)) = <<s[From(i) - 1]>> \o t
      BY <3>1, <3>3, <3>4
    <3>7. Unrolled[i + 1] = SubSeq(s, From(i + 1), Len(s))
      BY <3>2, <3>5, <3>6
    <3> QED BY <3>7
  <2> QED BY <2>4, <2>5
<1>3. ptr + Cardinality(irq_act) \in Good
  <2> HIDE DEF Good
  <2> QED BY <1>1, <1>2, AllNaturals
<1>4. From(ptr + Cardinality(irq_act)) = 1
  BY <1>0
<1> QED BY <1>0, <1>3, <1>4, SubSeqFull DEF Chain

-----------------------------------------------------------------------------
(* The chain that can be read out of the container stack and of the saved  *)
(* frames is well formed.                                                  *)

(* The container that works at a level of the container stack, and the     *)
(* cells of its stack that were in use when it was left.                   *)
LevelCont(l) == IF l = ptr THEN curr_id ELSE stack[l].src_id
LevelSp(l)   == IF l = ptr THEN sp ELSE stack[l].src_sp - 2

Placed(x) ==
  x.level \in 0 .. ptr /\ x.act.cont = LevelCont(x.level) /\ x.sp <= LevelSp(x.level)

IsHandler(x) == x.act.kind \in {"isr", "direct"}
Handlers(s)  == {k \in 1 .. Len(s) : IsHandler(s[k])}
Directs(s)   == {k \in 1 .. Len(s) : s[k].act.kind = "direct"}

(* No activity has popped more than its own locals; a direct handler has   *)
(* the frame it returns through below them.                                *)
Formed(x) ==
  /\ x.act.fp <= Frame(x.act.cont, x.sp, x.usp)
  /\ x.act.kind = "direct" => IsSecure(x.act.cont) /\ x.act.fp >= 1
(* Two activities, x below y: only a direct handler shares a level with    *)
(* what is below it, and only handlers run where something waits.          *)
Above(x, y) ==
  /\ x.level = y.level => y.act.kind = "direct" /\ x.sp < y.act.fp
  /\ ~IsHandler(x) /\ ~IsHandler(y) => x.act.cont # y.act.cont
(* Only the first activity is the background container's own.              *)
Ordered(s) ==
  /\ \A k \in 1 .. Len(s) : Formed(s[k]) /\ (s[k].act.kind = "main" <=> k = 1)
  /\ \A j, k \in 1 .. Len(s) : j < k => Above(s[j], s[k])

(* A level per activity that is not a direct handler, a bit of AUX_IRQ_ACT *)
(* per handler (an interrupt that halts leaves one bit more).              *)
Pending == {irq_pri[i] : i \in Irqs}
Counted(s) ==
  /\ Len(s) = ptr + 1 + Cardinality(Directs(s))
  /\ Cardinality(Handlers(s)) <= Cardinality(irq_act)
  /\ ~halted => Cardinality(Handlers(s)) = Cardinality(irq_act)
  /\ irq_act \subseteq Pending

GoodChain(s) ==
  /\ IsChain(s) /\ Ordered(s) /\ Counted(s)
  /\ \A k \in 1 .. Len(s) : Placed(s[k])

(* What a step leaves of the container stack up to level m and of the      *)
(* cells in use under it.                                                  *)
Retained(m) ==
  /\ m \in 0 .. ptr /\ m <= ptr'
  /\ \A l \in 0 .. m :
       /\ LevelCont(l)' = LevelCont(l)
       /\ l < ptr' => LevelSp(l)' = LevelSp(l)
  /\ \A l \in 0 .. m - 1 : stack'[l] = stack[l]
  /\ \A l \in 0 .. m, j \in 1 .. StackCells :
       j <= LevelSp(l) \/ (l < m /\ j <= stack[l].src_sp) =>
         mem'[LevelCont(l)][j] = mem[LevelCont(l)][j]

(* Under a stage at a retained level is what was under it before, whatever *)
(* registers it has now.                                                   *)
LEMMA UnderKept ==
  ASSUME SwitchInv, NEW x \in Stages, NEW y \in Stages, NEW m, Retained(m),
         y.act = x.act, y.level = x.level, x.act.kind = "direct" => y.usp = x.usp,
         Placed(x), Formed(x), ~IsFirst(x), x.level <= m
  PROVE  Under(y)' = Under(x)
<1> USE NumbersAssumption
<1>0. TypeOK /\ FramesIntact
  BY DEF SwitchInv
<1>1. /\ x.level \in 0 .. ptr /\ x.level \in 0 .. m /\ ptr \in 0 .. MaxDepth
      /\ x.act.cont = LevelCont(x.level) /\ x.sp <= LevelSp(x.level)
      /\ x.act.fp \in 0 .. StackCells /\ x.sp \in 0 .. StackCells /\ m \in 0 .. ptr
  BY <1>0 DEF Placed, Stages, Activities, Depths, TypeOK, Retained
<1>2. CASE x.act.kind = "direct"
  <2>1. x.act.fp \in 1 .. StackCells /\ x.act.fp <= x.sp
    BY <1>1, <1>2 DEF Formed, Frame
  <2>2. x.sp <= LevelSp(x.level) => x.act.fp <= LevelSp(x.level)
    <3>1. LevelSp(x.level) \in Int
      BY <1>0, <1>1 DEF LevelSp, TypeOK, Items, Depths
    <3> QED BY <1>1, <2>1, <3>1
  <2>3. mem'[LevelCont(x.level)][x.act.fp] = mem[LevelCont(x.level)][x.act.fp]
    BY <1>1, <2>1, <2>2 DEF Retained
  <2>4. mem'[x.act.cont][x.act.fp] = mem[x.act.cont][x.act.fp]
    BY <1>1, <2>3
  <2> QED BY <1>2, <2>4 DEF Under, UnderHandler
<1>3. CASE x.act.kind # "direct"
  <2>1. x.level - 1 \in 0 .. m - 1 /\ x.level - 1 \in 0 .. ptr - 1
    BY <1>1, <1>3 DEF IsFirst
  <2>2. PICK l : l = x.level - 1
    OBVIOUS
  <2>3. stack'[l] = stack[l] /\ l \in 0 .. m /\ l < m /\ LevelCont(l) = stack[l].src_id
    BY <1>1, <2>1, <2>2 DEF Retained, LevelCont
  <2>4. stack[l].src_sp >= 2 /\ stack[l].src_sp \in 0 .. StackCells
    <3>1. stack[l] \in Items
      BY <1>0, <2>1, <2>2 DEF TypeOK
    <3> QED BY <1>0, <2>1, <2>2, <3>1 DEF FramesIntact, Items, Depths
  <2>5. \A j \in 1 .. StackCells : j <= stack[l].src_sp =>
          mem'[stack[l].src_id][j] = mem[stack[l].src_id][j]
    BY <2>3 DEF Retained
  <2>6. /\ mem'[stack[l].src_id][stack[l].src_sp] = mem[stack[l].src_id][stack[l].src_sp]
        /\ mem'[stack[l].src_id][stack[l].src_sp - 1] = mem[stack[l].src_id][stack[l].src_sp - 1]
    BY <2>4, <2>5
  <2> QED BY <1>3, <2>2, <2>3, <2>6 DEF Under, UnderEntry
<1> QED BY <1>2, <1>3

(* The places of the stages below the top.                                 *)
LEMMA PlacedKept ==
  ASSUME SwitchInv, SwitchInv', NEW x \in Stages, NEW top \in Stages, top = Running',
         NEW m, Retained(m), Placed(x), x.level <= m, Above(x, top), Formed(top)
  PROVE  Placed(x)'
<1>1. /\ x.level \in 0 .. m /\ m <= ptr' /\ ptr' \in Nat /\ m \in Nat
      /\ x.act.cont = LevelCont(x.level)' /\ x.sp \in Nat
  BY DEF Placed, Retained, SwitchInv, TypeOK, Stages, Depths
<1>2. CASE x.level = ptr'
  <2>1. top.level = ptr' /\ top.sp = sp' /\ top.act.fp \in Nat /\ top.sp \in Nat
    BY DEF Running, Stages, Activities, Depths
  <2>2. top.act.kind = "direct" /\ x.sp < top.act.fp
    BY <1>2, <2>1 DEF Above
  <2>3. top.act.fp <= top.sp
    BY <2>2 DEF Formed, Frame
  <2>4. x.sp <= sp'
    BY <1>1, <2>1, <2>2, <2>3
  <2> QED BY <1>1, <1>2, <2>4 DEF Placed, LevelSp
<1>3. CASE x.level # ptr'
  <2>1. LevelSp(x.level)' = LevelSp(x.level)
    BY <1>1, <1>3 DEF Retained
  <2> QED BY <1>1, <2>1 DEF Placed
<1> QED BY <1>2, <1>3

(* The running activity is in its place.                                   *)
LEMMA RunningPlaced ==
  ASSUME SwitchInv', NEW top \in Stages, top = Running'
  PROVE  Placed(top)'
<1>1. act'.cont = curr_id' /\ ptr' \in Nat /\ sp' \in Nat
  BY DEF SwitchInv, ActiveIsRunning, TypeOK, Depths
<1>2. top.act = act' /\ top.sp = sp' /\ top.level = ptr'
  BY DEF Running
<1> QED BY <1>1, <1>2 DEF Placed, LevelCont, LevelSp

(* A step after which a stage of the chain runs, with other registers and  *)
(* with nothing above it.                                                  *)
Replaces(t, s, n, top) ==
  /\ n \in 1 .. Len(s) /\ t \in Seq(Stages) /\ Len(t) = n
  /\ t[n] = top /\ \A k \in 1 .. n - 1 : t[k] = s[k]
  /\ top.act = s[n].act /\ top.level = s[n].level
  /\ s[n].act.kind = "direct" => top.usp = s[n].usp
LEMMA TopReplaced ==
  ASSUME SwitchInv, SwitchInv', NEW s, GoodChain(s), NEW n, NEW t,
         NEW top \in Stages, top = Running', Replaces(t, s, n, top), Formed(top),
         NEW m, Retained(m), \A k \in 1 .. n : s[k].level <= m
  PROVE  IsChain(t)' /\ Ordered(t) /\ \A k \in 1 .. n : Placed(t[k])'
<1>0. /\ n \in 1 .. Len(s) /\ t \in Seq(Stages) /\ Len(t) = n
      /\ t[n] = top /\ \A k \in 1 .. n - 1 : t[k] = s[k]
      /\ top.act = s[n].act /\ top.level = s[n].level
      /\ s[n].act.kind = "direct" => top.usp = s[n].usp
  BY DEF Replaces
<1>1. /\ s \in Seq(Stages) /\ Len(s) \in Nat /\ \A k \in 1 .. Len(s) : s[k] \in Stages
      /\ s[Len(s)] = Running /\ IsFirst(s[1])
      /\ \A k \in 2 .. Len(s) : ~IsFirst(s[k]) /\ s[k - 1] = Under(s[k])
      /\ \A k \in 1 .. Len(s) : Placed(s[k])
  BY <1>0, ChainStages DEF GoodChain, IsChain
<1>2. Ordered(s)
  BY <1>0 DEF GoodChain
<1>3. \A k \in 1 .. n : k \in 1 .. Len(s) /\ t[k].act = s[k].act /\ t[k].level = s[k].level
  <2> TAKE k \in 1 .. n
  <2>1. CASE k = n
    BY <1>0, <2>1
  <2>2. CASE k # n
    BY <1>0, <1>1, <2>2
  <2> QED BY <1>0, <2>1, <2>2
<1>4. Ordered(t)
  <2>1. ASSUME NEW k \in 1 .. n PROVE Formed(t[k]) /\ (t[k].act.kind = "main" <=> k = 1)
    <3>1. Formed(s[k]) /\ (s[k].act.kind = "main" <=> k = 1)
      BY <1>0, <1>2, <1>3 DEF Ordered
    <3>2. k = n \/ k \in 1 .. n - 1
      BY <1>0
    <3> QED BY <1>0, <1>3, <3>1, <3>2
  <2>2. ASSUME NEW j \in 1 .. n, NEW k \in 1 .. n, j < k PROVE Above(t[j], t[k])
    <3>1. j \in 1 .. n - 1 /\ j \in 1 .. Len(s) /\ k \in 1 .. Len(s)
      BY <1>0, <1>1, <2>2
    <3>2. Above(s[j], s[k]) /\ t[j] = s[j]
      BY <1>0, <1>2, <2>2, <3>1 DEF Ordered
    <3> QED BY <1>0, <1>3, <3>2 DEF Above, IsHandler
  <2> QED BY <1>0, <2>1, <2>2 DEF Ordered
<1>5. ASSUME NEW k \in 2 .. n
      PROVE  ~IsFirst(t[k]) /\ t[k - 1] = Under(t[k])'
  <2>1. k \in 2 .. Len(s) /\ k \in 1 .. Len(s) /\ k \in 1 .. n /\ k - 1 \in 1 .. n - 1
    BY <1>0, <1>1
  <2>2. /\ s[k] \in Stages /\ ~IsFirst(s[k]) /\ s[k - 1] = Under(s[k])
        /\ Placed(s[k]) /\ Formed(s[k]) /\ s[k].level <= m
    BY <1>0, <1>1, <1>2, <2>1 DEF Ordered
  <2>3. PICK y \in Stages : y = t[k]
    BY <1>0, <2>1, ElementOfSeq
  <2>4. y.act = s[k].act /\ y.level = s[k].level
    BY <1>0, <1>3, <2>1, <2>3
  <2>5. s[k].act.kind = "direct" => y.usp = s[k].usp
    <3>1. k = n \/ k \in 1 .. n - 1
      BY <1>0
    <3> QED BY <1>0, <2>3, <3>1
  <2>6. Under(y)' = Under(s[k])
    BY <1>0, <2>2, <2>4, <2>5, UnderKept
  <2>7. ~IsFirst(t[k])
    BY <1>0, <2>2, <2>3, <2>4 DEF IsFirst
  <2> QED BY <1>0, <2>1, <2>2, <2>3, <2>6, <2>7
<1>6. IsFirst(t[1]) /\ t # <<>>
  BY <1>0, <1>1, <1>3 DEF IsFirst
<1>7. IsChain(t)'
  BY <1>0, <1>5, <1>6 DEF IsChain
<1>8. ASSUME NEW k \in 1 .. n PROVE Placed(t[k])'
  <2>1. CASE k = n
    BY <1>0, <2>1, RunningPlaced
  <2>2. CASE k # n
    <3>1. k \in 1 .. n - 1 /\ k \in 1 .. Len(s) /\ k < n
      BY <1>0, <1>1, <2>2
    <3>2. s[k] \in Stages /\ Placed(s[k]) /\ s[k].level <= m /\ t[k] = s[k]
      BY <1>0, <1>1, <3>1
    <3>3. Above(s[k], s[n])
      BY <1>0, <1>2, <3>1 DEF Ordered
    <3>4. Above(s[k], top)
      BY <1>0, <3>3 DEF Above, IsHandler
    <3>5. PICK x \in Stages : x = t[k]
      BY <1>0, <3>2
    <3>6. Placed(x)'
      BY <1>0, <3>2, <3>4, <3>5, PlacedKept
    <3> QED BY <1>0, <3>5, <3>6
  <2> QED BY <1>0, <2>1, <2>2
<1> QED BY <1>0, <1>4, <1>7, <1>8

(* A step that enters a new activity.                                      *)
LEMMA TopAdded ==
  ASSUME SwitchInv, SwitchInv', NEW s, GoodChain(s),
         NEW top \in Stages, top = Running', Under(top)' = Running,
         ~IsFirst(top), Formed(top), top.act.kind # "main",
         \A k \in 1 .. Len(s) : Above(s[k], top),
         Retained(ptr),
         NEW t \in Seq(Stages), Len(t) = Len(s) + 1, t[Len(t)] = top,
         \A k \in 1 .. Len(s) : t[k] = s[k]
  PROVE  IsChain(t)' /\ Ordered(t) /\ \A k \in 1 .. Len(t) : Placed(t[k])'
<1>1. /\ s \in Seq(Stages) /\ Len(s) \in Nat /\ \A k \in 1 .. Len(s) : s[k] \in Stages
      /\ s[Len(s)] = Running /\ IsFirst(s[1]) /\ Len(s) >= 1
      /\ \A k \in 2 .. Len(s) : ~IsFirst(s[k]) /\ s[k - 1] = Under(s[k])
      /\ \A k \in 1 .. Len(s) : Placed(s[k])
  BY ChainStages DEF GoodChain, IsChain
<1>2. Ordered(s)
  BY DEF GoodChain
<1>3. \A k \in 1 .. Len(t) : k = Len(s) + 1 \/ k \in 1 .. Len(s)
  BY <1>1
<1>4. Ordered(t)
  <2>1. ASSUME NEW k \in 1 .. Len(t) PROVE Formed(t[k]) /\ (t[k].act.kind = "main" <=> k = 1)
    BY <1>1, <1>2, <1>3 DEF Ordered
  <2>2. ASSUME NEW j \in 1 .. Len(t), NEW k \in 1 .. Len(t), j < k PROVE Above(t[j], t[k])
    <3>1. j \in 1 .. Len(s)
      BY <1>1, <2>2
    <3> QED BY <1>2, <1>3, <2>2, <3>1 DEF Ordered
  <2> QED BY <2>1, <2>2 DEF Ordered
<1>5. ASSUME NEW k \in 2 .. Len(t)
      PROVE  ~IsFirst(t[k]) /\ t[k - 1] = Under(t[k])'
  <2>1. CASE k = Len(s) + 1
    <3>1. t[k] = top /\ k - 1 = Len(s) /\ t[k - 1] = Running
      BY <1>1, <2>1
    <3> QED BY <3>1
  <2>2. CASE k # Len(s) + 1
    <3>1. k \in 2 .. Len(s) /\ k \in 1 .. Len(s) /\ k - 1 \in 1 .. Len(s)
      BY <1>1, <2>2
    <3>2. /\ s[k] \in Stages /\ ~IsFirst(s[k]) /\ s[k - 1] = Under(s[k])
          /\ Placed(s[k]) /\ Formed(s[k]) /\ s[k].level <= ptr
      BY <1>1, <1>2, <3>1 DEF Ordered, Placed
    <3>3. PICK y \in Stages : y = t[k]
      BY <3>1, <3>2
    <3>4. y = s[k]
      BY <3>1, <3>3
    <3>5. Under(y)' = Under(s[k])
      BY <3>2, <3>4, UnderKept
    <3> QED BY <3>1, <3>2, <3>3, <3>4, <3>5
  <2> QED BY <2>1, <2>2
<1>6. IsFirst(t[1]) /\ t # <<>>
  BY <1>1
<1>7. IsChain(t)'
  BY <1>5, <1>6 DEF IsChain
<1>8. ASSUME NEW k \in 1 .. Len(t) PROVE Placed(t[k])'
  <2>1. CASE k = Len(s) + 1
    BY <2>1, RunningPlaced
  <2>2. CASE k # Len(s) + 1
    <3>1. k \in 1 .. Len(s)
      BY <1>3, <2>2
    <3>2. s[k] \in Stages /\ Placed(s[k]) /\ s[k].level <= ptr /\ t[k] = s[k]
      BY <1>1, <3>1 DEF Placed
    <3>5. PICK x \in Stages : x = t[k]
      BY <3>2
    <3>6. Above(x, top) /\ Placed(x) /\ x.level <= ptr
      BY <3>1, <3>2, <3>5
    <3>7. Placed(x)'
      BY <3>6, PlacedKept
    <3> QED BY <3>5, <3>7
  <2> QED BY <2>1, <2>2
<1> QED BY <1>4, <1>7, <1>8

(* The entries of the container stack, and that their frames are in use.   *)
LEMMA EntryFacts ==
  ASSUME SwitchInv, NEW l \in 0 .. ptr - 1
  PROVE  /\ stack[l] \in Items /\ stack[l].src_id \in Containers
         /\ stack[l].src_sp \in 2 .. StackCells
         /\ stack[l].src_id = curr_id => stack[l].src_sp <= sp
<1>1. stack[l] \in Items /\ stack[l].src_sp >= 2 /\ StackCells \in Nat
  BY NumbersAssumption DEF SwitchInv, TypeOK, FramesIntact
<1>2. stack[l].src_id = curr_id => stack[l].src_sp <= sp
  BY DEF SwitchInv, FramesDisjoint, InUse
<1> QED BY <1>1, <1>2 DEF Items, Depths

(* Steps that stay at the level they are at.                               *)
LEMMA RetainedHere ==
  ASSUME SwitchInv, UNCHANGED <<stack, ptr, curr_id>>,
         \A c \in Containers, j \in 1 .. StackCells :
           ~(c = curr_id /\ j = sp + 1) => mem'[c][j] = mem[c][j]
  PROVE  Retained(ptr)
<1>1. ptr \in Nat /\ ptr \in 0 .. ptr /\ curr_id \in Containers /\ sp \in Nat
  BY DEF SwitchInv, TypeOK, Depths
<1>2. \A l \in 0 .. ptr : LevelCont(l)' = LevelCont(l) /\ (l < ptr => LevelSp(l)' = LevelSp(l))
  BY <1>1 DEF LevelCont, LevelSp
<1>3. ASSUME NEW l \in 0 .. ptr, NEW j \in 1 .. StackCells,
             j <= LevelSp(l) \/ (l < ptr /\ j <= stack[l].src_sp)
      PROVE  mem'[LevelCont(l)][j] = mem[LevelCont(l)][j]
  <2>1. CASE l = ptr
    <3>1. LevelCont(l) = curr_id /\ j <= sp
      BY <1>1, <1>3, <2>1 DEF LevelCont, LevelSp
    <3>2. ~(j = sp + 1)
      BY <1>1, <3>1
    <3> QED BY <1>1, <3>1, <3>2
  <2>2. CASE l # ptr
    <3>1. l \in 0 .. ptr - 1
      BY <1>1, <2>2
    <3>2. /\ LevelCont(l) = stack[l].src_id /\ stack[l].src_id \in Containers
          /\ stack[l].src_sp \in 2 .. StackCells
          /\ stack[l].src_id = curr_id => stack[l].src_sp <= sp
      BY <2>2, <3>1, EntryFacts DEF LevelCont
    <3>3. j <= stack[l].src_sp
      BY <1>3, <2>2, <3>2 DEF LevelSp
    <3>4. ~(stack[l].src_id = curr_id /\ j = sp + 1)
      BY <1>1, <3>2, <3>3
    <3> QED BY <3>2, <3>4
  <2> QED BY <2>1, <2>2
<1> QED BY <1>1, <1>2, <1>3 DEF Retained

(* Steps that push an entry on the container stack.                        *)
LEMMA RetainedPush ==
  ASSUME SwitchInv, Room, ~StackFull, NEW d, NEW status, NEW c0, c0 = curr_id,
         Push(curr_id, sp + 2, status, d), sp' \in Nat,
         \A c \in Containers, j \in 1 .. StackCells :
           \/ c = c0 /\ (j = sp + 1 \/ j = sp + 2)
           \/ c # c0 /\ \A n \in 0 .. ptr - 1 : stack[n].src_id # c
           \/ mem'[c][j] = mem[c][j]
  PROVE  /\ Retained(ptr) /\ ptr' = ptr + 1 /\ ptr \in 0 .. MaxDepth - 1
         /\ stack'[ptr].src_id = c0 /\ stack'[ptr].src_sp = sp + 2
<1>1. ptr \in 0 .. MaxDepth - 1 /\ ptr' = ptr + 1 /\ c0 \in Containers /\ sp \in Nat
      /\ ptr \in 0 .. ptr
  BY NumbersAssumption DEF SwitchInv, TypeOK, StackFull, Push, Depths
<1>2. /\ stack'[ptr].src_id = c0 /\ stack'[ptr].src_sp = sp + 2
      /\ \A n \in 0 .. ptr - 1 : stack'[n] = stack[n]
  <2>1. stack \in [0 .. MaxDepth - 1 -> Items] /\ ptr \notin 0 .. ptr - 1
        /\ 0 .. ptr - 1 \subseteq 0 .. MaxDepth - 1
    BY <1>1, NumbersAssumption DEF SwitchInv, TypeOK
  <2> QED BY <1>1, <2>1 DEF Push
<1>3. ASSUME NEW l \in 0 .. ptr
      PROVE  LevelCont(l)' = LevelCont(l) /\ LevelSp(l)' = LevelSp(l)
  <2>1. LevelCont(l)' = stack'[l].src_id /\ LevelSp(l)' = stack'[l].src_sp - 2
    BY <1>1 DEF LevelCont, LevelSp
  <2>2. CASE l = ptr
    BY <1>1, <1>2, <2>1, <2>2 DEF LevelCont, LevelSp
  <2>3. CASE l # ptr
    BY <1>1, <1>2, <2>1, <2>3 DEF LevelCont, LevelSp
  <2> QED BY <2>2, <2>3
<1>4. ASSUME NEW l \in 0 .. ptr, NEW j \in 1 .. StackCells,
             j <= LevelSp(l) \/ (l < ptr /\ j <= stack[l].src_sp)
      PROVE  mem'[LevelCont(l)][j] = mem[LevelCont(l)][j]
  <2>1. CASE l = ptr
    <3>1. LevelCont(l) = c0 /\ j <= sp
      BY <1>1, <1>4, <2>1 DEF LevelCont, LevelSp
    <3>2. ~(j = sp + 1 \/ j = sp + 2)
      BY <1>1, <3>1
    <3> QED BY <1>1, <3>1, <3>2
  <2>2. CASE l # ptr
    <3>1. l \in 0 .. ptr - 1
      BY <1>1, <2>2
    <3>2. /\ LevelCont(l) = stack[l].src_id /\ stack[l].src_id \in Containers
          /\ stack[l].src_sp \in 2 .. StackCells
          /\ stack[l].src_id = c0 => stack[l].src_sp <= sp
      BY <2>2, <3>1, EntryFacts DEF LevelCont
    <3>3. j <= stack[l].src_sp
      BY <1>4, <2>2, <3>2 DEF LevelSp
    <3>4. ~(stack[l].src_id = c0 /\ (j = sp + 1 \/ j = sp + 2))
      BY <1>1, <3>2, <3>3
    <3> QED BY <3>1, <3>2, <3>4
  <2> QED BY <2>1, <2>2
<1>5. ptr <= ptr'
  BY <1>1
<1> QED BY <1>1, <1>2, <1>3, <1>4, <1>5 DEF Retained

(* Steps that pop the entry on top and resume what its frame holds.        *)
LEMMA RetainedPop ==
  ASSUME SwitchInv, ptr # 0, NEW src, NEW k, NEW c0, c0 = curr_id,
         src = stack[ptr - 1].src_id, k = stack[ptr - 1].src_sp,
         stack' = stack, ptr' = ptr - 1, curr_id' = src, sp' = k - 2,
         \A c \in Containers, j \in 1 .. StackCells :
           \/ c = c0 /\ (j = sp + 1 \/ j = sp + 2)
           \/ c = src /\ j = k - 1
           \/ mem'[c][j] = mem[c][j]
  PROVE  Retained(ptr - 1)
<1>1. ptr \in Nat /\ ptr - 1 \in 0 .. ptr - 1 /\ ptr - 1 \in 0 .. ptr /\ sp \in Nat
      /\ c0 \in Containers
  BY DEF SwitchInv, TypeOK, Depths
<1>2. src \in Containers /\ k \in 2 .. StackCells /\ (src = c0 => k <= sp)
  BY <1>1, EntryFacts
<1>3. ASSUME NEW l \in 0 .. ptr - 1
      PROVE  LevelCont(l)' = LevelCont(l) /\ LevelSp(l)' = LevelSp(l)
  <2>1. LevelCont(l) = stack[l].src_id /\ LevelSp(l) = stack[l].src_sp - 2
    BY <1>1 DEF LevelCont, LevelSp
  <2> QED BY <2>1 DEF LevelCont, LevelSp
<1>4. ASSUME NEW l \in 0 .. ptr - 1, NEW j \in 1 .. StackCells,
             j <= LevelSp(l) \/ (l < ptr - 1 /\ j <= stack[l].src_sp)
      PROVE  mem'[LevelCont(l)][j] = mem[LevelCont(l)][j]
  <2>1. /\ LevelCont(l) = stack[l].src_id /\ LevelSp(l) = stack[l].src_sp - 2
        /\ stack[l].src_id \in Containers /\ stack[l].src_sp \in 2 .. StackCells
        /\ stack[l].src_id = c0 => stack[l].src_sp <= sp
    BY <1>1, EntryFacts DEF LevelCont, LevelSp
  <2>2. j <= stack[l].src_sp
    BY <1>4, <2>1
  <2>3. ~(stack[l].src_id = c0 /\ (j = sp + 1 \/ j = sp + 2))
    BY <1>1, <2>1, <2>2
  <2>4. ~(stack[l].src_id = src /\ j = k - 1)
    <3>1. CASE l = ptr - 1
      BY <1>2, <1>4, <2>1, <3>1
    <3>2. CASE l # ptr - 1
      <4>1. stack[l].src_id = src => stack[l].src_sp + 2 <= k
        BY <1>1, <3>2 DEF SwitchInv, FramesDisjoint
      <4> QED BY <1>2, <2>1, <2>2, <4>1
    <3> QED BY <3>1, <3>2
  <2> QED BY <2>1, <2>3, <2>4
<1>5. ptr - 1 <= ptr'
  BY <1>1
<1> QED BY <1>1, <1>3, <1>4, <1>5 DEF Retained

(* Counting.                                                               *)
LEMMA PendingFinite ==
  ASSUME TypeOK, NEW A, A \subseteq Pending
  PROVE  IsFiniteSet(A) /\ Cardinality(A) \in Nat
<1>1. irq_pri \in Surjection(Irqs, Pending)
  <2>1. irq_pri \in [Irqs -> Pending]
    BY DEF TypeOK, Pending
  <2>2. \A p \in Pending : \E i \in Irqs : irq_pri[i] = p
    BY DEF Pending
  <2> QED BY <2>1, <2>2 DEF Surjection
<1>2. IsFiniteSet(Pending)
  BY <1>1, FiniteAssumption, FS_Surjection
<1>3. IsFiniteSet(A)
  BY <1>2, FS_Subset
<1> QED BY <1>3, FS_CardinalityType

LEMMA HandlersFinite ==
  ASSUME NEW s, Len(s) \in Nat
  PROVE  /\ IsFiniteSet(Handlers(s)) /\ Cardinality(Handlers(s)) \in Nat
         /\ IsFiniteSet(Directs(s)) /\ Cardinality(Directs(s)) \in Nat
         /\ Cardinality(Directs(s)) <= Cardinality(Handlers(s))
<1>1. IsFiniteSet(1 .. Len(s))
  BY FS_Interval
<1>2. IsFiniteSet(Handlers(s)) /\ Directs(s) \subseteq Handlers(s)
  <2>1. Handlers(s) \subseteq 1 .. Len(s)
    BY DEF Handlers
  <2> QED BY <1>1, <2>1, FS_Subset DEF Handlers, Directs, IsHandler
<1>3. IsFiniteSet(Directs(s)) /\ Cardinality(Directs(s)) <= Cardinality(Handlers(s))
  BY <1>2, FS_Subset
<1> QED BY <1>2, <1>3, FS_CardinalityType

LEMMA HandlersSame ==
  ASSUME NEW s, NEW t, Len(t) = Len(s), \A k \in 1 .. Len(s) : t[k].act = s[k].act
  PROVE  Handlers(t) = Handlers(s) /\ Directs(t) = Directs(s)
BY DEF Handlers, Directs, IsHandler

LEMMA HandlersAdded ==
  ASSUME NEW s, NEW t, Len(s) \in Nat, Len(t) = Len(s) + 1,
         \A k \in 1 .. Len(s) : t[k].act = s[k].act
  PROVE  /\ Cardinality(Handlers(t)) =
              Cardinality(Handlers(s)) + IF IsHandler(t[Len(t)]) THEN 1 ELSE 0
         /\ Cardinality(Directs(t)) =
              Cardinality(Directs(s)) + IF t[Len(t)].act.kind = "direct" THEN 1 ELSE 0
<1>1. \A k : k \in 1 .. Len(t) <=> k \in 1 .. Len(s) \/ k = Len(t)
  OBVIOUS
<1>2. Len(t) \notin 1 .. Len(s)
  OBVIOUS
<1>3. \A k \in 1 .. Len(s) : IsHandler(t[k]) <=> IsHandler(s[k])
  BY DEF IsHandler
<1>4. Handlers(t) = IF IsHandler(t[Len(t)]) THEN Handlers(s) \cup {Len(t)} ELSE Handlers(s)
  BY <1>1, <1>3 DEF Handlers
<1>5. Directs(t) = IF t[Len(t)].act.kind = "direct" THEN Directs(s) \cup {Len(t)} ELSE Directs(s)
  BY <1>1 DEF Directs
<1>6. Len(t) \notin Handlers(s) /\ Len(t) \notin Directs(s)
  BY <1>2 DEF Handlers, Directs
<1>7. /\ IsFiniteSet(Handlers(s)) /\ Cardinality(Handlers(s)) \in Nat
      /\ IsFiniteSet(Directs(s)) /\ Cardinality(Directs(s)) \in Nat
  BY HandlersFinite
<1>8. /\ Cardinality(Handlers(s) \cup {Len(t)}) = Cardinality(Handlers(s)) + 1
      /\ Cardinality(Directs(s) \cup {Len(t)}) = Cardinality(Directs(s)) + 1
  BY <1>6, <1>7, FS_AddElement
<1> QED BY <1>4, <1>5, <1>7, <1>8

(* Accepting an interrupt sets a bit of AUX_IRQ_ACT that was clear, the    *)
(* return from a handler clears one.                                       *)
LEMMA BitSet ==
  ASSUME TypeOK, irq_act \subseteq Pending, NEW i \in Irqs, Accepted(i)
  PROVE  /\ irq_act \cup {irq_pri[i]} \subseteq Pending
         /\ Cardinality(irq_act) \in Nat
         /\ Cardinality(irq_act \cup {irq_pri[i]}) = Cardinality(irq_act) + 1
<1>1. irq_pri[i] \notin irq_act
  <2>1. irq_pri[i] \in Nat
    BY NumbersAssumption DEF TypeOK
  <2> QED BY <2>1 DEF Accepted
<1>2. IsFiniteSet(irq_act) /\ Cardinality(irq_act) \in Nat
  BY PendingFinite
<1>3. Cardinality(irq_act \cup {irq_pri[i]}) = Cardinality(irq_act) + 1
  BY <1>1, <1>2, FS_AddElement
<1> QED BY <1>2, <1>3 DEF Pending

LEMMA BitCleared ==
  ASSUME TypeOK, irq_act \subseteq Pending, Cardinality(irq_act) # 0
  PROVE  /\ Cardinality(irq_act) \in Nat
         /\ Cardinality(irq_act \ Served) = Cardinality(irq_act) - 1
<1>1. IsFiniteSet(irq_act) /\ Cardinality(irq_act) \in Nat
  BY PendingFinite
<1>2. irq_act # {} /\ irq_act \subseteq Nat
  BY <1>1, FS_EmptySet, NumbersAssumption DEF TypeOK
<1>3. PICK p \in irq_act : \A q \in irq_act : p <= q
  BY <1>2, SmallestElement
<1>4. Served = {p}
  <2>1. \A x \in irq_act : (\A q \in irq_act : x <= q) => x = p
    <3> TAKE x \in irq_act
    <3> HAVE \A q \in irq_act : x <= q
    <3>1. x <= p /\ p <= x /\ x \in Nat /\ p \in Nat
      BY <1>2, <1>3
    <3> QED BY <3>1
  <2> QED BY <1>3, <2>1, Zenon DEF Served
<1>5. Cardinality(irq_act \ {p}) = Cardinality(irq_act) - 1
  BY <1>1, <1>3, FS_RemoveElement
<1> QED BY <1>1, <1>4, <1>5

(* The registers of the running activity are those of a stage.             *)
LEMMA RunningIsStage == ASSUME SwitchInv' PROVE Running' \in Stages
<1>1. /\ act' \in Activities /\ sp' \in Depths /\ usp' \in Depths /\ r0' \in Values
      /\ ptr' \in 0 .. MaxDepth
  BY DEF SwitchInv, TypeOK
<1>2. ie' \in BOOLEAN
  BY DEF SwitchInv, TypeOK
<1> QED BY <1>1, <1>2 DEF Running, Stages

(* The facts of a good chain the steps use.                                *)
LEMMA GoodFacts ==
  ASSUME SwitchInv, NEW s, GoodChain(s)
  PROVE  /\ s \in Seq(Stages) /\ Len(s) \in Nat /\ Len(s) >= 1 /\ DOMAIN s = 1 .. Len(s)
         /\ \A k \in 1 .. Len(s) : s[k] \in Stages /\ Formed(s[k]) /\ s[k].level \in 0 .. ptr
         /\ s[Len(s)] = Running /\ Formed(Running)
         /\ act.kind = "main" <=> Len(s) = 1
         /\ \A k \in 1 .. Len(s) - 1 : Above(s[k], Running)
         /\ Len(s) >= 2 => s[Len(s) - 1] = Under(Running) /\ ~IsFirst(Running)
         /\ ptr \in Nat /\ Cardinality(irq_act) \in Nat
<1>1. IsChain(s) /\ Ordered(s) /\ irq_act \subseteq Pending /\ TypeOK
  BY DEF GoodChain, Counted, SwitchInv
<1>2. /\ s \in Seq(Stages) /\ Len(s) \in Nat /\ Len(s) >= 1 /\ DOMAIN s = 1 .. Len(s)
      /\ \A k \in 1 .. Len(s) : s[k] \in Stages
  BY <1>1, ChainStages
<1>3. /\ s[Len(s)] = Running /\ Len(s) \in 1 .. Len(s)
      /\ Len(s) >= 2 => Len(s) \in 2 .. Len(s)
  BY <1>1, <1>2 DEF IsChain
<1>4. \A k \in 1 .. Len(s) : Formed(s[k]) /\ s[k].level \in 0 .. ptr
  BY <1>1 DEF GoodChain, Ordered, Placed
<1>5. act.kind = "main" <=> Len(s) = 1
  <2>1. s[Len(s)].act.kind = "main" <=> Len(s) = 1
    BY <1>1, <1>3 DEF Ordered
  <2> QED BY <1>3, <2>1 DEF Running
<1>6. \A k \in 1 .. Len(s) - 1 : Above(s[k], Running)
  <2> TAKE k \in 1 .. Len(s) - 1
  <2>1. k \in 1 .. Len(s) /\ k < Len(s)
    BY <1>2
  <2> QED BY <1>1, <1>3, <2>1 DEF Ordered
<1>7. Len(s) >= 2 => s[Len(s) - 1] = Under(Running) /\ ~IsFirst(Running)
  BY <1>1, <1>3 DEF IsChain
<1>8. ptr \in Nat /\ Cardinality(irq_act) \in Nat
  BY <1>1, PendingFinite DEF TypeOK
<1> QED BY <1>2, <1>3, <1>4, <1>5, <1>6, <1>7, <1>8

(* A step that neither enters nor leaves an activity.                      *)
LEMMA StayChain ==
  ASSUME SwitchInv, SwitchInv', NEW s, GoodChain(s),
         UNCHANGED <<act, stack, ptr, curr_id, irq_pri>>,
         IsSecure(act.cont) => usp' = usp, act.fp <= Frame(act.cont, sp', usp'),
         \A c \in Containers, j \in 1 .. StackCells :
           ~(c = curr_id /\ j = sp + 1) => mem'[c][j] = mem[c][j],
         irq_act \subseteq irq_act', irq_act' \subseteq Pending,
         ~halted' => ~halted /\ irq_act' = irq_act
  PROVE  \E t : /\ GoodChain(t)' /\ Len(t) = Len(s)
                /\ \A k \in 1 .. Len(s) - 1 : t[k] = s[k]
<1>0. GoodChain(s) /\ TypeOK
  BY DEF SwitchInv
<1>1. /\ s \in Seq(Stages) /\ Len(s) \in Nat /\ Len(s) >= 1
      /\ \A k \in 1 .. Len(s) : s[k] \in Stages /\ Formed(s[k]) /\ s[k].level \in 0 .. ptr
      /\ s[Len(s)] = Running /\ Len(s) \in 1 .. Len(s) /\ ptr \in Nat
  BY GoodFacts
<1>2. PICK top \in Stages : top = Running'
  BY RunningIsStage
<1> DEFINE t == [s EXCEPT ![Len(s)] = top]
<1>3. /\ t \in Seq(Stages) /\ Len(t) = Len(s) /\ t[Len(s)] = top
      /\ \A k \in 1 .. Len(s) - 1 : t[k] = s[k]
  <2>1. /\ t \in Seq(Stages) /\ Len(t) = Len(s)
        /\ \A k \in 1 .. Len(s) : t[k] = IF k = Len(s) THEN top ELSE s[k]
    BY <1>1, ExceptSeq
  <2>2. \A k \in 1 .. Len(s) - 1 : k \in 1 .. Len(s) /\ k # Len(s)
    BY <1>1
  <2> HIDE DEF t
  <2> QED BY <1>1, <2>1, <2>2
<1> HIDE DEF t
<1>4. /\ top.act = act /\ top.level = ptr /\ top.usp = usp' /\ top.sp = sp'
      /\ Running.act = act /\ Running.level = ptr /\ Running.usp = usp
  BY <1>2 DEF Running
<1>5. Formed(top) /\ (act.kind = "direct" => IsSecure(act.cont))
  <2>1. Formed(Running)
    BY <1>1
  <2> QED BY <1>4, <2>1 DEF Formed
<1>6. Retained(ptr)
  BY RetainedHere
<1>7. IsChain(t)' /\ Ordered(t) /\ \A k \in 1 .. Len(s) : Placed(t[k])'
  <2>1. PICK n : n = Len(s)
    OBVIOUS
  <2>2. Replaces(t, s, n, top) /\ \A k \in 1 .. n : s[k].level <= ptr
    BY <1>1, <1>3, <1>4, <1>5, <2>1 DEF Replaces
  <2>3. IsChain(t)' /\ Ordered(t) /\ \A k \in 1 .. n : Placed(t[k])'
    BY <1>2, <1>5, <1>6, <2>2, TopReplaced
  <2> QED BY <2>1, <2>3
<1>8. Counted(t)'
  <2>1. \A k \in 1 .. Len(s) : t[k].act = s[k].act
    <3>1. \A k \in 1 .. Len(s) : k = Len(s) \/ k \in 1 .. Len(s) - 1
      BY <1>1
    <3> QED BY <1>1, <1>3, <1>4, <3>1
  <2>2. Handlers(t) = Handlers(s) /\ Directs(t) = Directs(s)
    BY <1>3, <2>1, HandlersSame
  <2>3. Pending' = Pending
    BY DEF Pending
  <2>4. Cardinality(irq_act) <= Cardinality(irq_act')
    <3>1. IsFiniteSet(irq_act')
      BY <1>0, PendingFinite
    <3> QED BY <3>1, FS_Subset
  <2>5. /\ Cardinality(irq_act) \in Nat /\ Cardinality(irq_act') \in Nat
        /\ Cardinality(Handlers(s)) \in Nat
    BY <1>0, <1>1, GoodFacts, PendingFinite, HandlersFinite
  <2>6. Counted(s)
    BY DEF GoodChain
  <2> QED BY <1>3, <2>2, <2>3, <2>4, <2>5, <2>6 DEF Counted
<1>9. GoodChain(t)'
  BY <1>3, <1>7, <1>8 DEF GoodChain
<1> QED BY <1>3, <1>9

(* A step that enters an activity: a call keeps the bits of AUX_IRQ_ACT,   *)
(* a handler sets one, and only a direct handler stays at the level.       *)
LEMMA EnterChain ==
  ASSUME SwitchInv, SwitchInv', NEW s, GoodChain(s), ~halted, ~halted',
         NEW top, top = Running', Under(top)' = Running, Formed(top), top.act.kind # "main",
         \A k \in 1 .. Len(s) : Above(s[k], top), Retained(ptr), irq_pri' = irq_pri,
         ptr' = ptr + IF top.act.kind = "direct" THEN 0 ELSE 1,
         IF IsHandler(top) THEN \E i \in Irqs : Accepted(i) /\ irq_act' = irq_act \cup {irq_pri[i]}
                           ELSE irq_act' = irq_act
  PROVE  \E t : /\ GoodChain(t)' /\ Len(t) = Len(s) + 1
                /\ \A k \in 1 .. Len(s) : t[k] = s[k]
<1>0. GoodChain(s) /\ TypeOK /\ Counted(s)
  BY DEF SwitchInv, GoodChain
<1>1. /\ s \in Seq(Stages) /\ Len(s) \in Nat /\ ptr \in Nat
  BY GoodFacts
<1>2. top \in Stages /\ top.level = ptr'
  BY RunningIsStage DEF Running
<1> DEFINE t == Append(s, top)
<1>3. /\ t \in Seq(Stages) /\ Len(t) = Len(s) + 1 /\ t[Len(t)] = top
      /\ \A k \in 1 .. Len(s) : t[k] = s[k]
  BY <1>1, <1>2, AppendProperties
<1> HIDE DEF t
<1>4. ~IsFirst(top)
  BY <1>1, <1>2 DEF IsFirst
<1>5. IsChain(t)' /\ Ordered(t) /\ \A k \in 1 .. Len(t) : Placed(t[k])'
  BY <1>0, <1>2, <1>3, <1>4, TopAdded
<1>6. Counted(t)'
  <2>1. /\ Cardinality(Handlers(t)) =
             Cardinality(Handlers(s)) + IF IsHandler(top) THEN 1 ELSE 0
        /\ Cardinality(Directs(t)) =
             Cardinality(Directs(s)) + IF top.act.kind = "direct" THEN 1 ELSE 0
    BY <1>1, <1>3, HandlersAdded
  <2>2. Pending' = Pending
    BY DEF Pending
  <2>3. /\ irq_act' \subseteq Pending
        /\ Cardinality(irq_act') = Cardinality(irq_act) + IF IsHandler(top) THEN 1 ELSE 0
    <3>1. CASE IsHandler(top)
      <4>1. PICK i \in Irqs : Accepted(i) /\ irq_act' = irq_act \cup {irq_pri[i]}
        BY <3>1
      <4> QED BY <1>0, <3>1, <4>1, BitSet DEF Counted
    <3>2. CASE ~IsHandler(top)
      <4>1. irq_act' = irq_act /\ Cardinality(irq_act) \in Nat
        BY <3>2, GoodFacts
      <4> QED BY <1>0, <3>2, <4>1 DEF Counted
    <3> QED BY <3>1, <3>2
  <2>4. /\ Cardinality(Handlers(s)) \in Nat /\ Cardinality(Directs(s)) \in Nat
        /\ Cardinality(Handlers(s)) = Cardinality(irq_act)
    BY <1>0, <1>1, HandlersFinite DEF Counted
  <2>5. Len(t) = ptr' + 1 + Cardinality(Directs(t))
    BY <1>0, <1>1, <1>3, <2>1, <2>4 DEF Counted
  <2>6. Cardinality(Handlers(t)) = Cardinality(irq_act')
    BY <2>1, <2>3, <2>4
  <2>7. Cardinality(Handlers(t)) <= Cardinality(irq_act')
    BY <2>1, <2>4, <2>6
  <2> QED BY <2>2, <2>3, <2>5, <2>6, <2>7 DEF Counted
<1>7. GoodChain(t)'
  BY <1>3, <1>5, <1>6 DEF GoodChain
<1> QED BY <1>3, <1>7

(* A step that leaves the running activity: the one under it runs again.   *)
Leaves(top, m) ==
  /\ top.act = Under(Running).act /\ top.level = Under(Running).level
  /\ top.sp = Under(Running).sp /\ top.usp = Under(Running).usp
  /\ m = IF act.kind = "direct" THEN ptr ELSE ptr - 1
  /\ ptr' = m
  /\ irq_act' = IF IsHandler(Running) THEN irq_act \ Served ELSE irq_act

LEMMA LeaveChain ==
  ASSUME SwitchInv, SwitchInv', NEW s, GoodChain(s), ~halted, ~halted', act.kind # "main",
         NEW top, top = Running', NEW m, Leaves(top, m), Retained(m), irq_pri' = irq_pri
  PROVE  \E t : /\ GoodChain(t)' /\ Len(t) = Len(s) - 1
                /\ \A k \in 1 .. Len(s) - 2 : t[k] = s[k]
<1>0. GoodChain(s) /\ TypeOK /\ Counted(s)
  BY DEF SwitchInv, GoodChain
<1>1. /\ s \in Seq(Stages) /\ Len(s) \in Nat /\ Len(s) >= 2 /\ ptr \in Nat
      /\ \A k \in 1 .. Len(s) : s[k] \in Stages /\ Formed(s[k]) /\ s[k].level \in 0 .. ptr
      /\ s[Len(s)] = Running /\ s[Len(s) - 1] = Under(Running)
      /\ \A k \in 1 .. Len(s) - 1 : Above(s[k], Running)
  <2>1. Len(s) >= 1 /\ Len(s) \in Nat /\ Len(s) # 1
    BY GoodFacts
  <2>2. Len(s) >= 2
    <3>1. PICK n \in Nat : n = Len(s)
      BY <2>1
    <3>2. n >= 1 /\ n # 1
      BY <2>1, <3>1
    <3>3. n >= 2
      BY <3>2
    <3> QED BY <3>1, <3>3
  <2> QED BY <2>2, GoodFacts
<1>2. PICK n : n = Len(s) - 1
  OBVIOUS
<1>3. n \in 1 .. Len(s) /\ n + 1 = Len(s) /\ n \in Nat /\ 1 .. n \subseteq 1 .. Len(s)
  BY <1>1, <1>2
<1>4. top \in Stages /\ top.act = s[n].act /\ top.level = s[n].level /\ top.sp = s[n].sp
      /\ top.usp = s[n].usp
  BY <1>1, <1>2, RunningIsStage DEF Leaves
<1>5. Formed(top)
  BY <1>1, <1>3, <1>4 DEF Formed
<1>7. \A k \in 1 .. n : s[k].level <= m
  <2> TAKE k \in 1 .. n
  <2>1. Above(s[k], Running) /\ s[k].level \in 0 .. ptr
    BY <1>1, <1>2, <1>3
  <2>2. s[k].level = ptr => act.kind = "direct"
    BY <2>1 DEF Above, Running
  <2> QED BY <1>1, <2>1, <2>2 DEF Leaves
<1> DEFINE u == SubSeq(s, 1, n)
           t == [u EXCEPT ![n] = top]
<1>8. /\ t \in Seq(Stages) /\ Len(t) = n /\ t[n] = top
      /\ \A k \in 1 .. n - 1 : t[k] = s[k]
  <2>1. u \in Seq(Stages) /\ Len(u) = n /\ \A k \in 1 .. n : u[k] = s[k]
    <3>1. \A k \in 1 .. n : s[k] \in Stages
      BY <1>1, <1>3
    <3>2. /\ u \in Seq(Stages) /\ Len(u) = IF 1 <= n THEN n - 1 + 1 ELSE 0
          /\ \A k \in 1 .. n - 1 + 1 : u[k] = s[1 + k - 1]
      BY <1>3, <3>1, SubSeqProperties
    <3>3. 1 <= n /\ n - 1 + 1 = n /\ \A k \in 1 .. n : 1 + k - 1 = k
      BY <1>3
    <3> HIDE DEF u
    <3> QED BY <3>2, <3>3
  <2> HIDE DEF u
  <2>2. n \in 1 .. Len(u)
    BY <1>3, <2>1
  <2>3. /\ t \in Seq(Stages) /\ Len(t) = n
        /\ \A k \in 1 .. n : t[k] = IF k = n THEN top ELSE u[k]
    BY <1>4, <2>1, <2>2, ExceptSeq
  <2>4. \A k \in 1 .. n - 1 : k \in 1 .. n /\ k # n
    BY <1>3
  <2> HIDE DEF t
  <2> QED BY <1>3, <2>1, <2>2, <2>3, <2>4
<1> HIDE DEF t
<1>9. IsChain(t)' /\ Ordered(t) /\ \A k \in 1 .. n : Placed(t[k])'
  <2>1. Replaces(t, s, n, top)
    BY <1>3, <1>4, <1>8 DEF Replaces
  <2> QED BY <1>0, <1>4, <1>5, <1>7, <2>1, TopReplaced
<1>10. Counted(t)'
  <2>1. \A k \in 1 .. Len(t) : s[k].act = t[k].act
    <3>1. \A k \in 1 .. n : k = n \/ k \in 1 .. n - 1
      BY <1>3
    <3> QED BY <1>4, <1>8, <3>1
  <2>2. /\ Cardinality(Handlers(s)) =
             Cardinality(Handlers(t)) + IF IsHandler(Running) THEN 1 ELSE 0
        /\ Cardinality(Directs(s)) =
             Cardinality(Directs(t)) + IF act.kind = "direct" THEN 1 ELSE 0
    <3>1. /\ Cardinality(Handlers(s)) =
               Cardinality(Handlers(t)) + IF IsHandler(s[Len(s)]) THEN 1 ELSE 0
          /\ Cardinality(Directs(s)) =
               Cardinality(Directs(t)) + IF s[Len(s)].act.kind = "direct" THEN 1 ELSE 0
      BY <1>3, <1>8, <2>1, HandlersAdded
    <3> QED BY <1>1, <3>1 DEF Running
  <2>3. Pending' = Pending
    BY DEF Pending
  <2>4. /\ Cardinality(Handlers(t)) \in Nat /\ Cardinality(Directs(t)) \in Nat
        /\ Cardinality(Handlers(s)) = Cardinality(irq_act)
        /\ Cardinality(irq_act) \in Nat
    BY <1>0, <1>3, <1>8, HandlersFinite, GoodFacts DEF Counted
  <2>5. /\ irq_act' \subseteq Pending
        /\ Cardinality(irq_act') = Cardinality(irq_act) - IF IsHandler(Running) THEN 1 ELSE 0
    <3>1. irq_act \subseteq Pending
      BY <1>0 DEF Counted
    <3>2. CASE IsHandler(Running)
      <4>1. Cardinality(irq_act) # 0
        BY <2>2, <2>4, <3>2
      <4>2. irq_act' = irq_act \ Served
        BY <3>2 DEF Leaves
      <4> QED BY <1>0, <3>1, <3>2, <4>1, <4>2, BitCleared
    <3>3. CASE ~IsHandler(Running)
      BY <2>4, <3>1, <3>3 DEF Leaves
    <3> QED BY <3>2, <3>3
  <2>6. Len(t) = ptr' + 1 + Cardinality(Directs(t))
    <3>1. Len(s) = ptr + 1 + Cardinality(Directs(s))
      BY <1>0 DEF Counted
    <3>2. Len(t) + 1 = ptr + 1 + Cardinality(Directs(s))
      BY <1>3, <1>8, <3>1
    <3>3. Len(t) \in Nat
      BY <1>3, <1>8
    <3>4. ptr' = IF act.kind = "direct" THEN ptr ELSE ptr - 1
      BY DEF Leaves
    <3>5. PICK len \in Nat, c \in Nat, d \in Nat :
            len = Len(t) /\ c = Cardinality(Directs(t)) /\ d = Cardinality(Directs(s))
      <4>1. Cardinality(Directs(s)) \in Nat
        BY <2>2, <2>4
      <4> QED BY <2>4, <3>3, <4>1
    <3>6. d = c + IF act.kind = "direct" THEN 1 ELSE 0
      BY <2>2, <3>5
    <3>7. ptr \in Nat
      BY <1>1
    <3>8. len = ptr' + 1 + c
      <4>1. len + 1 = ptr + 1 + d
        BY <3>2, <3>5
      <4> QED BY <3>4, <3>6, <3>7, <4>1
    <3> QED BY <3>5, <3>8
  <2>7. Cardinality(Handlers(t)) = Cardinality(irq_act')
    BY <2>2, <2>4, <2>5
  <2>8. Cardinality(Handlers(t)) <= Cardinality(irq_act')
    BY <2>4, <2>7
  <2>9. irq_act' \subseteq Pending'
    BY <2>3, <2>5
  <2> QED BY <2>6, <2>7, <2>8, <2>9, Zenon DEF Counted
<1>11. GoodChain(t)'
  BY <1>8, <1>9, <1>10 DEF GoodChain
<1>12. Len(t) = Len(s) - 1 /\ \A k \in 1 .. Len(s) - 2 : t[k] = s[k]
  <2>1. n - 1 = Len(s) - 2
    BY <1>1, <1>2
  <2> QED BY <1>2, <1>8, <2>1
<1> QED BY <1>11, <1>12

(* What the frame pushed last says is what was running.                    *)
LEMMA PushedUnder ==
  ASSUME NEW top, top.level = ptr + 1, top.act.kind # "direct", NEW c0,
         ptr \in Nat, sp \in Nat, stack'[ptr].src_id = c0, stack'[ptr].src_sp = sp + 2,
         mem'[c0][sp + 1] = ExcCell(act, r0, ie), mem'[c0][sp + 2] = CalleeCell(usp)
  PROVE  Under(top)' = Running
<1>1. PICK k : k = sp + 2
  OBVIOUS
<1>2. k - 1 = sp + 1 /\ k - 2 = sp /\ top.level - 1 = ptr
  BY <1>1
<1>3. /\ ExcCell(act, r0, ie).act = act /\ ExcCell(act, r0, ie).r0 = r0
      /\ ExcCell(act, r0, ie).ie = ie /\ CalleeCell(usp).usp = usp
  BY DEF ExcCell, CalleeCell
<1>4. Under(top)' = [act |-> mem'[c0][k - 1].act, sp |-> k - 2, usp |-> mem'[c0][k].usp,
                     r0 |-> mem'[c0][k - 1].r0, ie |-> mem'[c0][k - 1].ie,
                     level |-> top.level - 1]
  BY <1>1, <1>2 DEF Under, UnderEntry
<1>5. mem'[c0][k - 1] = ExcCell(act, r0, ie) /\ mem'[c0][k] = CalleeCell(usp)
  BY <1>1, <1>2
<1> QED BY <1>2, <1>3, <1>4, <1>5 DEF Running

(* Where the stages of a good chain are.                                   *)
LEMMA GoodPlaces ==
  ASSUME SwitchInv, NEW s, GoodChain(s), NEW k \in 1 .. Len(s)
  PROVE  /\ s[k].level \in 0 .. ptr /\ s[k].sp \in Nat
         /\ s[k].level = ptr => s[k].sp <= sp
         /\ s[k].act.cont = curr_id \/ s[k].act.cont \in Waiting
<1>1. Placed(s[k]) /\ s[k] \in Stages
  BY GoodFacts DEF GoodChain
<1>2. s[k].sp \in Nat /\ ptr \in Nat
  BY <1>1 DEF Stages, Depths, SwitchInv, TypeOK
<1>3. s[k].level # ptr => s[k].level \in 0 .. ptr - 1
  BY <1>1, <1>2 DEF Placed
<1> QED BY <1>1, <1>2, <1>3 DEF Placed, LevelCont, LevelSp, Waiting

Grown(t, s)  == Len(t) = Len(s) + 1 /\ \A k \in 1 .. Len(s) : t[k] = s[k]
Shrunk(t, s) == Len(t) = Len(s) - 1 /\ \A k \in 1 .. Len(s) - 2 : t[k] = s[k]
Beside(t, s) == Len(t) = Len(s) /\ \A k \in 1 .. Len(s) - 1 : t[k] = s[k]

LEMMA ContainerCallChain ==
  ASSUME AllowLoops = FALSE, SwitchInv, SwitchInv', NEW s, GoodChain(s),
         NEW d \in Containers, NEW v \in Values, ContainerCall(d, v)
  PROVE  /\ \E t : GoodChain(t)' /\ Grown(t, s)
         /\ act'.cont = d /\ act'.kind = "fn" /\ act'.fp = Frame(d, sp', usp') /\ r0' = v
         /\ \A k \in 1 .. Len(s) : s[k].act.cont # d
<1>0. TypeOK
  BY DEF SwitchInv
<1>1. PICK c0, frame : c0 = curr_id /\ frame = context[d].cur_sp
  OBVIOUS
<1>2. /\ Room /\ ~StackFull /\ d # c0 /\ c0 \in Containers /\ ~halted /\ ~halted'
      /\ Push(curr_id, sp + 2, ie, d) /\ irq_act' = irq_act /\ irq_pri' = irq_pri
      /\ d \notin Waiting
  BY <1>0, <1>1 DEF ContainerCall, CallTarget, CallerObeys, TypeOK, irq
<1>3. PICK entry : entry = [cont |-> d, kind |-> "fn",
                            fp |-> Frame(d, frame - 2, mem[d][frame].usp)]
  OBVIOUS
<1>4. /\ mem' = [SaveCallee EXCEPT ![d][frame - 1] = ExcCell(entry, v, context[d].cpu_status)]
      /\ Resume(d, frame)
  BY <1>1, <1>3 DEF ContainerCall
<1>5. frame \in 2 .. StackCells /\ frame \in 1 .. StackCells /\ frame - 1 \in 1 .. StackCells
      /\ frame - 2 \in Nat /\ frame # frame - 1
  <2>1. context[d] \in Contexts /\ frame >= 2
    BY <1>0, <1>1, <1>2 DEF SwitchInv, TypeOK, ContextsHaveFrame
  <2> QED BY <2>1, NumbersAssumption, <1>1 DEF Contexts, Depths
<1>6. /\ SaveCallee \in [Containers -> [1 .. StackCells -> Cells]]
      /\ sp \in Nat /\ sp + 1 \in 1 .. StackCells /\ sp + 2 \in 1 .. StackCells
      /\ \A c \in Containers, j \in 1 .. StackCells :
           SaveCallee[c][j] =
             IF c = c0 /\ j = sp + 1 THEN ExcCell(act, r0, ie)
             ELSE IF c = c0 /\ j = sp + 2 THEN CalleeCell(usp)
             ELSE mem[c][j]
  BY <1>0, <1>1, <1>2, SaveCalleeCells
<1>7. /\ mem'[d][frame - 1] = ExcCell(entry, v, context[d].cpu_status)
      /\ \A c \in Containers, j \in 1 .. StackCells :
           ~(c = d /\ j = frame - 1) => mem'[c][j] = SaveCallee[c][j]
  BY <1>4, <1>5, <1>6
<1>8. act' = entry /\ r0' = v /\ sp' = frame - 2 /\ usp' = mem'[d][frame].usp
  <2>1. act' = mem'[d][frame - 1].act /\ r0' = mem'[d][frame - 1].r0
        /\ sp' = frame - 2 /\ usp' = mem'[d][frame].usp
    BY <1>4 DEF Resume
  <2> QED BY <1>7, <2>1 DEF ExcCell
<1>9. mem'[d][frame] = mem[d][frame]
  BY <1>1, <1>2, <1>5, <1>6, <1>7
<1>10. act'.cont = d /\ act'.kind = "fn" /\ act'.fp = Frame(d, sp', usp') /\ r0' = v
  BY <1>3, <1>8, <1>9
<1>11. \A k \in 1 .. Len(s) : s[k].act.cont # d
  BY <1>1, <1>2, GoodPlaces
<1>12. mem'[c0][sp + 1] = ExcCell(act, r0, ie) /\ mem'[c0][sp + 2] = CalleeCell(usp)
  <2>1. sp + 2 # sp + 1
    BY <1>6
  <2> QED BY <1>2, <1>6, <1>7, <2>1
<1>13. /\ Retained(ptr) /\ ptr' = ptr + 1 /\ ptr \in 0 .. MaxDepth - 1
       /\ stack'[ptr].src_id = c0 /\ stack'[ptr].src_sp = sp + 2
  <2>1. \A n \in 0 .. ptr - 1 : stack[n].src_id # d
    BY <1>2 DEF Waiting
  <2>2. \A c \in Containers, j \in 1 .. StackCells :
          \/ c = c0 /\ (j = sp + 1 \/ j = sp + 2)
          \/ c # c0 /\ \A n \in 0 .. ptr - 1 : stack[n].src_id # c
          \/ mem'[c][j] = mem[c][j]
    BY <1>2, <1>6, <1>7, <2>1
  <2>3. sp' \in Nat
    BY <1>5, <1>8
  <2> QED BY <1>1, <1>2, <2>2, <2>3, RetainedPush
<1>14. PICK top : top = Running'
  OBVIOUS
<1>15. /\ top.act = act' /\ top.level = ptr + 1 /\ top.sp = sp' /\ top.usp = usp'
       /\ ptr \in Nat
  BY <1>13, <1>14 DEF Running
<1>16. Under(top)' = Running
  BY <1>6, <1>10, <1>12, <1>13, <1>15, PushedUnder
<1>17. Formed(top) /\ ~IsHandler(top) /\ top.act.kind = "fn"
  <2>1. act'.fp \in Nat
    BY DEF SwitchInv, TypeOK, Activities, Depths
  <2> QED BY <1>10, <1>15, <2>1 DEF Formed, IsHandler
<1>18. \A k \in 1 .. Len(s) : Above(s[k], top)
  <2> TAKE k \in 1 .. Len(s)
  <2>1. s[k].level \in 0 .. ptr /\ s[k].act.cont # d
    BY <1>11, GoodPlaces
  <2>2. s[k].level # top.level
    BY <1>15, <2>1
  <2> QED BY <1>10, <1>15, <2>1, <2>2 DEF Above
<1>19. ptr' = ptr + IF top.act.kind = "direct" THEN 0 ELSE 1
  BY <1>13, <1>17
<1>20. \E t : /\ GoodChain(t)' /\ Len(t) = Len(s) + 1
              /\ \A k \in 1 .. Len(s) : t[k] = s[k]
  <2>1. /\ ~halted /\ ~halted' /\ irq_pri' = irq_pri /\ Retained(ptr)
        /\ top.act.kind # "main"
    BY <1>2, <1>13, <1>17
  <2>2. IF IsHandler(top) THEN \E i \in Irqs : Accepted(i) /\ irq_act' = irq_act \cup {irq_pri[i]}
                          ELSE irq_act' = irq_act
    BY <1>2, <1>17
  <2> HIDE DEF IsHandler
  <2> QED BY <1>14, <1>16, <1>17, <1>18, <1>19, <2>1, <2>2, EnterChain
<1> QED BY <1>10, <1>11, <1>20 DEF Grown

LEMMA InterruptSwitchChain ==
  ASSUME SwitchInv, SwitchInv', NEW s, GoodChain(s), NEW i \in Irqs, InterruptSwitch(i)
  PROVE  /\ \E t : GoodChain(t)' /\ Grown(t, s)
         /\ act'.cont \in Containers /\ act'.kind = "isr" /\ act'.fp = Frame(act'.cont, sp', usp')
         /\ r0' = 0 /\ ie
<1>0. TypeOK
  BY DEF SwitchInv
<1>1. PICK c0, d : c0 = curr_id /\ d = table[i].id
  OBVIOUS
<1>2. /\ d \in Containers /\ Pushing(d, ie, {}) /\ act'.kind = "isr" /\ act'.cont = d
      /\ mem' = SaveCallee /\ act'.fp = Frame(d, sp', usp')
  BY <1>0, <1>1, InterruptSwitchPushes DEF Pushing
<1>3. /\ Room /\ ~StackFull /\ c0 \in Containers /\ Push(curr_id, sp + 2, ie, d)
      /\ Accepted(i) /\ irq_act' = irq_act \cup {irq_pri[i]} /\ irq_pri' = irq_pri
      /\ ~halted /\ ~halted' /\ r0' = 0 /\ ie
  <2>1. /\ Accepted(i) /\ irq_act' = irq_act \cup {irq_pri[i]} /\ irq_pri' = irq_pri
        /\ ~StackFull /\ r0' = 0 /\ halted' = halted /\ Push(curr_id, sp + 2, ie, d)
    BY <1>1, Zenon DEF InterruptSwitch
  <2>2. Room /\ ~halted /\ ie
    BY <2>1, Zenon DEF Accepted
  <2> QED BY <1>0, <1>1, <2>1, <2>2 DEF TypeOK
<1>4. /\ sp \in Nat /\ sp + 1 \in 1 .. StackCells /\ sp + 2 \in 1 .. StackCells
      /\ \A c \in Containers, j \in 1 .. StackCells :
           mem'[c][j] =
             IF c = c0 /\ j = sp + 1 THEN ExcCell(act, r0, ie)
             ELSE IF c = c0 /\ j = sp + 2 THEN CalleeCell(usp)
             ELSE mem[c][j]
  BY <1>0, <1>1, <1>2, <1>3, SaveCalleeCells
<1>5. mem'[c0][sp + 1] = ExcCell(act, r0, ie) /\ mem'[c0][sp + 2] = CalleeCell(usp)
  <2>1. sp + 2 # sp + 1
    BY <1>4
  <2> QED BY <1>3, <1>4, <2>1
<1>6. /\ Retained(ptr) /\ ptr' = ptr + 1 /\ ptr \in 0 .. MaxDepth - 1
      /\ stack'[ptr].src_id = c0 /\ stack'[ptr].src_sp = sp + 2
  <2>1. \A c \in Containers, j \in 1 .. StackCells :
          \/ c = c0 /\ (j = sp + 1 \/ j = sp + 2)
          \/ c # c0 /\ \A n \in 0 .. ptr - 1 : stack[n].src_id # c
          \/ mem'[c][j] = mem[c][j]
    BY <1>4
  <2>2. sp' \in Nat
    BY <1>2 DEF Pushing
  <2>3. Room /\ ~StackFull
    BY <1>3
  <2>4. PICK status, e : status = ie /\ e = d /\ Push(curr_id, sp + 2, status, e)
    BY <1>3
  <2>5. c0 = curr_id
    BY <1>1
  <2> QED BY <2>1, <2>2, <2>3, <2>4, <2>5, RetainedPush
<1>7. PICK top : top = Running'
  OBVIOUS
<1>8. /\ top.act = act' /\ top.level = ptr + 1 /\ top.sp = sp' /\ top.usp = usp'
      /\ ptr \in Nat
  BY <1>6, <1>7 DEF Running
<1>9. Under(top)' = Running
  BY <1>2, <1>4, <1>5, <1>6, <1>8, PushedUnder
<1>10. Formed(top) /\ IsHandler(top) /\ top.act.kind = "isr"
  <2>1. act'.fp \in Nat
    BY DEF SwitchInv, TypeOK, Activities, Depths
  <2> QED BY <1>2, <1>8, <2>1 DEF Formed, IsHandler
<1>11. \A k \in 1 .. Len(s) : Above(s[k], top)
  <2> TAKE k \in 1 .. Len(s)
  <2>1. s[k].level \in 0 .. ptr
    BY GoodPlaces
  <2>2. s[k].level # top.level
    BY <1>8, <2>1
  <2> QED BY <1>10, <2>2 DEF Above
<1>12. ptr' = ptr + IF top.act.kind = "direct" THEN 0 ELSE 1
  BY <1>6, <1>10
<1>13. \E t : /\ GoodChain(t)' /\ Len(t) = Len(s) + 1
              /\ \A k \in 1 .. Len(s) : t[k] = s[k]
  <2>1. /\ ~halted /\ ~halted' /\ irq_pri' = irq_pri /\ Retained(ptr)
        /\ top.act.kind # "main"
    BY <1>3, <1>6, <1>10
  <2>2. IF IsHandler(top) THEN \E j \in Irqs : Accepted(j) /\ irq_act' = irq_act \cup {irq_pri[j]}
                          ELSE irq_act' = irq_act
    BY <1>3, <1>10
  <2> HIDE DEF IsHandler
  <2> QED BY <1>7, <1>9, <1>10, <1>11, <1>12, <2>1, <2>2, EnterChain
<1> QED BY <1>2, <1>3, <1>13 DEF Grown

LEMMA InterruptDirectChain ==
  ASSUME SwitchInv, SwitchInv', NEW s, GoodChain(s), NEW i \in Irqs, InterruptDirect(i)
  PROVE  /\ \E t : GoodChain(t)' /\ Grown(t, s)
         /\ act'.cont \in Containers /\ act'.kind = "direct" /\ act'.fp = Frame(act'.cont, sp', usp')
         /\ r0' = 0 /\ ie
<1>0. TypeOK
  BY DEF SwitchInv
<1>1. PICK c0 : c0 = curr_id
  OBVIOUS
<1>2. /\ Accepted(i) /\ irq_act' = irq_act \cup {irq_pri[i]} /\ irq_pri' = irq_pri
      /\ halted' = halted /\ r0' = 0 /\ IsSecure(c0) /\ mem' = SaveExc
      /\ act' = [cont |-> c0, kind |-> "direct", fp |-> sp + 1] /\ sp' = sp + 1
      /\ usp' = usp /\ UNCHANGED <<stack, ptr, curr_id>>
  BY <1>1, Zenon DEF InterruptDirect, chain
<1>3. Room /\ ~halted /\ ie
  BY <1>2, Zenon DEF Accepted
<1>4. /\ sp + 1 \in 1 .. StackCells /\ sp \in Nat /\ ptr \in Nat /\ c0 \in Containers
      /\ mem'[c0][sp + 1] = ExcCell(act, r0, ie)
      /\ \A c \in Containers, j \in 1 .. StackCells :
           ~(c = c0 /\ j = sp + 1) => mem'[c][j] = mem[c][j]
  <2>1. ptr \in Nat /\ c0 \in Containers
    BY <1>0, <1>1 DEF TypeOK
  <2>2. mem' = SaveExc
    BY <1>2
  <2> QED BY <1>0, <1>1, <1>3, <2>1, <2>2, SaveExcCells
<1>5. Retained(ptr)
  BY <1>1, <1>2, <1>4, RetainedHere
<1>6. PICK top : top = Running'
  OBVIOUS
<1>7. /\ top.act = act' /\ top.level = ptr /\ top.sp = sp + 1 /\ top.usp = usp
      /\ top.act.cont = c0 /\ top.act.kind = "direct" /\ top.act.fp = sp + 1
  BY <1>2, <1>6 DEF Running
<1>8. Under(top)' = Running
  <2>1. PICK k : k = sp + 1
    OBVIOUS
  <2>2. k - 1 = sp
    BY <1>4, <2>1
  <2>3. /\ ExcCell(act, r0, ie).act = act /\ ExcCell(act, r0, ie).r0 = r0
        /\ ExcCell(act, r0, ie).ie = ie
    BY DEF ExcCell
  <2>4. Under(top)' = [act |-> mem'[c0][k].act, sp |-> k - 1, usp |-> usp,
                       r0 |-> mem'[c0][k].r0, ie |-> mem'[c0][k].ie, level |-> ptr]
    BY <1>7, <2>1 DEF Under, UnderHandler
  <2> QED BY <1>4, <2>1, <2>2, <2>3, <2>4 DEF Running
<1>9. Formed(top) /\ IsHandler(top)
  BY <1>2, <1>4, <1>7 DEF Formed, Frame, IsHandler
<1>10. \A k \in 1 .. Len(s) : Above(s[k], top)
  <2> TAKE k \in 1 .. Len(s)
  <2>1. s[k].sp \in Nat /\ (s[k].level = ptr => s[k].sp <= sp)
    BY GoodPlaces
  <2>2. s[k].level = top.level => s[k].sp < top.act.fp
    BY <1>4, <1>7, <2>1
  <2> QED BY <1>7, <1>9, <2>2 DEF Above
<1>11. ptr' = ptr + IF top.act.kind = "direct" THEN 0 ELSE 1
  BY <1>2, <1>4, <1>7
<1>12. \E t : /\ GoodChain(t)' /\ Len(t) = Len(s) + 1
              /\ \A k \in 1 .. Len(s) : t[k] = s[k]
  <2>1. ~halted' /\ top.act.kind # "main"
    BY <1>2, <1>3, <1>7
  <2>2. IF IsHandler(top) THEN \E j \in Irqs : Accepted(j) /\ irq_act' = irq_act \cup {irq_pri[j]}
                          ELSE irq_act' = irq_act
    BY <1>2, <1>9
  <2>3. irq_pri' = irq_pri /\ ~halted
    BY <1>2, <1>3
  <2> HIDE DEF IsHandler
  <2> QED BY <1>5, <1>6, <1>8, <1>9, <1>10, <1>11, <2>1, <2>2, <2>3, EnterChain
<1>13. act'.cont \in Containers /\ act'.kind = "direct" /\ act'.fp = Frame(act'.cont, sp', usp')
  BY <1>2, <1>4 DEF Frame
<1> QED BY <1>2, <1>3, <1>12, <1>13 DEF Grown

(* The stage under the running one, which the step goes back to but for    *)
(* the result in r0.                                                       *)
Resumed ==
  /\ act' = Under(Running).act /\ sp' = Under(Running).sp /\ usp' = Under(Running).usp
  /\ ie' = Under(Running).ie /\ ptr' = Under(Running).level

LEMMA DirectReturnChain ==
  ASSUME SwitchInv, SwitchInv', NEW s, GoodChain(s), DirectReturn
  PROVE  /\ \E t : GoodChain(t)' /\ Shrunk(t, s)
         /\ Resumed /\ r0' = Under(Running).r0 /\ act.fp = LocalsSp
<1>0. TypeOK
  BY DEF SwitchInv
<1>1. /\ ~halted /\ act.kind = "direct" /\ sp = act.fp /\ irq_act' = irq_act \ Served
      /\ act' = mem[curr_id][sp].act /\ r0'  = mem[curr_id][sp].r0
      /\ ie'  = mem[curr_id][sp].ie /\ sp'  = sp - 1 /\ usp' = usp
      /\ UNCHANGED <<mem, stack, ptr, curr_id, halted, irq_pri>>
  BY DEF DirectReturn, chain
<1>2. act.cont = curr_id /\ IsSecure(act.cont)
  BY <1>1 DEF SwitchInv, ActiveIsRunning, ActivitiesSound, Sound
<1>3. Under(Running) = [act |-> mem[curr_id][sp].act, sp |-> sp - 1, usp |-> usp,
                        r0 |-> mem[curr_id][sp].r0, ie |-> mem[curr_id][sp].ie, level |-> ptr]
  BY <1>1, <1>2 DEF Under, UnderHandler, Running
<1>4. Resumed /\ r0' = Under(Running).r0
  BY <1>1, <1>3 DEF Resumed
<1>5. Retained(ptr)
  BY <1>1, RetainedHere
<1>6. PICK top : top = Running'
  OBVIOUS
<1>7. Leaves(top, ptr)
  <2>1. top.act = act' /\ top.sp = sp' /\ top.usp = usp' /\ top.level = ptr'
    BY <1>6 DEF Running
  <2>2. IsHandler(Running)
    BY <1>1 DEF IsHandler, Running
  <2> QED BY <1>1, <1>4, <2>1, <2>2 DEF Leaves, Resumed
<1>8. \E t : /\ GoodChain(t)' /\ Len(t) = Len(s) - 1
             /\ \A k \in 1 .. Len(s) - 2 : t[k] = s[k]
  <2>1. ~halted' /\ irq_pri' = irq_pri /\ act.kind # "main" /\ ~halted
    BY <1>1
  <2> QED BY <1>5, <1>6, <1>7, <2>1, LeaveChain
<1>9. act.fp = LocalsSp
  BY <1>1, <1>2 DEF LocalsSp, Frame
<1> QED BY <1>4, <1>8, <1>9 DEF Shrunk

(* Both returns that pop the container stack.                              *)
Popped(src, k) ==
  /\ ptr # 0 /\ src = stack[ptr - 1].src_id /\ k = stack[ptr - 1].src_sp
  /\ stack' = stack /\ ptr' = ptr - 1 /\ curr_id' = src /\ sp' = k - 2
  /\ act' = mem[src][k - 1].act /\ ie' = mem[src][k - 1].ie /\ usp' = mem[src][k].usp
  /\ irq_act' = IF IsHandler(Running) THEN irq_act \ Served ELSE irq_act
  /\ irq_pri' = irq_pri /\ ~halted /\ ~halted'
LEMMA PopChain ==
  ASSUME SwitchInv, SwitchInv', NEW s, GoodChain(s), act.kind \in {"fn", "isr"},
         NEW src, NEW k, NEW c0, c0 = curr_id, Popped(src, k),
         \A c \in Containers, j \in 1 .. StackCells :
           \/ c = c0 /\ (j = sp + 1 \/ j = sp + 2)
           \/ c = src /\ j = k - 1
           \/ mem'[c][j] = mem[c][j]
  PROVE  /\ \E t : GoodChain(t)' /\ Shrunk(t, s)
         /\ Resumed /\ Under(Running).r0 = mem[src][k - 1].r0
<1>1. Under(Running) = [act |-> mem[src][k - 1].act, sp |-> k - 2, usp |-> mem[src][k].usp,
                        r0 |-> mem[src][k - 1].r0, ie |-> mem[src][k - 1].ie,
                        level |-> ptr - 1]
  BY DEF Popped, Under, UnderEntry, Running
<1>2. Resumed
  BY <1>1 DEF Resumed, Popped
<1>3. Retained(ptr - 1)
  <2>1. /\ ptr # 0 /\ src = stack[ptr - 1].src_id /\ k = stack[ptr - 1].src_sp
        /\ stack' = stack /\ ptr' = ptr - 1 /\ curr_id' = src /\ sp' = k - 2
    BY DEF Popped
  <2> QED BY <2>1, RetainedPop
<1>4. PICK top : top = Running'
  OBVIOUS
<1>5. PICK m : m = ptr - 1
  OBVIOUS
<1>6. Leaves(top, m)
  <2>1. top.act = act' /\ top.sp = sp' /\ top.usp = usp' /\ top.level = ptr'
    BY <1>4 DEF Running
  <2> QED BY <1>2, <1>5, <2>1 DEF Leaves, Resumed, Popped
<1>7. \E t : /\ GoodChain(t)' /\ Len(t) = Len(s) - 1
             /\ \A j \in 1 .. Len(s) - 2 : t[j] = s[j]
  <2>1. ~halted' /\ irq_pri' = irq_pri /\ act.kind # "main" /\ ~halted
    BY DEF Popped
  <2>2. Retained(m)
    BY <1>3, <1>5
  <2> QED BY <1>4, <1>6, <2>1, <2>2, LeaveChain
<1>8. Under(Running).r0 = mem[src][k - 1].r0
  BY <1>1
<1> QED BY <1>2, <1>7, <1>8 DEF Shrunk

(* The cells the entry on top of the container stack points to are not     *)
(* touched when the running activity's registers are saved.                *)
LEMMA EntrySaved ==
  ASSUME SwitchInv, Room, ptr # 0, NEW src, NEW k, NEW c0, c0 = curr_id,
         src = stack[ptr - 1].src_id, k = stack[ptr - 1].src_sp
  PROVE  /\ src \in Containers /\ k \in 2 .. StackCells
         /\ k \in 1 .. StackCells /\ k - 1 \in 1 .. StackCells /\ k # k - 1
         /\ SaveCallee \in [Containers -> [1 .. StackCells -> Cells]]
         /\ SaveCallee[src][k] = mem[src][k] /\ SaveCallee[src][k - 1] = mem[src][k - 1]
         /\ \A c \in Containers, j \in 1 .. StackCells :
              (c = c0 /\ (j = sp + 1 \/ j = sp + 2)) \/ SaveCallee[c][j] = mem[c][j]
<1>0. TypeOK
  BY DEF SwitchInv
<1>1. ptr - 1 \in 0 .. ptr - 1 /\ sp \in Nat
  BY <1>0 DEF TypeOK, Depths
<1>2. src \in Containers /\ k \in 2 .. StackCells /\ (src = c0 => k <= sp)
  BY <1>1, EntryFacts
<1>3. k \in 1 .. StackCells /\ k - 1 \in 1 .. StackCells /\ k # k - 1
  BY <1>2, NumbersAssumption
<1>4. /\ SaveCallee \in [Containers -> [1 .. StackCells -> Cells]]
      /\ \A c \in Containers, j \in 1 .. StackCells :
           SaveCallee[c][j] =
             IF c = c0 /\ j = sp + 1 THEN ExcCell(act, r0, ie)
             ELSE IF c = c0 /\ j = sp + 2 THEN CalleeCell(usp)
             ELSE mem[c][j]
  BY <1>0, SaveCalleeCells
<1>5. src = c0 => k # sp + 1 /\ k # sp + 2 /\ k - 1 # sp + 1 /\ k - 1 # sp + 2
  BY <1>1, <1>2
<1>6. SaveCallee[src][k] = mem[src][k] /\ SaveCallee[src][k - 1] = mem[src][k - 1]
  BY <1>2, <1>3, <1>4, <1>5
<1>7. \A c \in Containers, j \in 1 .. StackCells :
        (c = c0 /\ (j = sp + 1 \/ j = sp + 2)) \/ SaveCallee[c][j] = mem[c][j]
  BY <1>4
<1> QED BY <1>2, <1>3, <1>4, <1>6, <1>7

LEMMA IntReturnChain ==
  ASSUME SwitchInv, SwitchInv', NEW s, GoodChain(s), IntReturn
  PROVE  /\ \E t : GoodChain(t)' /\ Shrunk(t, s)
         /\ Resumed /\ r0' = Under(Running).r0
<1>1. PICK src, k, c0 : src = stack[ptr - 1].src_id /\ k = stack[ptr - 1].src_sp /\ c0 = curr_id
  OBVIOUS
<1>2. /\ ~halted /\ Room /\ act.kind = "isr" /\ ptr # 0 /\ irq_act' = irq_act \ Served
      /\ mem' = SaveCallee /\ irq_pri' = irq_pri /\ halted' = halted
      /\ Pop(curr_id, sp, ie) /\ Resume(src, k)
  BY <1>1 DEF IntReturn
<1>3. /\ src \in Containers /\ mem'[src][k] = mem[src][k] /\ mem'[src][k - 1] = mem[src][k - 1]
      /\ \A c \in Containers, j \in 1 .. StackCells :
           (c = c0 /\ (j = sp + 1 \/ j = sp + 2)) \/ mem'[c][j] = mem[c][j]
  BY <1>1, <1>2, EntrySaved
<1>4. /\ stack' = stack /\ ptr' = ptr - 1 /\ curr_id' = src /\ sp' = k - 2
      /\ act' = mem[src][k - 1].act /\ ie' = mem[src][k - 1].ie
      /\ usp' = mem[src][k].usp /\ r0' = mem[src][k - 1].r0
  BY <1>1, <1>2, <1>3 DEF Pop, Resume
<1>5. Popped(src, k)
  BY <1>1, <1>2, <1>4 DEF Popped, IsHandler, Running
<1>6. act.kind \in {"fn", "isr"}
  BY <1>2
<1>7. \A c \in Containers, j \in 1 .. StackCells :
        \/ c = c0 /\ (j = sp + 1 \/ j = sp + 2)
        \/ c = src /\ j = k - 1
        \/ mem'[c][j] = mem[c][j]
  BY <1>3
<1>8. /\ \E t : GoodChain(t)' /\ Shrunk(t, s)
      /\ Resumed /\ Under(Running).r0 = mem[src][k - 1].r0
  BY <1>1, <1>5, <1>6, <1>7, PopChain
<1> QED BY <1>4, <1>8

LEMMA CallReturnChain ==
  ASSUME SwitchInv, SwitchInv', NEW s, GoodChain(s), CallReturn
  PROVE  /\ \E t : GoodChain(t)' /\ Shrunk(t, s)
         /\ Resumed /\ r0' = r0
<1>1. PICK src, k, c0 : src = stack[ptr - 1].src_id /\ k = stack[ptr - 1].src_sp /\ c0 = curr_id
  OBVIOUS
<1>2. /\ ~halted /\ Room /\ act.kind = "fn" /\ ptr # 0 /\ irq_act' = irq_act
      /\ mem' = [SaveCallee EXCEPT ![src][k - 1].r0 = r0] /\ irq_pri' = irq_pri
      /\ halted' = halted /\ Pop(curr_id, sp + 2, ie) /\ Resume(src, k)
  BY <1>1 DEF CallReturn, irq
<1>3. /\ src \in Containers /\ k \in 1 .. StackCells /\ k - 1 \in 1 .. StackCells /\ k # k - 1
      /\ SaveCallee \in [Containers -> [1 .. StackCells -> Cells]]
      /\ SaveCallee[src][k] = mem[src][k] /\ SaveCallee[src][k - 1] = mem[src][k - 1]
      /\ \A c \in Containers, j \in 1 .. StackCells :
           (c = c0 /\ (j = sp + 1 \/ j = sp + 2)) \/ SaveCallee[c][j] = mem[c][j]
  BY <1>1, <1>2, EntrySaved
<1>4. /\ mem'[src][k - 1] = [mem[src][k - 1] EXCEPT !.r0 = r0] /\ mem'[src][k] = mem[src][k]
      /\ \A c \in Containers, j \in 1 .. StackCells :
           ~(c = src /\ j = k - 1) => mem'[c][j] = SaveCallee[c][j]
  <2>1. PICK S : S = SaveCallee
    OBVIOUS
  <2>2. S \in [Containers -> [1 .. StackCells -> Cells]]
        /\ mem' = [S EXCEPT ![src][k - 1].r0 = r0]
    BY <1>2, <1>3, <2>1
  <2>3. /\ mem'[src][k - 1] = [S[src][k - 1] EXCEPT !.r0 = r0]
        /\ \A c \in Containers, j \in 1 .. StackCells :
             ~(c = src /\ j = k - 1) => mem'[c][j] = S[c][j]
    BY <1>3, <2>2
  <2> QED BY <1>3, <2>1, <2>3
<1>5. mem[src][k - 1] \in Cells
  <2>1. mem \in [Containers -> [1 .. StackCells -> Cells]]
    BY DEF SwitchInv, TypeOK
  <2>2. src \in Containers /\ k - 1 \in 1 .. StackCells
    BY <1>3
  <2> QED BY <2>1, <2>2
<1>6. /\ mem'[src][k - 1].act = mem[src][k - 1].act /\ mem'[src][k - 1].ie = mem[src][k - 1].ie
      /\ mem'[src][k - 1].r0 = r0
  <2>1. PICK f \in Cells : f = mem[src][k - 1]
    BY <1>5
  <2>2. /\ [f EXCEPT !.r0 = r0].act = f.act /\ [f EXCEPT !.r0 = r0].ie = f.ie
        /\ [f EXCEPT !.r0 = r0].r0 = r0
    BY DEF Cells
  <2>3. mem'[src][k - 1] = [f EXCEPT !.r0 = r0]
    BY <1>4, <2>1
  <2> QED BY <2>1, <2>2, <2>3
<1>7. /\ stack' = stack /\ ptr' = ptr - 1 /\ curr_id' = src /\ sp' = k - 2
      /\ act' = mem[src][k - 1].act /\ ie' = mem[src][k - 1].ie
      /\ usp' = mem[src][k].usp /\ r0' = r0
  BY <1>1, <1>2, <1>4, <1>6 DEF Pop, Resume
<1>8. Popped(src, k)
  BY <1>1, <1>2, <1>7 DEF Popped, IsHandler, Running
<1>9. act.kind \in {"fn", "isr"}
  BY <1>2
<1>10. \A c \in Containers, j \in 1 .. StackCells :
        \/ c = c0 /\ (j = sp + 1 \/ j = sp + 2)
        \/ c = src /\ j = k - 1
        \/ mem'[c][j] = mem[c][j]
  BY <1>3, <1>4
<1>11. /\ \E t : GoodChain(t)' /\ Shrunk(t, s)
       /\ Resumed
  BY <1>1, <1>8, <1>9, <1>10, PopChain
<1> QED BY <1>7, <1>11

-----------------------------------------------------------------------------
(* The steps that neither enter nor leave an activity: only the running    *)
(* one changes, in its registers and the size of its locals.               *)
OwnWork(v, e, n) ==
  /\ r0' = v /\ ie' = e /\ act' = act /\ n \in {-1, 0, 1}
  /\ Frame(act.cont, sp', usp') = LocalsSp + n

LEMMA StayOnTop ==
  ASSUME SwitchInv, SwitchInv', NEW s, GoodChain(s),
         UNCHANGED <<act, stack, ptr, curr_id, irq_pri, irq_act>>,
         IsSecure(act.cont) => usp' = usp, act.fp <= Frame(act.cont, sp', usp'),
         \A c \in Containers, j \in 1 .. StackCells :
           ~(c = curr_id /\ j = sp + 1) => mem'[c][j] = mem[c][j],
         ~halted' => ~halted
  PROVE  \E t : GoodChain(t)' /\ Beside(t, s)
<1>1. irq_act' \subseteq Pending /\ irq_act \subseteq irq_act'
  BY DEF GoodChain, Counted
<1>2. \E t : /\ GoodChain(t)' /\ Len(t) = Len(s)
             /\ \A k \in 1 .. Len(s) - 1 : t[k] = s[k]
  BY <1>1, StayChain
<1> QED BY <1>2 DEF Beside

(* Nothing of the container moves.                                         *)
LEMMA RestOnTop ==
  ASSUME SwitchInv, SwitchInv', NEW s, GoodChain(s),
         UNCHANGED <<act, sp, usp, stack, ptr, curr_id, irq_pri, irq_act>>,
         \/ mem' = mem
         \/ Room /\ mem' = SaveExc,
         ~halted' => ~halted
  PROVE  (\E t : GoodChain(t)' /\ Beside(t, s)) /\ Frame(act.cont, sp', usp') = LocalsSp
<1>1. act.fp <= Frame(act.cont, sp', usp') /\ Frame(act.cont, sp', usp') = LocalsSp
  <2>1. Formed(Running)
    BY GoodFacts
  <2> QED BY <2>1 DEF Formed, Running, LocalsSp, Frame
<1>2. \A c \in Containers, j \in 1 .. StackCells :
        ~(c = curr_id /\ j = sp + 1) => mem'[c][j] = mem[c][j]
  <2>1. CASE mem' = mem
    BY <2>1
  <2>2. CASE Room /\ mem' = SaveExc
    <3>1. TypeOK
      BY DEF SwitchInv
    <3> QED BY <2>2, <3>1, SaveExcCells
  <2> QED BY <2>1, <2>2
<1> QED BY <1>1, <1>2, StayOnTop

LEMMA ComputeChain ==
  ASSUME SwitchInv, SwitchInv', NEW s, GoodChain(s),
         NEW v \in Values, Compute(v)
  PROVE  (\E t : GoodChain(t)' /\ Beside(t, s)) /\ OwnWork(v, ie, 0)
<1>1. /\ UNCHANGED <<act, sp, usp, stack, ptr, curr_id, irq_pri, irq_act, mem, halted>>
      /\ r0' = v /\ ie' = ie
  BY DEF Compute, irq, chain
<1>2. (\E t : GoodChain(t)' /\ Beside(t, s)) /\ Frame(act.cont, sp', usp') = LocalsSp
  BY <1>1, RestOnTop
<1>3. LocalsSp \in Int
  BY DEF LocalsSp, Frame, SwitchInv, TypeOK, Depths
<1> QED BY <1>1, <1>2, <1>3 DEF OwnWork

LEMMA ToggleChain ==
  ASSUME SwitchInv, SwitchInv', NEW s, GoodChain(s), ToggleInterrupts
  PROVE  (\E t : GoodChain(t)' /\ Beside(t, s)) /\ OwnWork(r0, ~ie, 0)
<1>1. /\ UNCHANGED <<act, sp, usp, stack, ptr, curr_id, irq_pri, irq_act, mem, halted>>
      /\ r0' = r0
  BY DEF ToggleInterrupts, irq, chain
<1>2. (\E t : GoodChain(t)' /\ Beside(t, s)) /\ Frame(act.cont, sp', usp') = LocalsSp
  BY <1>1, RestOnTop
<1>3. LocalsSp \in Int
  BY DEF LocalsSp, Frame, SwitchInv, TypeOK, Depths
<1>4. ie' = ~ie
  BY DEF ToggleInterrupts
<1> QED BY <1>1, <1>2, <1>3, <1>4 DEF OwnWork

LEMMA PushLocalChain ==
  ASSUME SwitchInv, SwitchInv', NEW s, GoodChain(s), PushLocal
  PROVE  (\E t : GoodChain(t)' /\ Beside(t, s)) /\ OwnWork(r0, ie, 1)
<1>1. /\ UNCHANGED <<act, r0, ie, stack, ptr, curr_id, irq_pri, irq_act, halted>>
      /\ ~halted
  BY DEF PushLocal, irq, chain
<1>2. /\ act.cont = curr_id /\ sp \in Nat /\ usp \in Nat /\ act.fp \in Nat
      /\ act.cont \in Containers /\ mem \in [Containers -> [1 .. StackCells -> Cells]]
  <2>1. act \in Activities
    BY DEF SwitchInv, TypeOK
  <2> QED BY <2>1 DEF SwitchInv, ActiveIsRunning, TypeOK, Activities, Depths
<1>3. act.fp <= LocalsSp /\ LocalsSp \in Nat
  <2>1. Formed(Running)
    BY GoodFacts
  <2> QED BY <1>2, <2>1 DEF Formed, Running, LocalsSp, Frame
<1>4. /\ Frame(act.cont, sp', usp') = LocalsSp + 1
      /\ IsSecure(act.cont) => usp' = usp
      /\ \A c \in Containers, j \in 1 .. StackCells :
           ~(c = curr_id /\ j = sp + 1) => mem'[c][j] = mem[c][j]
  <2>1. CASE IsSecure(act.cont)
    <3>1. /\ sp' = sp + 1 /\ usp' = usp
          /\ mem' = [mem EXCEPT ![act.cont][sp + 1] = LocalCell]
      BY <2>1 DEF PushLocal
    <3> QED BY <1>2, <2>1, <3>1 DEF LocalsSp, Frame
  <2>2. CASE ~IsSecure(act.cont)
    BY <2>2 DEF PushLocal, LocalsSp, Frame
  <2> QED BY <2>1, <2>2
<1>5. act.fp <= Frame(act.cont, sp', usp')
  BY <1>2, <1>3, <1>4
<1>6. \E t : GoodChain(t)' /\ Beside(t, s)
  BY <1>1, <1>4, <1>5, StayOnTop
<1> QED BY <1>1, <1>4, <1>6 DEF OwnWork

LEMMA PopLocalChain ==
  ASSUME SwitchInv, SwitchInv', NEW s, GoodChain(s), PopLocal
  PROVE  (\E t : GoodChain(t)' /\ Beside(t, s)) /\ OwnWork(r0, ie, -1)
<1>1. /\ UNCHANGED <<act, r0, ie, mem, stack, ptr, curr_id, irq_pri, irq_act, halted>>
      /\ ~halted /\ LocalsSp > act.fp
  BY DEF PopLocal, irq, chain
<1>2. sp \in Nat /\ usp \in Nat /\ act.fp \in Nat
  <2>1. act \in Activities
    BY DEF SwitchInv, TypeOK
  <2> QED BY <2>1 DEF SwitchInv, TypeOK, Activities, Depths
<1>3. LocalsSp \in Nat
  BY <1>2 DEF LocalsSp, Frame
<1>4. /\ Frame(act.cont, sp', usp') = LocalsSp - 1
      /\ IsSecure(act.cont) => usp' = usp
  BY DEF PopLocal, LocalsSp, Frame
<1>5. act.fp <= Frame(act.cont, sp', usp') /\ LocalsSp - 1 = LocalsSp + (-1)
  BY <1>1, <1>2, <1>3, <1>4
<1>6. \E t : GoodChain(t)' /\ Beside(t, s)
  BY <1>1, <1>4, <1>5, StayOnTop
<1> QED BY <1>1, <1>4, <1>5, <1>6 DEF OwnWork

(* Steps the containers do not see, and those that halt the processor.     *)
SameView ==
  act' = act /\ r0' = r0 /\ ie' = ie /\ Frame(act.cont, sp', usp') = LocalsSp

LEMMA RestChain ==
  ASSUME SwitchInv, SwitchInv', NEW s, GoodChain(s),
         \/ UNCHANGED vars
         \/ CallInInterrupt
         \/ \E d \in Containers : CallHalt(d)
         \/ \E i \in Irqs : InterruptNotInstalled(i)
  PROVE  (\E t : GoodChain(t)' /\ Beside(t, s)) /\ SameView
<1>1. CASE UNCHANGED vars
  <2>1. UNCHANGED <<act, sp, usp, r0, ie, stack, ptr, curr_id, irq_pri, irq_act, mem, halted>>
    BY <1>1 DEF vars, cpu, irq, chain
  <2> QED BY <2>1, RestOnTop DEF SameView
<1>2. CASE CallInInterrupt
  <2>1. /\ UNCHANGED <<act, sp, usp, r0, ie, stack, ptr, curr_id, irq_pri, irq_act, halted>>
        /\ Room /\ mem' = SaveExc
    BY <1>2 DEF CallInInterrupt, cpu, irq, chain
  <2> QED BY <2>1, RestOnTop DEF SameView
<1>3. CASE \E d \in Containers : CallHalt(d)
  <2>1. /\ UNCHANGED <<act, sp, usp, r0, ie, stack, ptr, curr_id, irq_pri, irq_act>>
        /\ Room /\ mem' = SaveExc /\ halted'
    BY <1>3 DEF CallHalt, cpu, irq, chain
  <2> QED BY <2>1, RestOnTop DEF SameView
<1>4. CASE \E i \in Irqs : InterruptNotInstalled(i)
  <2>1. PICK i \in Irqs : InterruptNotInstalled(i)
    BY <1>4
  <2>2. Accepted(i)
    BY <2>1 DEF InterruptNotInstalled
  <2>3. /\ UNCHANGED <<act, sp, usp, r0, ie, stack, ptr, curr_id, irq_pri, irq_act, halted>>
        /\ mem' = SaveExc
    BY <2>1 DEF InterruptNotInstalled, cpu, chain
  <2>4. Room
    BY <2>2, Zenon DEF Accepted
  <2> QED BY <2>3, <2>4, RestOnTop DEF SameView
<1> QED BY <1>1, <1>2, <1>3, <1>4

LEMMA InterruptHaltChain ==
  ASSUME SwitchInv, SwitchInv', NEW s, GoodChain(s), NEW i \in Irqs, InterruptHalt(i)
  PROVE  (\E t : GoodChain(t)' /\ Beside(t, s)) /\ SameView
<1>0. TypeOK
  BY DEF SwitchInv
<1>1. /\ UNCHANGED <<act, sp, usp, r0, ie, stack, ptr, curr_id, irq_pri>>
      /\ Accepted(i) /\ mem' = SaveExc /\ halted' /\ irq_act' = irq_act \cup {irq_pri[i]}
  BY DEF InterruptHalt, cpu
<1>2. Room
  BY <1>1, Zenon DEF Accepted
<1>3. \A c \in Containers, j \in 1 .. StackCells :
        ~(c = curr_id /\ j = sp + 1) => mem'[c][j] = mem[c][j]
  <2>1. mem' = SaveExc
    BY <1>1
  <2> QED BY <1>0, <1>2, <2>1, SaveExcCells
<1>4. irq_act' \subseteq Pending /\ irq_act \subseteq irq_act'
  <2>1. irq_act \subseteq Pending
    BY DEF GoodChain, Counted
  <2>2. irq_pri[i] \in Pending
    BY DEF Pending
  <2> QED BY <1>1, <2>1, <2>2
<1>5. act.fp <= Frame(act.cont, sp', usp') /\ Frame(act.cont, sp', usp') = LocalsSp
  <2>1. Formed(Running)
    BY GoodFacts
  <2> QED BY <1>1, <2>1 DEF Formed, Running, LocalsSp, Frame
<1>6. \E t : /\ GoodChain(t)' /\ Len(t) = Len(s)
             /\ \A k \in 1 .. Len(s) - 1 : t[k] = s[k]
  <2>1. UNCHANGED <<act, stack, ptr, curr_id, irq_pri>>
    BY <1>1
  <2>2. usp' = usp /\ halted'
    BY <1>1
  <2> QED BY <1>3, <1>4, <1>5, <2>1, <2>2, StayChain
<1> QED BY <1>1, <1>5, <1>6 DEF Beside, SameView

(* What a step of the runtime does to the chain.                           *)
Rests(t, s)  == Beside(t, s) /\ SameView
Works(t, s)  ==
  /\ ~halted /\ ~halted' /\ Beside(t, s)
  /\ \E v \in Values, e \in BOOLEAN, n \in {-1, 0, 1} : OwnWork(v, e, n)
Calls(t, s)  ==
  /\ ~halted /\ ~halted' /\ Grown(t, s) /\ irq_act = {}
  /\ act'.kind = "fn" /\ act'.cont \in Containers /\ act'.fp = Frame(act'.cont, sp', usp')
  /\ r0' \in Values /\ \A k \in 1 .. Len(s) : s[k].act.cont # act'.cont
Serves(t, s) ==
  /\ ~halted /\ ~halted' /\ Grown(t, s) /\ ie
  /\ act'.kind \in {"isr", "direct"} /\ act'.cont \in Containers
  /\ act'.fp = Frame(act'.cont, sp', usp') /\ r0' = 0
Returns(t, s) ==
  /\ ~halted /\ ~halted' /\ Shrunk(t, s) /\ act.kind = "fn" /\ act.fp = LocalsSp
  /\ Resumed /\ r0' = r0
Resumes(t, s) ==
  /\ ~halted /\ ~halted' /\ Shrunk(t, s) /\ act.kind \in {"isr", "direct"}
  /\ act.fp = LocalsSp /\ Resumed /\ r0' = Under(Running).r0
Moves(t, s) ==
  \/ Rests(t, s) /\ (halted => halted')
  \/ Works(t, s) \/ Calls(t, s) \/ Serves(t, s) \/ Returns(t, s) \/ Resumes(t, s)

LEMMA StepChain ==
  ASSUME AllowLoops = FALSE, SwitchInv, SwitchInv', [Next]_vars, NEW s, GoodChain(s)
  PROVE  \E t : GoodChain(t)' /\ Moves(t, s)
<1>0. ie \in BOOLEAN /\ (~ie) \in BOOLEAN /\ r0 \in Values /\ halted \in BOOLEAN
  BY DEF SwitchInv, TypeOK
<1>1. CASE \/ UNCHANGED vars
           \/ CallInInterrupt
           \/ \E d \in Containers : CallHalt(d)
           \/ \E i \in Irqs : InterruptNotInstalled(i)
  <2>1. halted => halted'
    BY <1>1 DEF vars, CallInInterrupt, CallHalt, InterruptNotInstalled
  <2>2. (\E t : GoodChain(t)' /\ Beside(t, s)) /\ SameView
    BY <1>1, RestChain
  <2> QED BY <2>1, <2>2 DEF Moves, Rests
<1>2. ASSUME NEW i \in Irqs, InterruptHalt(i)
      PROVE  \E t : GoodChain(t)' /\ Moves(t, s)
  <2>1. halted'
    BY <1>2 DEF InterruptHalt
  <2>2. (\E t : GoodChain(t)' /\ Beside(t, s)) /\ SameView
    BY <1>2, InterruptHaltChain
  <2> QED BY <2>1, <2>2 DEF Moves, Rests
<1>3. ASSUME NEW v \in Values, Compute(v)
      PROVE  \E t : GoodChain(t)' /\ Moves(t, s)
  <2>1. ~halted /\ ~halted'
    BY <1>3 DEF Compute
  <2>2. (\E t : GoodChain(t)' /\ Beside(t, s)) /\ OwnWork(v, ie, 0)
    BY <1>3, ComputeChain
  <2> QED BY <1>0, <2>1, <2>2 DEF Moves, Works
<1>4. CASE PushLocal
  <2>1. ~halted /\ ~halted'
    BY <1>4 DEF PushLocal
  <2>2. (\E t : GoodChain(t)' /\ Beside(t, s)) /\ OwnWork(r0, ie, 1)
    BY <1>4, PushLocalChain
  <2> QED BY <1>0, <2>1, <2>2 DEF Moves, Works
<1>5. CASE PopLocal
  <2>1. ~halted /\ ~halted'
    BY <1>5 DEF PopLocal
  <2>2. (\E t : GoodChain(t)' /\ Beside(t, s)) /\ OwnWork(r0, ie, -1)
    BY <1>5, PopLocalChain
  <2> QED BY <1>0, <2>1, <2>2 DEF Moves, Works
<1>6. CASE ToggleInterrupts
  <2>1. ~halted /\ ~halted'
    BY <1>6 DEF ToggleInterrupts
  <2>2. (\E t : GoodChain(t)' /\ Beside(t, s)) /\ OwnWork(r0, ~ie, 0)
    BY <1>6, ToggleChain
  <2> QED BY <1>0, <2>1, <2>2 DEF Moves, Works
<1>7. ASSUME NEW d \in Containers, NEW v \in Values, ContainerCall(d, v)
      PROVE  \E t : GoodChain(t)' /\ Moves(t, s)
  <2>1. ~halted /\ ~halted' /\ irq_act = {}
    BY <1>7 DEF ContainerCall
  <2>2. /\ \E t : GoodChain(t)' /\ Grown(t, s)
        /\ act'.cont = d /\ act'.kind = "fn" /\ act'.fp = Frame(d, sp', usp') /\ r0' = v
        /\ \A k \in 1 .. Len(s) : s[k].act.cont # d
    BY <1>7, ContainerCallChain
  <2>3. \A t : Grown(t, s) => Calls(t, s)
    BY <2>1, <2>2 DEF Calls
  <2> QED BY <2>2, <2>3 DEF Moves
<1>8. CASE CallReturn
  <2>1. ~halted /\ ~halted' /\ act.kind = "fn" /\ act.fp = LocalsSp
    BY <1>8 DEF CallReturn
  <2>2. (\E t : GoodChain(t)' /\ Shrunk(t, s)) /\ Resumed /\ r0' = r0
    BY <1>8, CallReturnChain
  <2> QED BY <2>1, <2>2 DEF Moves, Returns
<1>9. ASSUME NEW i \in Irqs, InterruptDirect(i)
      PROVE  \E t : GoodChain(t)' /\ Moves(t, s)
  <2>1. ~halted /\ ~halted'
    BY <1>9 DEF InterruptDirect, Accepted
  <2>2. /\ \E t : GoodChain(t)' /\ Grown(t, s)
        /\ act'.cont \in Containers /\ act'.kind = "direct"
        /\ act'.fp = Frame(act'.cont, sp', usp') /\ r0' = 0 /\ ie
    BY <1>9, InterruptDirectChain
  <2>3. \A t : Grown(t, s) => Serves(t, s)
    BY <2>1, <2>2 DEF Serves
  <2> QED BY <2>2, <2>3 DEF Moves
<1>10. ASSUME NEW i \in Irqs, InterruptSwitch(i)
       PROVE  \E t : GoodChain(t)' /\ Moves(t, s)
  <2>1. ~halted /\ ~halted'
    <3>1. Accepted(i) /\ halted' = halted
      BY <1>10, Zenon DEF InterruptSwitch
    <3> QED BY <3>1, Zenon DEF Accepted
  <2>2. /\ \E t : GoodChain(t)' /\ Grown(t, s)
        /\ act'.cont \in Containers /\ act'.kind = "isr"
        /\ act'.fp = Frame(act'.cont, sp', usp') /\ r0' = 0 /\ ie
    BY <1>10, InterruptSwitchChain
  <2>3. \A t : Grown(t, s) => Serves(t, s)
    BY <2>1, <2>2 DEF Serves
  <2> QED BY <2>2, <2>3 DEF Moves
<1>11. CASE DirectReturn
  <2>1. ~halted /\ ~halted' /\ act.kind = "direct"
    BY <1>11 DEF DirectReturn
  <2>2. /\ \E t : GoodChain(t)' /\ Shrunk(t, s)
        /\ Resumed /\ r0' = Under(Running).r0 /\ act.fp = LocalsSp
    BY <1>11, DirectReturnChain
  <2> QED BY <2>1, <2>2 DEF Moves, Resumes
<1>12. CASE IntReturn
  <2>1. ~halted /\ ~halted' /\ act.kind = "isr" /\ act.fp = LocalsSp
    BY <1>12 DEF IntReturn
  <2>2. /\ \E t : GoodChain(t)' /\ Shrunk(t, s)
        /\ Resumed /\ r0' = Under(Running).r0
    BY <1>12, IntReturnChain
  <2> QED BY <2>1, <2>2 DEF Moves, Resumes
<1> QED BY <1>1, <1>2, <1>3, <1>4, <1>5, <1>6, <1>7, <1>8, <1>9, <1>10, <1>11, <1>12, Zenon
        DEF Next, Halted

(* The background container runs first, with nothing under it.             *)
LEMMA InitChain == ASSUME Init, SwitchInv PROVE GoodChain(<<Running>>)
<1>1. /\ act = Main /\ sp = 0 /\ usp = 0 /\ r0 = 0 /\ ie = TRUE /\ irq_act = {}
      /\ ptr = 0 /\ curr_id = 0
  BY DEF Init, Background
<1>2. Running \in Stages
  BY NumbersAssumption DEF SwitchInv, TypeOK, Running, Stages
<1>3. PICK s : s = <<Running>>
  OBVIOUS
<1>4. s \in Seq(Stages) /\ Len(s) = 1 /\ s[1] = Running /\ s # <<>>
  BY <1>2, <1>3
<1>5. \A k \in 1 .. Len(s) : k = 1
  BY <1>4
<1>6. /\ Running.act = Main /\ Running.level = 0 /\ Running.sp = 0 /\ Running.usp = 0
      /\ Main.kind = "main" /\ Main.fp = 0 /\ Main.cont = 0
  BY <1>1 DEF Running, Main
<1>7. IsChain(s)
  <2>1. \A k \in 2 .. Len(s) : FALSE
    BY <1>4
  <2> QED BY <1>4, <1>6, <2>1 DEF IsChain, IsFirst
<1>8. Ordered(s)
  <2>1. Formed(Running) /\ Running.act.kind = "main"
    BY <1>6 DEF Formed, Frame
  <2>2. \A j, k \in 1 .. Len(s) : ~(j < k)
    BY <1>5
  <2> QED BY <1>4, <1>5, <2>1, <2>2 DEF Ordered
<1>9. Counted(s)
  <2>1. Handlers(s) = {} /\ Directs(s) = {}
    BY <1>4, <1>5, <1>6 DEF Handlers, Directs, IsHandler
  <2>2. Cardinality({}) = 0
    BY FS_EmptySet
  <2> QED BY <1>1, <1>4, <2>1, <2>2 DEF Counted
<1>10. Placed(Running)
  BY <1>1, <1>6 DEF Placed, LevelCont, LevelSp
<1>11. GoodChain(s)
  BY <1>4, <1>5, <1>7, <1>8, <1>9, <1>10 DEF GoodChain
<1> QED BY <1>3, <1>11

-----------------------------------------------------------------------------
(* What follows from a good chain.                                         *)

(* It is the chain the refinement reads.                                   *)
ReadsBack ==
  \A s : SwitchInv /\ GoodChain(s) =>
           Chain = s /\ Nest = [k \in 1 .. Len(s) |-> View(s[k])]
LEMMA NestIs == ReadsBack
<1> SUFFICES ASSUME SwitchInv, NEW s, GoodChain(s)
             PROVE  Chain = s /\ Nest = [k \in 1 .. Len(s) |-> View(s[k])]
  BY DEF ReadsBack
<1>1. /\ s \in Seq(Stages) /\ Len(s) \in Nat /\ DOMAIN s = 1 .. Len(s)
      /\ ptr \in Nat /\ Cardinality(irq_act) \in Nat
  BY GoodFacts
<1>2. Len(s) <= ptr + 1 + Cardinality(irq_act)
  <2>1. /\ Cardinality(Directs(s)) \in Nat /\ Cardinality(Handlers(s)) \in Nat
        /\ Cardinality(Directs(s)) <= Cardinality(Handlers(s))
    BY <1>1, HandlersFinite
  <2>2. Counted(s)
    BY DEF GoodChain
  <2> QED BY <1>1, <2>1, <2>2 DEF Counted
<1>3. Chain = s
  BY <1>1, <1>2, ChainUnrolls DEF GoodChain
<1>4. Views[s] = [k \in 1 .. Len(s) |-> View(s[k])]
  BY <1>1 DEF Views
<1> QED BY <1>3, <1>4 DEF Nest

(* The activities that are not handlers are of different containers, and   *)
(* every level of the container stack but those of handlers is theirs.     *)
LEMMA LevelsOf ==
  ASSUME SwitchInv, NEW s, GoodChain(s), NEW C \in SUBSET Containers,
         \A k \in 1 .. Len(s) : ~IsHandler(s[k]) => s[k].act.cont \in C
  PROVE  /\ Cardinality(C) \in Nat /\ ptr \in Nat /\ Cardinality(irq_act) \in Nat
         /\ ptr + 1 <= Cardinality(C) + Cardinality(irq_act)
<1>1. Len(s) \in Nat /\ ptr \in Nat /\ Cardinality(irq_act) \in Nat
  BY GoodFacts
<1>2. IsFiniteSet(C) /\ Cardinality(C) \in Nat
  <2>1. IsFiniteSet(C)
    BY FiniteAssumption, FS_Subset
  <2> QED BY <2>1, FS_CardinalityType
<1> DEFINE P == (1 .. Len(s)) \ Handlers(s)
           f == [k \in P |-> s[k].act.cont]
<1>3. Cardinality(P) <= Cardinality(C)
  <2>1. \A k \in P : k \in 1 .. Len(s) /\ ~IsHandler(s[k]) /\ k \in Int
    BY DEF Handlers
  <2>2. \A j, k \in P : j < k => s[j].act.cont # s[k].act.cont
    <3> TAKE j, k \in P
    <3> HAVE j < k
    <3>1. Above(s[j], s[k])
      BY <2>1 DEF GoodChain, Ordered
    <3> QED BY <2>1, <3>1 DEF Above
  <2>3. \A j, k \in P : s[j].act.cont = s[k].act.cont => j = k
    <3> TAKE j, k \in P
    <3> HAVE s[j].act.cont = s[k].act.cont
    <3>1. ~(j < k) /\ ~(k < j)
      BY <2>2
    <3> QED BY <2>1, <3>1
  <2>4. \A k \in P : s[k].act.cont \in C
    BY <2>1
  <2> HIDE DEF P
  <2>5. f \in Injection(P, C)
    BY <2>3, <2>4 DEF Injection, IsInjective
  <2> HIDE DEF f
  <2> QED BY <1>2, <2>5, FS_Injection
<1>4. Cardinality(P) = Len(s) - Cardinality(Handlers(s))
  <2>1. PICK n \in Nat : n = Len(s)
    BY <1>1
  <2>2. IsFiniteSet(1 .. n) /\ Cardinality(1 .. n) = n
    <3>1. /\ IsFiniteSet(1 .. n)
          /\ Cardinality(1 .. n) = IF 1 > n THEN 0 ELSE n - 1 + 1
      BY FS_Interval
    <3>2. (IF 1 > n THEN 0 ELSE n - 1 + 1) = n
      OBVIOUS
    <3> QED BY <3>1, <3>2
  <2>3. (1 .. n) \cap Handlers(s) = Handlers(s) /\ P = (1 .. n) \ Handlers(s)
    <3>1. Handlers(s) \subseteq 1 .. n
      BY <2>1 DEF Handlers
    <3>2. P = (1 .. n) \ Handlers(s)
      BY <2>1
    <3> QED BY <3>1, <3>2
  <2> HIDE DEF P
  <2>4. Cardinality(P) = n - Cardinality(Handlers(s))
    <3>1. PICK I, H : I = 1 .. n /\ H = Handlers(s)
      OBVIOUS
    <3>2. IsFiniteSet(I) /\ Cardinality(I) = n /\ I \cap H = H /\ P = I \ H
      BY <2>2, <2>3, <3>1
    <3>3. Cardinality(I \ H) = Cardinality(I) - Cardinality(I \cap H)
      BY <3>2, FS_Difference, Zenon
    <3> QED BY <3>1, <3>2, <3>3
  <2> QED BY <2>1, <2>4
<1> HIDE DEF P
<1>5. /\ Cardinality(Directs(s)) \in Nat /\ Cardinality(Handlers(s)) \in Nat
  BY <1>1, HandlersFinite
<1>6. /\ Len(s) = ptr + 1 + Cardinality(Directs(s))
      /\ Cardinality(Handlers(s)) <= Cardinality(irq_act)
  BY DEF GoodChain, Counted
<1>7. ptr + 1 <= Cardinality(C) + Cardinality(irq_act)
  <2>1. PICK n \in Nat, h \in Nat, d \in Nat, c \in Nat, a \in Nat :
          /\ n = Len(s) /\ h = Cardinality(Handlers(s)) /\ d = Cardinality(Directs(s))
          /\ c = Cardinality(C) /\ a = Cardinality(irq_act)
    BY <1>1, <1>2, <1>5
  <2>2. n - h <= c /\ n = ptr + 1 + d /\ h <= a
    BY <1>3, <1>4, <1>6, <2>1
  <2>3. ptr + 1 <= c + a
    BY <1>1, <2>2
  <2> QED BY <2>1, <2>3
<1> QED BY <1>1, <1>2, <1>7

(* Calls are made only outside of interrupts, so an activity that is not a *)
(* handler is of a container of its own: the container stack cannot be     *)
(* fuller than the containers and the interrupts being served make it.     *)
LEMMA ChainBounds ==
  ASSUME AllowLoops = FALSE, SwitchInv, NEW s, GoodChain(s) PROVE DepthBound
<1>0. TypeOK /\ irq_act \subseteq Pending
  BY DEF SwitchInv, GoodChain, Counted
<1>1. PICK n \in Nat, a \in Nat, p \in Nat :
        n = Cardinality(Containers) /\ a = Cardinality(irq_act) /\ p = Cardinality(Pending)
  <2>1. Cardinality(Containers) \in Nat
    BY FiniteAssumption, FS_CardinalityType
  <2>2. Pending \subseteq Pending
    OBVIOUS
  <2> QED BY <1>0, <2>1, <2>2, PendingFinite
<1>2. ptr \in Nat /\ ptr + 1 <= n + a
  <2>1. \A k \in 1 .. Len(s) : s[k].act.cont \in Containers
    <3> TAKE k \in 1 .. Len(s)
    <3>1. s[k] \in Stages
      BY GoodFacts
    <3> QED BY <3>1 DEF Stages, Activities
  <2> QED BY <1>1, <2>1, LevelsOf
<1>3. ptr <= n - 1 + a
  BY <1>2
<1>4. ASSUME n - 1 + p <= MaxDepth, StackFull, irq_act = {},
             NEW d \in Containers, CallTarget(d), CallerObeys(d)
      PROVE  FALSE
  <2>1. d # curr_id /\ d \notin Waiting
    BY <1>4 DEF CallTarget, CallerObeys
  <2> DEFINE C == Containers \ {d}
  <2>2. \A k \in 1 .. Len(s) : s[k].act.cont \in C
    <3> TAKE k \in 1 .. Len(s)
    <3>1. s[k] \in Stages
      BY GoodFacts
    <3>2. s[k].act.cont \in Containers
      BY <3>1 DEF Stages, Activities
    <3>3. s[k].act.cont = curr_id \/ s[k].act.cont \in Waiting
      BY GoodPlaces
    <3> QED BY <2>1, <3>2, <3>3
  <2>3. ptr + 1 <= Cardinality(C) + a
    <3> HIDE DEF C
    <3>1. C \in SUBSET Containers
      BY DEF C
    <3> QED BY <1>1, <2>2, <3>1, LevelsOf
  <2>4. Cardinality(C) = n - 1
    BY <1>1, FiniteAssumption, FS_RemoveElement
  <2>5. a = 0
    BY <1>1, <1>4, FS_EmptySet
  <2> HIDE DEF C
  <2>6. ptr = MaxDepth
    BY <1>4 DEF StackFull
  <2> QED BY <1>1, <1>2, <1>4, <2>3, <2>4, <2>5, <2>6
<1>5. ASSUME n - 1 + p <= MaxDepth, StackFull, NEW i \in Irqs, Accepted(i)
      PROVE  FALSE
  <2>1. irq_act \cup {irq_pri[i]} \subseteq Pending
        /\ Cardinality(irq_act \cup {irq_pri[i]}) = a + 1
    BY <1>0, <1>1, <1>5, BitSet
  <2>2. a + 1 <= p
    <3>1. IsFiniteSet(Pending)
      BY <1>0, PendingFinite
    <3> QED BY <1>1, <2>1, <3>1, FS_Subset
  <2>3. ptr = MaxDepth
    BY <1>5 DEF StackFull
  <2> QED BY <1>2, <1>3, <1>5, <2>2, <2>3
<1>6. n - 1 + p <= MaxDepth => ~Overflows
  BY <1>4, <1>5, Zenon DEF Overflows
<1> QED BY <1>1, <1>3, <1>6 DEF DepthBound, Pending

(* A bit of AUX_IRQ_ACT for every unfinished handler.                      *)
LEMMA ChainNesting ==
  ASSUME SwitchInv, NEW s, GoodChain(s) PROVE IrqActIsNesting
<1>1. Nest = [k \in 1 .. Len(s) |-> View(s[k])]
  BY NestIs DEF ReadsBack
<1>2. DOMAIN Nest = 1 .. Len(s) /\ \A k \in 1 .. Len(s) : Nest[k] = View(s[k])
  BY <1>1
<1>3. \A k \in 1 .. Len(s) : Nest[k].kind = "isr" <=> IsHandler(s[k])
  BY <1>2 DEF View, IsHandler
<1>4. {k \in DOMAIN Nest : Nest[k].kind = "isr"} = Handlers(s)
  BY <1>2, <1>3, Zenon DEF Handlers
<1>5. ~halted => Cardinality(Handlers(s)) = Cardinality(irq_act)
  BY DEF GoodChain, Counted
<1> QED BY <1>4, <1>5 DEF IrqActIsNesting

(* What is under an interface function is in the container below it on the *)
(* container stack.                                                        *)
LEMMA ChainCaller ==
  ASSUME SwitchInv, NEW s, GoodChain(s) PROVE CallerIsWaiting
<1> SUFFICES ASSUME act.kind = "fn" PROVE CallerId = Nest[Len(Nest) - 1].cont
  BY DEF CallerIsWaiting
<1>1. /\ Len(s) \in Nat /\ Len(s) >= 1 /\ Len(s) # 1 /\ ptr \in Nat
      /\ Len(s) >= 2 => s[Len(s) - 1] = Under(Running) /\ ~IsFirst(Running)
  BY GoodFacts
<1>2. PICK n \in Nat : n = Len(s)
  BY <1>1
<1>3. n >= 2 /\ n - 1 \in 1 .. Len(s)
  BY <1>1, <1>2
<1>4. s[n - 1] = Under(Running) /\ ~IsFirst(Running)
  BY <1>1, <1>2, <1>3
<1>5. Running.act = act /\ Running.level = ptr
  BY DEF Running
<1>6. ptr # 0 /\ ptr - 1 \in 0 .. ptr - 1 /\ ~(ptr < 1)
  BY <1>1, <1>4, <1>5 DEF IsFirst
<1>7. Under(Running).act = mem[stack[ptr - 1].src_id][stack[ptr - 1].src_sp - 1].act
  BY <1>5 DEF Under, UnderEntry
<1>8. Under(Running).act.cont = stack[ptr - 1].src_id
  BY <1>6, <1>7 DEF SwitchInv, FramesIntact
<1>9. CallerId = stack[ptr - 1].src_id
  BY <1>6 DEF CallerId
<1>10. Nest = [k \in 1 .. Len(s) |-> View(s[k])]
  BY NestIs DEF ReadsBack
<1>11. Len(Nest) = Len(s) /\ Nest[n - 1] = View(s[n - 1])
  BY <1>1, <1>3, <1>10
<1>12. Nest[Len(Nest) - 1].cont = s[n - 1].act.cont
  BY <1>2, <1>11 DEF View
<1> QED BY <1>4, <1>8, <1>9, <1>12

ChainInv == SwitchInv /\ \E s : GoodChain(s)

LEMMA ChainFromInit == Init => ChainInv
BY InitInv, InitChain DEF ChainInv

LEMMA ChainStep == ASSUME AllowLoops = FALSE, ChainInv, [Next]_vars PROVE ChainInv'
<1>1. SwitchInv /\ SwitchInv'
  BY SwitchStep DEF ChainInv
<1>2. PICK s : GoodChain(s)
  BY DEF ChainInv
<1>3. \E t : GoodChain(t)'
  BY <1>1, <1>2, StepChain
<1> QED BY <1>1, <1>3 DEF ChainInv

LEMMA ChainIsGood == ASSUME AllowLoops = FALSE PROVE Spec => []ChainInv
<1>1. ChainInv /\ [Next]_vars => ChainInv'
  BY ChainStep
<1> QED BY <1>1, ChainFromInit, PTL DEF Spec

(* The container stack never holds more than an entry per container that   *)
(* waits and per interrupt being served; where it has room for these, the  *)
(* overflow check of container_stack_push never fires.                     *)
THEOREM DepthIsBounded == ASSUME AllowLoops = FALSE PROVE Spec => []DepthBound
<1>1. ChainInv => DepthBound
  BY ChainBounds DEF ChainInv
<1> QED BY <1>1, ChainIsGood, PTL

(* Until the runtime halts, AUX_IRQ_ACT has one bit for every handler of   *)
(* the chain that has not returned.                                        *)
THEOREM IrqActCountsHandlers == ASSUME AllowLoops = FALSE PROVE Spec => []IrqActIsNesting
<1>1. ChainInv => IrqActIsNesting
  BY ChainNesting DEF ChainInv
<1> QED BY <1>1, ChainIsGood, PTL

(* secure_container_id_caller answers with the container whose activity is *)
(* under the running interface function, whatever came in between.         *)
THEOREM CallerIdIsWaiting == ASSUME AllowLoops = FALSE PROVE Spec => []CallerIsWaiting
<1>1. ChainInv => CallerIsWaiting
  BY ChainCaller DEF ChainInv
<1> QED BY <1>1, ChainIsGood, PTL

-----------------------------------------------------------------------------
(* The refinement: every step of the runtime is one of ContainerCalls on   *)
(* what the containers see of the chain, or none.                          *)

LEMMA RunningView ==
  ASSUME NEW top, top = Running'
  PROVE  /\ View(top).cont = act'.cont /\ View(top).r0 = r0' /\ View(top).ie = ie'
         /\ View(top).kind = IF act'.kind = "direct" THEN "isr" ELSE act'.kind
         /\ View(top).locals = Frame(act'.cont, sp', usp') - act'.fp
         /\ View(top) = [cont |-> View(top).cont, kind |-> View(top).kind,
                         locals |-> View(top).locals, r0 |-> r0', ie |-> ie']
<1>1. /\ top.act = act' /\ top.sp = sp' /\ top.usp = usp' /\ top.r0 = r0' /\ top.ie = ie'
  BY DEF Running
<1> QED BY <1>1 DEF View

(* The two chains a step relates, the view of one beside that of the other. *)
Relates(t, s, W, V, top) ==
  /\ top = Running' /\ GoodChain(s) /\ GoodChain(t)' /\ Moves(t, s)
  /\ Len(s) \in Nat /\ Len(t) \in Nat /\ Len(s) >= 1 /\ Len(t) >= 1
  /\ s[Len(s)] = Running /\ t[Len(t)] = top
  /\ V = [k \in 1 .. Len(s) |-> View(s[k])] /\ W = [k \in 1 .. Len(t) |-> View(t[k])]
  /\ Len(V) = Len(s) /\ Len(W) = Len(t)
  /\ Nest = V /\ Nest' = W
  /\ \A k \in 1 .. Len(s) : V[k] = View(s[k])
  /\ \A k \in 1 .. Len(t) : W[k] = View(t[k])

LEMMA StepRelates ==
  ASSUME AllowLoops = FALSE, ChainInv, [Next]_vars
  PROVE  \E s, t, V, W, top : Relates(t, s, W, V, top)
<1>0. SwitchInv /\ SwitchInv'
  BY SwitchStep DEF ChainInv
<1>1. PICK s : GoodChain(s)
  BY DEF ChainInv
<1>2. PICK t : GoodChain(t)' /\ Moves(t, s)
  BY <1>0, <1>1, StepChain
<1>3. PICK V, W, top : /\ V = [k \in 1 .. Len(s) |-> View(s[k])]
                       /\ W = [k \in 1 .. Len(t) |-> View(t[k])]
                       /\ top = Running'
  OBVIOUS
<1>4. Len(s) \in Nat /\ Len(s) >= 1 /\ s[Len(s)] = Running
  BY <1>0, <1>1, GoodFacts
<1>5. Len(t) \in Nat /\ Len(t) >= 1 /\ t[Len(t)] = top
  <2>1. IsChain(t)'
    BY <1>2 DEF GoodChain
  <2>2. t \in Seq(Stages) /\ t # <<>> /\ t[Len(t)] = Running'
    BY <2>1 DEF IsChain
  <2>3. Len(t) \in Nat \ {0}
    BY <2>2, EmptySeq
  <2> QED BY <1>3, <2>2, <2>3
<1>6. Nest = V
  BY <1>0, <1>1, <1>3, NestIs DEF ReadsBack
<1>7. Nest' = W
  <2>1. ReadsBack'
    BY NestIs, PTL
  <2>2. SwitchInv' /\ GoodChain(t)' => Nest' = [k \in 1 .. Len(t) |-> View(t[k])]
    BY <2>1 DEF ReadsBack
  <2> QED BY <1>0, <1>2, <1>3, <2>2
<1>8. Len(V) = Len(s) /\ Len(W) = Len(t)
  BY <1>3, <1>4, <1>5
<1>9. /\ \A k \in 1 .. Len(s) : V[k] = View(s[k])
      /\ \A k \in 1 .. Len(t) : W[k] = View(t[k])
  BY <1>3
<1>10. Relates(t, s, W, V, top)
  BY <1>1, <1>2, <1>3, <1>4, <1>5, <1>6, <1>7, <1>8, <1>9 DEF Relates
<1> QED BY <1>10

LEMMA InitImplements == Init => Abstract!Init
<1> SUFFICES ASSUME Init PROVE Abstract!Init
  OBVIOUS
<1>1. SwitchInv /\ GoodChain(<<Running>>)
  BY InitInv, InitChain
<1>2. Nest = [k \in 1 .. Len(<<Running>>) |-> View(<<Running>>[k])]
  BY <1>1, NestIs DEF ReadsBack
<1>3. Nest = <<View(Running)>>
  <2>1. Len(<<Running>>) = 1 /\ <<Running>>[1] = Running
    OBVIOUS
  <2>2. PICK V : V = View(Running)
    OBVIOUS
  <2>3. \A k \in 1 .. 1 : View(<<Running>>[k]) = V
    BY <2>1, <2>2
  <2>4. Nest = [k \in 1 .. 1 |-> V]
    BY <1>2, <2>1, <2>3
  <2>5. <<V>> = [k \in 1 .. 1 |-> V]
    OBVIOUS
  <2> QED BY <2>2, <2>4, <2>5
<1>4. act = Main /\ sp = 0 /\ usp = 0 /\ r0 = 0 /\ ie = TRUE /\ halted = FALSE
  BY DEF Init
<1>5. View(Running) = [cont |-> 0, kind |-> "main", locals |-> 0, r0 |-> 0, ie |-> TRUE]
  <2>1. PICK x : x = Running
    OBVIOUS
  <2>2. /\ x.act.cont = 0 /\ x.act.kind = "main" /\ x.act.fp = 0
        /\ x.sp = 0 /\ x.usp = 0 /\ x.r0 = 0 /\ x.ie = TRUE
    BY <1>4, <2>1 DEF Running, Main
  <2>3. Frame(0, 0, 0) - 0 = 0
    BY DEF Frame
  <2>4. View(x) = [cont |-> 0, kind |-> "main", locals |-> Frame(0, 0, 0) - 0, r0 |-> 0,
                   ie |-> TRUE]
    BY <2>2 DEF View
  <2> QED BY <2>1, <2>3, <2>4
<1> QED BY <1>3, <1>4, <1>5 DEF Abstract!Init

LEMMA RestsImplement ==
  ASSUME NEW s, NEW t, NEW V, NEW W, NEW top, Relates(t, s, W, V, top),
         Rests(t, s), halted => halted', halted \in BOOLEAN, halted' \in BOOLEAN
  PROVE  Abstract!Next \/ UNCHANGED <<Nest, halted>>
<1>1. Len(t) = Len(s) /\ \A k \in 1 .. Len(s) - 1 : t[k] = s[k]
  BY DEF Rests, Beside
<1>2. View(top) = View(Running)
  <2>1. act' = act /\ r0' = r0 /\ ie' = ie /\ Frame(act.cont, sp', usp') = LocalsSp
    BY DEF Rests, SameView
  <2>2. top = Running'
    BY DEF Relates
  <2>3. /\ top.act = act /\ top.r0 = r0 /\ top.ie = ie
        /\ Frame(top.act.cont, top.sp, top.usp) = Frame(act.cont, sp, usp)
    BY <2>1, <2>2 DEF Running, LocalsSp
  <2> QED BY <2>3 DEF View, Running
<1>3. \A k \in 1 .. Len(s) : View(t[k]) = View(s[k])
  <2> TAKE k \in 1 .. Len(s)
  <2>1. CASE k = Len(s)
    BY <1>1, <1>2, <2>1 DEF Relates
  <2>2. CASE k # Len(s)
    <3>1. k \in 1 .. Len(s) - 1
      <4>1. PICK n \in Nat : n = Len(s)
        BY DEF Relates
      <4>2. k \in 1 .. n /\ k # n
        BY <2>2, <4>1
      <4>3. k \in 1 .. n - 1
        BY <4>2
      <4> QED BY <4>1, <4>3
    <3> QED BY <1>1, <3>1
  <2> QED BY <2>1, <2>2
<1>4. Nest' = Nest
  BY <1>1, <1>3 DEF Relates
<1> QED BY <1>4 DEF Abstract!Next, Abstract!Stop

LEMMA WorksImplement ==
  ASSUME SwitchInv, SwitchInv', NEW s, NEW t, NEW V, NEW W, NEW top,
         Relates(t, s, W, V, top), Works(t, s)
  PROVE  Abstract!Next
<1>1. Len(t) = Len(s) /\ (\A k \in 1 .. Len(s) - 1 : t[k] = s[k]) /\ ~halted /\ ~halted'
  BY DEF Works, Beside
<1>2. PICK v \in Values, e \in BOOLEAN, d \in {-1, 0, 1} : OwnWork(v, e, d)
  BY DEF Works
<1>3. PICK n \in Nat : n = Len(s) /\ n >= 1
  BY DEF Relates
<1>4. /\ DOMAIN V = 1 .. n /\ DOMAIN W = 1 .. n /\ Len(V) = n
      /\ W[n] = View(top) /\ V[n] = View(Running) /\ Nest = V /\ Nest' = W
      /\ W = [k \in 1 .. n |-> W[k]] /\ V = [k \in 1 .. n |-> V[k]]
  BY <1>1, <1>3 DEF Relates
<1>5. \A k \in 1 .. n - 1 : W[k] = V[k]
  <2> TAKE k \in 1 .. n - 1
  <2>1. k \in 1 .. Len(s) /\ k \in 1 .. Len(t) /\ k \in 1 .. Len(s) - 1
    BY <1>1, <1>3
  <2> QED BY <1>1, <2>1 DEF Relates
<1> DEFINE m == V[n].locals + d
<1>6. /\ V[n].locals = LocalsSp - act.fp /\ V[n].locals \in Int
      /\ V[n].cont = act.cont /\ V[n].kind = (IF act.kind = "direct" THEN "isr" ELSE act.kind)
      /\ DOMAIN V[n] = {"cont", "kind", "locals", "r0", "ie"}
  <2>1. act.fp \in Nat /\ LocalsSp \in Nat
    <3>1. act \in Activities /\ sp \in Nat /\ usp \in Nat
      BY DEF SwitchInv, TypeOK, Depths
    <3> QED BY <3>1 DEF Activities, Depths, LocalsSp, Frame
  <2> QED BY <1>4, <2>1 DEF View, Running, LocalsSp
<1>7. W[n] = [cont |-> V[n].cont, kind |-> V[n].kind, locals |-> m, r0 |-> v, ie |-> e]
  <2>1. /\ r0' = v /\ ie' = e /\ act' = act
        /\ Frame(act'.cont, sp', usp') - act'.fp = LocalsSp + d - act.fp
    <3>1. r0' = v /\ ie' = e /\ act' = act /\ Frame(act.cont, sp', usp') = LocalsSp + d
      BY <1>2, Zenon DEF OwnWork
    <3>2. Frame(act'.cont, sp', usp') = LocalsSp + d /\ act'.fp = act.fp
      BY <3>1, Zenon
    <3>3. PICK x, y : x = Frame(act'.cont, sp', usp') /\ y = act'.fp
      OBVIOUS
    <3>4. x = LocalsSp + d /\ y = act.fp
      BY <3>2, <3>3, Zenon
    <3>5. x - y = LocalsSp + d - act.fp
      <4>1. LocalsSp \in Nat /\ d \in Int /\ act.fp \in Nat
        <5>1. act \in Activities /\ sp \in Nat /\ usp \in Nat
          BY DEF SwitchInv, TypeOK, Depths
        <5> QED BY <5>1 DEF Activities, Depths, LocalsSp, Frame
      <4> QED BY <3>4, <4>1
    <3> QED BY <3>1, <3>3, <3>5, Zenon
  <2>2. LocalsSp + d - act.fp = m
    <3>1. act.fp \in Nat /\ LocalsSp \in Nat /\ d \in Int
      <4>1. act \in Activities /\ sp \in Nat /\ usp \in Nat
        BY DEF SwitchInv, TypeOK, Depths
      <4> QED BY <4>1 DEF Activities, Depths, LocalsSp, Frame
    <3> QED BY <1>6, <3>1
  <2>3. top = Running'
    BY DEF Relates
  <2>4. /\ View(top).cont = act.cont
        /\ View(top).kind = V[n].kind
        /\ View(top).locals = m
        /\ View(top) = [cont |-> View(top).cont, kind |-> View(top).kind,
                        locals |-> View(top).locals, r0 |-> v, ie |-> e]
    <3> HIDE DEF m
    <3> QED BY <1>6, <2>1, <2>2, <2>3, RunningView
  <2> HIDE DEF m
  <2> QED BY <1>4, <1>6, <2>4
<1>8. m >= 0
  <2>1. GoodChain(t)' /\ t[Len(t)] = top /\ Len(t) = n
    BY <1>1, <1>3 DEF Relates
  <2>2. Ordered(t)
    BY <2>1 DEF GoodChain
  <2>3. Formed(top)
    BY <1>3, <2>1, <2>2 DEF Ordered
  <2>4. View(top).locals >= 0
    <3>1. act' \in Activities /\ sp' \in Nat /\ usp' \in Nat
      BY DEF SwitchInv, TypeOK, Depths
    <3>2. act'.fp \in Nat /\ Frame(act'.cont, sp', usp') \in Nat
      BY <3>1 DEF Activities, Depths, Frame
    <3>3. act'.fp <= Frame(act'.cont, sp', usp')
      <4>1. top = Running'
        BY DEF Relates
      <4> QED BY <2>3, <4>1 DEF Formed, Running
    <3>4. View(top).locals = Frame(act'.cont, sp', usp') - act'.fp
      <4>1. top = Running'
        BY DEF Relates
      <4> QED BY <4>1, RunningView
    <3> QED BY <3>2, <3>3, <3>4
  <2> QED BY <1>4, <1>7, <2>4
<1>9. W = [V EXCEPT ![n] = [@ EXCEPT !.r0 = v, !.ie = e, !.locals = m]]
  <2>1. [V[n] EXCEPT !.r0 = v, !.ie = e, !.locals = m] =
          [cont |-> V[n].cont, kind |-> V[n].kind, locals |-> m, r0 |-> v, ie |-> e]
    <3> HIDE DEF m
    <3>1. V[n] = [cont |-> V[n].cont, kind |-> V[n].kind, locals |-> V[n].locals,
                  r0 |-> V[n].r0, ie |-> V[n].ie]
      BY <1>4 DEF View
    <3>2. PICK f, c, k, l, r, i :
            /\ f = V[n] /\ c = V[n].cont /\ k = V[n].kind /\ l = V[n].locals
            /\ r = V[n].r0 /\ i = V[n].ie
      OBVIOUS
    <3>3. f = [cont |-> c, kind |-> k, locals |-> l, r0 |-> r, ie |-> i]
      BY <3>1, <3>2
    <3>4. PICK g : g = [f EXCEPT !.r0 = v]
      OBVIOUS
    <3>5. g = [cont |-> c, kind |-> k, locals |-> l, r0 |-> v, ie |-> i]
      BY <3>3, <3>4
    <3>6. PICK h : h = [g EXCEPT !.ie = e]
      OBVIOUS
    <3>7. h = [cont |-> c, kind |-> k, locals |-> l, r0 |-> v, ie |-> e]
      BY <3>5, <3>6
    <3>8. [h EXCEPT !.locals = m] =
            [cont |-> c, kind |-> k, locals |-> m, r0 |-> v, ie |-> e]
      BY <3>7
    <3> QED BY <3>2, <3>4, <3>6, <3>8
  <2>2. \A k \in 1 .. n : k = n \/ k \in 1 .. n - 1
    OBVIOUS
  <2> HIDE DEF m
  <2>3. \A k \in 1 .. n :
          W[k] = [V EXCEPT ![n] = [@ EXCEPT !.r0 = v, !.ie = e, !.locals = m]][k]
    BY <1>3, <1>4, <1>5, <1>7, <2>1, <2>2
  <2> QED BY <1>4, <2>3
<1>10. m \in {V[n].locals, V[n].locals + 1, V[n].locals - 1}
  BY <1>6
<1>11. Abstract!Running = V[n]
  BY <1>4 DEF Abstract!Running, Abstract!Last
<1>12. Abstract!Work
  <2> HIDE DEF m
  <2>1. halted' = halted
    BY <1>1 DEF SwitchInv, TypeOK
  <2>2. Nest' = [Nest EXCEPT ![Len(Nest)] = [@ EXCEPT !.r0 = v, !.ie = e, !.locals = m]]
    BY <1>4, <1>9
  <2> QED BY <1>8, <1>10, <1>11, <2>1, <2>2, Zenon DEF Abstract!Work
<1> QED BY <1>1, <1>12 DEF Abstract!Next

(* The chain grows by one activity.                                        *)
LEMMA GrownView ==
  ASSUME NEW s, NEW t, NEW V, NEW W, NEW top, Relates(t, s, W, V, top), Grown(t, s)
  PROVE  Nest' = Append(Nest, View(top))
<1>1. PICK n \in Nat : n = Len(s) /\ Len(t) = n + 1
  BY DEF Relates, Grown
<1>2. /\ V = [k \in 1 .. n |-> View(s[k])] /\ W = [k \in 1 .. n + 1 |-> View(t[k])]
      /\ t[n + 1] = top /\ Nest = V /\ Nest' = W /\ Len(V) = n
  BY <1>1 DEF Relates
<1>3. \A k \in 1 .. n : t[k] = s[k]
  BY <1>1 DEF Grown
<1>4. Append(V, View(top)) = [k \in 1 .. n + 1 |-> IF k = n + 1 THEN View(top) ELSE V[k]]
  <2>1. PICK v : v = View(top)
    OBVIOUS
  <2>2. PICK S : S = {V[k] : k \in 1 .. n} \cup {v}
    OBVIOUS
  <2>3. V \in Seq(S) /\ v \in S /\ Len(V) = n
    BY <1>2, <2>2
  <2>4. /\ Append(V, v) \in Seq(S) /\ Len(Append(V, v)) = n + 1
        /\ \A k \in 1 .. n : Append(V, v)[k] = V[k]
        /\ Append(V, v)[n + 1] = v
    BY <2>3, AppendProperties
  <2>5. \A k \in 1 .. n + 1 : Append(V, v)[k] = IF k = n + 1 THEN v ELSE V[k]
    <3>1. \A k \in 1 .. n + 1 : k = n + 1 \/ k \in 1 .. n
      OBVIOUS
    <3> QED BY <2>4, <3>1
  <2>6. Append(V, v) = [k \in 1 .. n + 1 |-> IF k = n + 1 THEN v ELSE V[k]]
    <3>1. PICK A : A = Append(V, v)
      OBVIOUS
    <3>2. A \in [1 .. n + 1 -> S]
      BY <2>4, <3>1, LenProperties
    <3> QED BY <2>5, <3>1, <3>2
  <2> QED BY <2>1, <2>6
<1>5. \A k \in 1 .. n + 1 : View(t[k]) = IF k = n + 1 THEN View(top) ELSE V[k]
  <2> TAKE k \in 1 .. n + 1
  <2>1. CASE k = n + 1
    BY <1>2, <2>1
  <2>2. CASE k # n + 1
    <3>1. k \in 1 .. n
      BY <2>2
    <3> QED BY <1>2, <1>3, <2>2, <3>1
  <2> QED BY <2>1, <2>2
<1>6. W = Append(V, View(top))
  BY <1>2, <1>4, <1>5
<1> QED BY <1>2, <1>6

LEMMA CallsImplement ==
  ASSUME SwitchInv, SwitchInv', NEW s, NEW t, NEW V, NEW W, NEW top,
         Relates(t, s, W, V, top), Calls(t, s)
  PROVE  Abstract!Next
<1>1. /\ Nest' = Append(Nest, View(top)) /\ ~halted /\ ~halted'
      /\ act'.kind = "fn" /\ act'.cont \in Containers /\ r0' \in Values
      /\ act'.fp = Frame(act'.cont, sp', usp') /\ irq_act = {}
      /\ \A k \in 1 .. Len(s) : s[k].act.cont # act'.cont
  BY GrownView DEF Calls
<1>2. halted' = halted /\ ie' \in BOOLEAN /\ act'.fp \in Nat
  <2>1. act' \in Activities /\ halted \in BOOLEAN /\ halted' \in BOOLEAN /\ ie' \in BOOLEAN
    BY DEF SwitchInv, TypeOK
  <2> QED BY <1>1, <2>1 DEF Activities, Depths
<1>3. PICK d, v, e : d = act'.cont /\ v = r0' /\ e = ie'
  OBVIOUS
<1>4. View(top) = [cont |-> d, kind |-> "fn", locals |-> 0, r0 |-> v, ie |-> e]
  <2>1. top = Running'
    BY DEF Relates
  <2>2. act'.fp - act'.fp = 0
    BY <1>2
  <2> QED BY <1>1, <1>3, <2>1, <2>2, RunningView
<1>5. DOMAIN Nest = 1 .. Len(s) /\ \A k \in 1 .. Len(s) : Nest[k] = View(s[k])
  BY DEF Relates
<1>6. \A k \in DOMAIN Nest : Nest[k].kind # "isr"
  <2>1. Handlers(s) = {}
    <3>1. Counted(s) /\ Cardinality(irq_act) = 0
      BY <1>1, FS_EmptySet DEF Relates, GoodChain
    <3>2. Len(s) \in Nat
      BY DEF Relates
    <3>3. IsFiniteSet(Handlers(s)) /\ Cardinality(Handlers(s)) \in Nat
      BY <3>2, HandlersFinite
    <3>4. Cardinality(Handlers(s)) = 0
      BY <3>1, <3>3 DEF Counted
    <3> QED BY <3>3, <3>4, FS_EmptySet
  <2>2. \A k \in 1 .. Len(s) : s[k].act.kind # "isr" /\ s[k].act.kind # "direct"
    BY <2>1 DEF Handlers, IsHandler
  <2> QED BY <1>5, <2>2 DEF View
<1>7. d \in Containers \ {Nest[k].cont : k \in DOMAIN Nest}
  <2>1. \A k \in DOMAIN Nest : Nest[k].cont = s[k].act.cont
    BY <1>5 DEF View
  <2> QED BY <1>1, <1>3, <1>5, <2>1
<1>8. Nest' = Append(Nest, [cont |-> d, kind |-> "fn", locals |-> 0, r0 |-> v, ie |-> e])
  BY <1>1, <1>4
<1>9. v \in Values /\ e \in BOOLEAN
  BY <1>1, <1>2, <1>3
<1>10. Abstract!Call
  BY <1>2, <1>6, <1>7, <1>8, <1>9, Zenon DEF Abstract!Call
<1> QED BY <1>1, <1>10 DEF Abstract!Next

LEMMA ServesImplement ==
  ASSUME SwitchInv, SwitchInv', NEW s, NEW t, NEW V, NEW W, NEW top,
         Relates(t, s, W, V, top), Serves(t, s)
  PROVE  Abstract!Next
<1>1. /\ Nest' = Append(Nest, View(top)) /\ ~halted /\ ~halted' /\ ie
      /\ act'.kind \in {"isr", "direct"} /\ act'.cont \in Containers /\ r0' = 0
      /\ act'.fp = Frame(act'.cont, sp', usp')
  BY GrownView DEF Serves
<1>2. halted' = halted /\ ie' \in BOOLEAN /\ act'.fp \in Nat
  <2>1. act' \in Activities /\ halted \in BOOLEAN /\ halted' \in BOOLEAN /\ ie' \in BOOLEAN
    BY DEF SwitchInv, TypeOK
  <2> QED BY <1>1, <2>1 DEF Activities, Depths
<1>3. PICK d, e : d = act'.cont /\ e = ie'
  OBVIOUS
<1>4. View(top) = [cont |-> d, kind |-> "isr", locals |-> 0, r0 |-> 0, ie |-> e]
  <2>1. top = Running'
    BY DEF Relates
  <2>2. act'.fp - act'.fp = 0
    BY <1>2
  <2>3. (IF act'.kind = "direct" THEN "isr" ELSE act'.kind) = "isr"
    BY <1>1
  <2> QED BY <1>1, <1>3, <2>1, <2>2, <2>3, RunningView
<1>5. Abstract!Running.ie
  <2>1. Abstract!Running = Nest[Len(Nest)]
    BY DEF Abstract!Running, Abstract!Last
  <2>2. Nest[Len(Nest)] = View(Running)
    BY DEF Relates
  <2>3. View(Running).ie = ie
    BY DEF View, Running
  <2> QED BY <1>1, <2>1, <2>2, <2>3, Zenon
<1>6. Nest' = Append(Nest, [cont |-> d, kind |-> "isr", locals |-> 0, r0 |-> 0, ie |-> e])
  BY <1>1, <1>4
<1>7. d \in Containers /\ e \in BOOLEAN
  BY <1>1, <1>2, <1>3
<1>8. Abstract!Interrupt
  BY <1>2, <1>5, <1>6, <1>7, Zenon DEF Abstract!Interrupt
<1> QED BY <1>1, <1>8 DEF Abstract!Next

(* The chain loses its last activity: the one under it runs, with the      *)
(* value v in r0.                                                          *)
LEMMA ShrunkView ==
  ASSUME SwitchInv, SwitchInv', NEW s, NEW t, NEW V, NEW W, NEW top,
         Relates(t, s, W, V, top), Shrunk(t, s), Resumed
  PROVE  /\ Len(V) \in Nat /\ Len(V) >= 2 /\ Abstract!Running = View(Running)
         /\ Abstract!Front(V) = [k \in 1 .. Len(V) - 1 |-> V[k]]
         /\ W = [Abstract!Front(V) EXCEPT ![Len(V) - 1] = [V[Len(V) - 1] EXCEPT !.r0 = r0']]
         /\ V[Len(V) - 1].r0 = Under(Running).r0
         /\ [V[Len(V) - 1] EXCEPT !.r0 = V[Len(V) - 1].r0] = V[Len(V) - 1]
<1>1. PICK n \in Nat : n = Len(s) /\ n >= 1 /\ Len(t) = n - 1 /\ n - 1 >= 1
  BY DEF Relates, Shrunk
<1>2. /\ V = [k \in 1 .. n |-> View(s[k])] /\ W = [k \in 1 .. n - 1 |-> View(t[k])]
      /\ t[n - 1] = top /\ Nest = V /\ Nest' = W /\ Len(V) = n /\ s[n] = Running
      /\ top = Running' /\ n - 1 \in 1 .. n /\ n \in 1 .. n
  BY <1>1 DEF Relates
<1>3. \A k \in 1 .. n - 2 : t[k] = s[k]
  BY <1>1 DEF Shrunk
<1>4. s[n - 1] = Under(Running)
  <2>1. GoodChain(s)
    BY DEF Relates
  <2>2. Len(s) >= 2 => s[Len(s) - 1] = Under(Running)
    BY <2>1, GoodFacts
  <2> QED BY <1>1, <2>2
<1>5. Abstract!Front(V) = [k \in 1 .. n - 1 |-> V[k]]
  <2>1. PICK S : S = {V[k] : k \in 1 .. n}
    OBVIOUS
  <2>2. V \in Seq(S)
    <3>1. V = [k \in 1 .. n |-> V[k]] /\ \A k \in 1 .. n : V[k] \in S
      BY <1>2, <2>1
    <3>2. V \in [1 .. n -> S]
      BY <3>1
    <3> QED BY <3>2
  <2>3. SubSeq(V, 1, n - 1) = [k \in 1 .. n - 1 |-> V[k]]
    <3>1. /\ SubSeq(V, 1, n - 1) \in Seq(S) /\ Len(SubSeq(V, 1, n - 1)) = n - 1
          /\ \A k \in 1 .. n - 1 : SubSeq(V, 1, n - 1)[k] = V[k]
      <4>1. \A k \in 1 .. n - 1 : V[k] \in S
        BY <2>1
      <4>2. /\ SubSeq(V, 1, n - 1) \in Seq(S)
            /\ Len(SubSeq(V, 1, n - 1)) = IF 1 <= n - 1 THEN n - 1 - 1 + 1 ELSE 0
            /\ \A k \in 1 .. n - 1 - 1 + 1 : SubSeq(V, 1, n - 1)[k] = V[1 + k - 1]
        BY <1>1, <4>1, SubSeqProperties
      <4>3. 1 <= n - 1 /\ n - 1 - 1 + 1 = n - 1 /\ \A k \in 1 .. n - 1 : 1 + k - 1 = k
        BY <1>1
      <4> QED BY <4>2, <4>3
    <3> QED BY <1>1, <3>1
  <2> QED BY <1>2, <2>3 DEF Abstract!Front
<1>6. View(top) = [View(Under(Running)) EXCEPT !.r0 = r0']
  <2>1. PICK u : u = Under(Running)
    OBVIOUS
  <2>2. top.act = u.act /\ top.sp = u.sp /\ top.usp = u.usp /\ top.ie = u.ie /\ top.r0 = r0'
    BY <1>2, <2>1 DEF Resumed, Running
  <2>3. PICK c, k, l, i : /\ c = u.act.cont /\ i = u.ie
                          /\ k = IF u.act.kind = "direct" THEN "isr" ELSE u.act.kind
                          /\ l = Frame(u.act.cont, u.sp, u.usp) - u.act.fp
    OBVIOUS
  <2>4. View(u) = [cont |-> c, kind |-> k, locals |-> l, r0 |-> u.r0, ie |-> i]
    BY <2>3 DEF View
  <2>5. View(top) = [cont |-> c, kind |-> k, locals |-> l, r0 |-> r0', ie |-> i]
    BY <2>2, <2>3 DEF View
  <2> QED BY <2>1, <2>4, <2>5
<1>7. V[n - 1] = View(Under(Running))
  BY <1>2, <1>4
<1>8. W = [Abstract!Front(V) EXCEPT ![n - 1] = View(top)]
  <2>1. \A k \in 1 .. n - 1 : W[k] = IF k = n - 1 THEN View(top) ELSE V[k]
    <3> TAKE k \in 1 .. n - 1
    <3>1. CASE k = n - 1
      BY <1>2, <3>1
    <3>2. CASE k # n - 1
      <4>1. k \in 1 .. n - 2 /\ k \in 1 .. n
        BY <3>2
      <4> QED BY <1>2, <1>3, <3>2, <4>1
    <3> QED BY <3>1, <3>2
  <2>2. DOMAIN W = 1 .. n - 1 /\ W = [k \in 1 .. n - 1 |-> W[k]]
    BY <1>2
  <2>3. W = [k \in 1 .. n - 1 |-> IF k = n - 1 THEN View(top) ELSE V[k]]
    BY <2>1, <2>2
  <2> QED BY <1>5, <2>3
<1>9. V[n - 1].r0 = Under(Running).r0
      /\ [V[n - 1] EXCEPT !.r0 = V[n - 1].r0] = V[n - 1]
  BY <1>7 DEF View
<1>10. Abstract!Running = View(Running)
  BY <1>2 DEF Abstract!Running, Abstract!Last
<1>11. Len(V) \in Nat /\ Len(V) >= 2
  BY <1>1, <1>2
<1>12. Len(V) = n
  BY <1>2
<1>13. W = [Abstract!Front(V) EXCEPT ![n - 1] = [V[n - 1] EXCEPT !.r0 = r0']]
  BY <1>6, <1>7, <1>8, Zenon
<1> QED BY <1>5, <1>9, <1>10, <1>11, <1>12, <1>13, Zenon

LEMMA ReturnsImplement ==
  ASSUME SwitchInv, SwitchInv', NEW s, NEW t, NEW V, NEW W, NEW top,
         Relates(t, s, W, V, top), Returns(t, s)
  PROVE  Abstract!Next
<1>1. /\ Shrunk(t, s) /\ Resumed /\ ~halted /\ ~halted'
      /\ act.kind = "fn" /\ act.fp = LocalsSp /\ r0' = r0
  BY DEF Returns
<1>2. /\ Abstract!Running = View(Running) /\ Len(V) \in Nat /\ Len(V) >= 2
      /\ W = [Abstract!Front(V) EXCEPT ![Len(V) - 1] = [V[Len(V) - 1] EXCEPT !.r0 = r0']]
      /\ Abstract!Front(V) = [k \in 1 .. Len(V) - 1 |-> V[k]]
      /\ V[Len(V) - 1].r0 = Under(Running).r0
      /\ [V[Len(V) - 1] EXCEPT !.r0 = V[Len(V) - 1].r0] = V[Len(V) - 1]
  BY <1>1, ShrunkView
<1>3. Nest = V /\ Nest' = W
  BY DEF Relates
<1>4. halted' = halted
  BY <1>1 DEF SwitchInv, TypeOK
<1>5. /\ View(Running).kind = "fn" /\ View(Running).locals = 0 /\ View(Running).r0 = r0
  <2>1. act.fp - act.fp = 0
    <3>1. act \in Activities
      BY DEF SwitchInv, TypeOK
    <3> QED BY <3>1 DEF Activities, Depths
  <2>2. Running.act = act /\ Frame(act.cont, Running.sp, Running.usp) = act.fp
    BY <1>1 DEF Running, LocalsSp
  <2> QED BY <1>1, <2>1, <2>2 DEF View, Running
<1>6. [V[Len(V) - 1] EXCEPT !.r0 = r0'] =
        [Abstract!Front(V)[Len(V) - 1] EXCEPT !.r0 = Abstract!Running.r0]
  <2>1. Len(V) - 1 \in 1 .. Len(V) - 1
    BY <1>2
  <2>2. Abstract!Front(V)[Len(V) - 1] = V[Len(V) - 1]
    BY <1>2, <2>1
  <2>3. Abstract!Running.r0 = r0'
    BY <1>1, <1>2, <1>5
  <2> QED BY <2>2, <2>3
<1>7. Nest' = [Abstract!Front(Nest) EXCEPT ![Len(Nest) - 1].r0 = Abstract!Running.r0]
  BY <1>2, <1>3, <1>6
<1>8. Abstract!Return
  BY <1>2, <1>4, <1>5, <1>7, Zenon DEF Abstract!Return
<1> QED BY <1>1, <1>8 DEF Abstract!Next

LEMMA ResumesImplement ==
  ASSUME SwitchInv, SwitchInv', NEW s, NEW t, NEW V, NEW W, NEW top,
         Relates(t, s, W, V, top), Resumes(t, s)
  PROVE  Abstract!Next
<1>1. /\ Shrunk(t, s) /\ Resumed /\ ~halted /\ ~halted'
      /\ act.kind \in {"isr", "direct"} /\ act.fp = LocalsSp /\ r0' = Under(Running).r0
  BY DEF Resumes
<1>2. /\ Abstract!Running = View(Running) /\ Len(V) \in Nat /\ Len(V) >= 2
      /\ W = [Abstract!Front(V) EXCEPT ![Len(V) - 1] = [V[Len(V) - 1] EXCEPT !.r0 = r0']]
      /\ Abstract!Front(V) = [k \in 1 .. Len(V) - 1 |-> V[k]]
      /\ V[Len(V) - 1].r0 = Under(Running).r0
      /\ [V[Len(V) - 1] EXCEPT !.r0 = V[Len(V) - 1].r0] = V[Len(V) - 1]
  BY <1>1, ShrunkView
<1>3. Nest = V /\ Nest' = W
  BY DEF Relates
<1>4. halted' = halted
  BY <1>1 DEF SwitchInv, TypeOK
<1>5. View(Running).kind = "isr" /\ View(Running).locals = 0
  <2>1. act.fp - act.fp = 0
    <3>1. act \in Activities
      BY DEF SwitchInv, TypeOK
    <3> QED BY <3>1 DEF Activities, Depths
  <2>2. Running.act = act /\ Frame(act.cont, Running.sp, Running.usp) = act.fp
    BY <1>1 DEF Running, LocalsSp
  <2>3. (IF act.kind = "direct" THEN "isr" ELSE act.kind) = "isr"
    BY <1>1
  <2> QED BY <1>1, <2>1, <2>2, <2>3 DEF View
<1>6. W = Abstract!Front(V)
  <2>1. W = [Abstract!Front(V) EXCEPT ![Len(V) - 1] = V[Len(V) - 1]]
    BY <1>1, <1>2, Zenon
  <2> QED BY <1>2, <2>1
<1>7. Nest' = Abstract!Front(Nest)
  BY <1>3, <1>6
<1>8. Abstract!InterruptReturn
  BY <1>2, <1>4, <1>5, <1>7, Zenon DEF Abstract!InterruptReturn
<1> QED BY <1>1, <1>8 DEF Abstract!Next

LEMMA StepImplements ==
  ASSUME AllowLoops = FALSE, ChainInv, [Next]_vars
  PROVE  [Abstract!Next]_<<Nest, halted>>
<1>0. SwitchInv /\ SwitchInv'
  BY SwitchStep DEF ChainInv
<1>1. halted \in BOOLEAN /\ halted' \in BOOLEAN
  BY <1>0 DEF SwitchInv, TypeOK
<1>2. PICK s, t, V, W, top : Relates(t, s, W, V, top)
  BY StepRelates
<1>3. Moves(t, s)
  BY <1>2 DEF Relates
<1>4. CASE Rests(t, s) /\ (halted => halted')
  BY <1>1, <1>2, <1>4, RestsImplement
<1>5. CASE Works(t, s)
  BY <1>0, <1>2, <1>5, WorksImplement
<1>6. CASE Calls(t, s)
  BY <1>0, <1>2, <1>6, CallsImplement
<1>7. CASE Serves(t, s)
  BY <1>0, <1>2, <1>7, ServesImplement
<1>8. CASE Returns(t, s)
  BY <1>0, <1>2, <1>8, ReturnsImplement
<1>9. CASE Resumes(t, s)
  BY <1>0, <1>2, <1>9, ResumesImplement
<1> QED BY <1>3, <1>4, <1>5, <1>6, <1>7, <1>8, <1>9 DEF Moves

(* Container calls and interrupts nest like procedure calls: what the      *)
(* container stack and the saved frames hold behaves as ContainerCalls.    *)
THEOREM ContainerCallsAreImplemented ==
  ASSUME AllowLoops = FALSE PROVE Spec => ImplementsContainerCalls
<1>1. ChainInv /\ [Next]_vars => [Abstract!Next]_<<Nest, halted>>
  BY StepImplements
<1> QED BY <1>1, InitImplements, ChainIsGood, PTL DEF Spec, ImplementsContainerCalls, Abstract!Spec
=============================================================================
