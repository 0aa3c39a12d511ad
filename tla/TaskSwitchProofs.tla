-------------------------- MODULE TaskSwitchProofs --------------------------
(***************************************************************************)
(* Theorems about TaskSwitch, for any tasks, priorities and levels.        *)
(*                                                                         *)
(* The invariant speaks of the chain of what is unfinished: item 0 is the  *)
(* task that has the processor, the others are the handlers on top of it,  *)
(* the last item executes. Each item says where it is (c), on which stack  *)
(* (s), at which depth of it (d), and how many handlers have been counted  *)
(* up to it (m). What holds of neighbours in the chain (Link) stays true   *)
(* while both are interrupted, so a step has to look at the last item only.*)
(***************************************************************************)
EXTENDS TaskSwitch, SequenceTheorems, FunctionTheorems, FiniteSetTheorems,
        WellFoundedInduction, TLAPS

Contexts == [of : Tasks \cup Levels \cup {Boot}, pc : PCs, ie : BOOLEAN,
             n : Nat, to : Tasks \cup {Boot}, waited : BOOLEAN]
Stacks == Tasks \cup {Exc}
Items == [c : Contexts, s : Stacks, d : Nat, m : Nat]

TaskPCs == {"run", "critical", "taking", "taken", "leaving", "suspending", "held"}
HandlerPCs == {"entry", "count", "body", "giving", "woken", "leave"}
Entering == {"entry", "count"}

IsStack(s) == \E S : s \in Seq(S)

\* Task t is at c, in so many critical sections.
OfTask(c, t, nesting) ==
  /\ c.of = t /\ c.pc \in TaskPCs
  /\ nesting > 0 <=> c.pc \in {"critical", "taking", "leaving"}
  /\ c.ie <=> nesting = 0
  /\ c.pc = "suspending" => c.n = 0

Handler(c) ==
  /\ c.of \in Levels /\ c.pc \in HandlerPCs /\ c.ie
  /\ c.pc = "giving" => c.to \in Tasks

\* Handler b has interrupted a.
Link(a, b) ==
  /\ Handler(b.c)
  /\ b.c.pc = "entry" => b.s = a.s /\ b.d = a.d + 1 /\ b.m = a.m
  /\ b.c.pc # "entry" => b.m = a.m + 1
  /\ b.c.pc = "count" => b.s = a.s /\ b.d = a.d + 1 /\ b.c.n = a.m
  /\ b.c.pc \notin Entering => \/ b.s = a.s /\ b.d = a.d + 2
                               \/ a.s # Exc /\ b.s = Exc /\ b.d = 1

Linked(h, k, task, nesting) ==
  /\ OfTask(h[0].c, task, nesting) /\ h[0].s = task /\ h[0].d = 0 /\ h[0].m = 0
  /\ \A i \in 1 .. k : Link(h[i - 1], h[i])
  /\ \A i, j \in 1 .. k : i < j => h[j].c.of < h[i].c.of
  /\ \A i \in 0 .. k : h[i].s \in {task, Exc} /\ (h[i].s = Exc => h[i].m > 0)
  /\ \A i, j \in 0 .. k : i < j =>
       (h[i].s = Exc => h[j].s = Exc) /\ (h[i].s = h[j].s => h[i].d < h[j].d)

\* The frame of item i is where the item's stack ended when it was
\* interrupted, and a handler that has changed stacks finds where it was.
Placed(h, k, stacks) ==
  /\ Len(stacks[h[k].s]) = h[k].d
  /\ \A i \in 0 .. k : i < k =>
       /\ h[i].d < Len(stacks[h[i].s])
       /\ stacks[h[i].s][h[i].d + 1] = Frame(h[i].c)
       /\ h[i].s # h[i + 1].s => Len(stacks[h[i].s]) = h[i].d + 1
  /\ \A i \in 1 .. k : h[i].c.pc \notin Entering =>
       stacks[h[i].s][h[i].d] = SavedSp(h[i - 1].s)
  /\ h[k].s # Exc => stacks[Exc] = <<>>

-----------------------------------------------------------------------------
(* Stacks as sequences *)

LEMMA EmptyStack == IsStack(<<>>) /\ Len(<<>>) = 0
BY DEF IsStack

LEMMA Pushed ==
  ASSUME NEW s, IsStack(s), NEW e
  PROVE  /\ IsStack(Append(s, e))
         /\ Len(s) \in Nat
         /\ Len(Append(s, e)) = Len(s) + 1
         /\ \A i \in 1 .. Len(s) : Append(s, e)[i] = s[i]
         /\ Append(s, e)[Len(s) + 1] = e
         /\ Last(Append(s, e)) = e
         /\ Front(Append(s, e)) = s
<1>1. PICK S : s \in Seq(S) BY DEF IsStack
<1> DEFINE T == S \cup {e}
           a == Append(s, e)
<1>2. s \in Seq(T) /\ e \in T BY <1>1, SeqMonotonic
<1> HIDE DEF T
<1>3. /\ a \in Seq(T) /\ Len(a) = Len(s) + 1 /\ a[Len(s) + 1] = e
      /\ \A i \in 1 .. Len(s) : a[i] = s[i]
  BY <1>2, AppendProperties
<1>4. Len(s) \in Nat BY <1>2, LenProperties
<1> HIDE DEF a
<1>5. Front(a) \in Seq(T) /\ Len(Front(a)) = Len(s) /\ \A i \in 1 .. Len(s) : Front(a)[i] = a[i]
  <2>1. \A i \in 1 .. Len(a) - 1 : a[i] \in T
    BY <1>3, <1>4, ElementOfSeq
  <2>2. Len(a) - 1 = Len(s) /\ 1 \in Int /\ Len(s) \in Int BY <1>3, <1>4
  <2>3. /\ SubSeq(a, 1, Len(s)) \in Seq(T)
        /\ Len(SubSeq(a, 1, Len(s))) = IF 1 <= Len(s) THEN Len(s) - 1 + 1 ELSE 0
        /\ \A i \in 1 .. Len(s) - 1 + 1 : SubSeq(a, 1, Len(s))[i] = a[1 + i - 1]
    BY <2>1, <2>2, SubSeqProperties
  <2> QED BY <2>2, <2>3, <1>4 DEF Front
<1>6. Front(a) = s BY <1>2, <1>3, <1>5, SeqEqual
<1>7. Last(a) = e BY <1>3 DEF Last
<1> QED BY <1>3, <1>4, <1>6, <1>7 DEF IsStack, a

LEMMA Popped ==
  ASSUME NEW s, IsStack(s), Len(s) > 0
  PROVE  /\ IsStack(Front(s))
         /\ Len(Front(s)) = Len(s) - 1
         /\ \A i \in 1 .. Len(s) - 1 : Front(s)[i] = s[i]
<1>1. PICK S : s \in Seq(S) BY DEF IsStack
<1> DEFINE n == Len(s) - 1
<1>2. n \in Nat /\ Front(s) = SubSeq(s, 1, n) BY <1>1, LenProperties DEF Front
<1> HIDE DEF n
<1>3. \A i \in 1 .. n : s[i] \in S BY <1>1, ElementOfSeq, LenProperties DEF n
<1>4. /\ SubSeq(s, 1, n) \in Seq(S)
      /\ Len(SubSeq(s, 1, n)) = IF 1 <= n THEN n - 1 + 1 ELSE 0
      /\ \A i \in 1 .. n - 1 + 1 : SubSeq(s, 1, n)[i] = s[1 + i - 1]
  BY <1>2, <1>3, SubSeqProperties
<1>5. Len(Front(s)) = n BY <1>2, <1>4
<1>6. \A i \in 1 .. n : Front(s)[i] = s[i] BY <1>2, <1>4
<1>7. IsStack(Front(s)) BY <1>2, <1>4 DEF IsStack
<1> QED BY <1>5, <1>6, <1>7 DEF n

LEMMA NoLength ==
  ASSUME NEW s, IsStack(s)
  PROVE  Len(s) = 0 <=> s = <<>>
<1>1. PICK S : s \in Seq(S) BY DEF IsStack
<1> QED BY <1>1, EmptySeq

LEMMA PairStack ==
  ASSUME NEW a, NEW b
  PROVE  /\ IsStack(<<a, b>>) /\ Len(<<a, b>>) = 2
         /\ Append(<<a>>, b) = <<a, b>> /\ Append(<<>>, a) = <<a>>
         /\ Last(<<a, b>>) = b /\ Front(<<a, b>>) = <<a>>
         /\ Front(<<a>>) = <<>> /\ Last(<<a>>) = a /\ IsStack(<<a>>)
<1> DEFINE T == {a, b}
<1>1. <<a, b>> \in Seq(T) /\ <<a>> \in Seq(T) /\ <<>> \in Seq(T) OBVIOUS
<1>2. IsStack(<<a, b>>) /\ IsStack(<<a>>) BY <1>1 DEF IsStack
<1>3. Append(<<a>>, b) = <<a, b>>
  <2>1. /\ Append(<<a>>, b) \in Seq(T) /\ Len(Append(<<a>>, b)) = 2
        /\ Append(<<a>>, b)[1] = a /\ Append(<<a>>, b)[2] = b
    BY <1>1, AppendProperties
  <2>2. \A i \in 1 .. 2 : Append(<<a>>, b)[i] = <<a, b>>[i] BY <2>1
  <2> QED BY <1>1, <2>1, <2>2, SeqEqual
<1>4. Append(<<>>, a) = <<a>>
  <2>1. /\ Append(<<>>, a) \in Seq(T) /\ Len(Append(<<>>, a)) = 1 /\ Append(<<>>, a)[1] = a
    BY <1>1, AppendProperties
  <2> QED BY <1>1, <2>1, SeqEqual
<1>5. Last(<<a, b>>) = b /\ Last(<<a>>) = a BY DEF Last
<1>6. Front(<<a, b>>) = <<a>> BY <1>2, <1>3, Pushed
<1>7. Front(<<a>>) = <<>> BY <1>4, Pushed, EmptyStack
<1> QED BY <1>2, <1>3, <1>4, <1>5, <1>6, <1>7

-----------------------------------------------------------------------------
(* The chain grows, its last item goes on, and it shrinks. *)

Fresh(c, task) == [i \in 0 .. 0 |-> [c |-> c, s |-> task, d |-> 0, m |-> 0]]

Grown(h, k, p) ==
  [i \in 0 .. k + 1 |->
     IF i = k + 1 THEN [c |-> Context(p, "entry", TRUE), s |-> h[k].s,
                        d |-> h[k].d + 1, m |-> h[k].m]
                  ELSE h[i]]

Shrunk(h, k) == [i \in 0 .. k - 1 |-> h[i]]

LEMMA FreshChain ==
  ASSUME NEW task \in Tasks, NEW nesting \in Nat, NEW c \in Contexts, NEW stacks,
         OfTask(c, task, nesting),
         Len(stacks[task]) = 0, stacks[Exc] = <<>>
  PROVE  /\ Fresh(c, task) \in [0 .. 0 -> Items]
         /\ Linked(Fresh(c, task), 0, task, nesting)
         /\ Placed(Fresh(c, task), 0, stacks)
<1> DEFINE h == Fresh(c, task)
<1>1. h[0] = [c |-> c, s |-> task, d |-> 0, m |-> 0] BY DEF Fresh
<1>2. h \in [0 .. 0 -> Items] BY DEF Fresh, Items, Stacks
<1>3. task # Exc BY TaskAssumption
<1> HIDE DEF h
<1>4. Linked(h, 0, task, nesting) BY <1>1, <1>3 DEF Linked
<1>5. Placed(h, 0, stacks) BY <1>1, <1>3 DEF Placed
<1> QED BY <1>2, <1>4, <1>5 DEF h

LEMMA ChainGrows ==
  ASSUME NEW task \in Tasks, NEW nesting \in Nat, NEW k \in Nat, NEW h \in [0 .. k -> Items],
         Linked(h, k, task, nesting),
         NEW p \in Levels, \A i \in 1 .. k : p < h[i].c.of
  PROVE  /\ Grown(h, k, p) \in [0 .. k + 1 -> Items]
         /\ Linked(Grown(h, k, p), k + 1, task, nesting)
<1> DEFINE new == [c |-> Context(p, "entry", TRUE), s |-> h[k].s, d |-> h[k].d + 1, m |-> h[k].m]
           g == Grown(h, k, p)
<1>1. new \in Items /\ Handler(new.c)
  <2>1. Context(p, "entry", TRUE) \in Contexts BY DEF Contexts, Context, PCs
  <2>2. Handler(Context(p, "entry", TRUE)) BY DEF Handler, HandlerPCs, Context
  <2>3. h[k].s \in Stacks /\ h[k].d + 1 \in Nat /\ h[k].m \in Nat BY DEF Items
  <2>4. new \in Items BY <2>1, <2>3 DEF Items
  <2> QED BY <2>2, <2>4
<1>2. /\ new.c.of = p /\ new.c.pc = "entry" /\ new.s = h[k].s
      /\ new.d = h[k].d + 1 /\ new.m = h[k].m
  BY DEF Context
<1>3. g[k + 1] = new /\ \A i \in 0 .. k : g[i] = h[i]
  <2>1. g[k + 1] = new BY DEF Grown
  <2>2. \A i \in 0 .. k : i \in 0 .. k + 1 /\ i # k + 1 OBVIOUS
  <2> HIDE DEF new
  <2>3. \A i \in 0 .. k : g[i] = h[i] BY <2>2 DEF Grown
  <2> QED BY <2>1, <2>3
<1>4. g \in [0 .. k + 1 -> Items] BY <1>1 DEF Grown
<1>5. \A i \in 0 .. k : h[i].s \in Stacks /\ h[i].d \in Nat /\ h[i].m \in Nat BY DEF Items
<1> HIDE DEF g, new
<1>6. g[0] = h[0] BY <1>3
<1>7. \A i \in 1 .. k + 1 : Link(g[i - 1], g[i])
  <2> SUFFICES ASSUME NEW i \in 1 .. k + 1 PROVE Link(g[i - 1], g[i]) OBVIOUS
  <2>1. CASE i \in 1 .. k
    <3>1. g[i] = h[i] /\ g[i - 1] = h[i - 1] BY <2>1, <1>3
    <3> QED BY <2>1, <3>1 DEF Linked
  <2>2. CASE i = k + 1
    <3>1. g[i] = new /\ g[i - 1] = h[k] BY <2>2, <1>3
    <3>2. Link(h[k], new) BY <1>1, <1>2 DEF Link, Entering
    <3> QED BY <3>1, <3>2
  <2> QED BY <2>1, <2>2
<1>8. \A i, j \in 1 .. k + 1 : i < j => g[j].c.of < g[i].c.of
  <2> SUFFICES ASSUME NEW i \in 1 .. k + 1, NEW j \in 1 .. k + 1, i < j
               PROVE g[j].c.of < g[i].c.of
    OBVIOUS
  <2>1. i \in 1 .. k /\ g[i] = h[i] BY <1>3
  <2>2. CASE j = k + 1 BY <2>1, <2>2, <1>2, <1>3
  <2>3. CASE j \in 1 .. k
    <3>1. g[j] = h[j] BY <2>3, <1>3
    <3> QED BY <2>1, <2>3, <3>1 DEF Linked
  <2> QED BY <2>2, <2>3
<1>9. \A i \in 0 .. k + 1 : g[i].s \in {task, Exc} /\ (g[i].s = Exc => g[i].m > 0)
  <2> SUFFICES ASSUME NEW i \in 0 .. k + 1
               PROVE g[i].s \in {task, Exc} /\ (g[i].s = Exc => g[i].m > 0)
    OBVIOUS
  <2>1. CASE i \in 0 .. k
    <3>1. g[i] = h[i] BY <2>1, <1>3
    <3> QED BY <2>1, <3>1 DEF Linked
  <2>2. CASE i = k + 1
    <3>1. g[i].s = h[k].s /\ g[i].m = h[k].m BY <2>2, <1>2, <1>3
    <3> QED BY <3>1 DEF Linked
  <2> QED BY <2>1, <2>2
<1>10. \A i, j \in 0 .. k + 1 : i < j =>
         (g[i].s = Exc => g[j].s = Exc) /\ (g[i].s = g[j].s => g[i].d < g[j].d)
  <2> SUFFICES ASSUME NEW i \in 0 .. k + 1, NEW j \in 0 .. k + 1, i < j
               PROVE (g[i].s = Exc => g[j].s = Exc) /\ (g[i].s = g[j].s => g[i].d < g[j].d)
    OBVIOUS
  <2>1. i \in 0 .. k /\ g[i] = h[i] BY <1>3
  <2>2. CASE j \in 0 .. k
    <3>1. g[j] = h[j] BY <2>2, <1>3
    <3> QED BY <2>1, <2>2, <3>1 DEF Linked
  <2>3. CASE j = k + 1
    <3>1. g[j].s = h[k].s /\ g[j].d = h[k].d + 1 BY <2>3, <1>2, <1>3
    <3>2. i = k \/ ((h[i].s = Exc => h[k].s = Exc) /\ (h[i].s = h[k].s => h[i].d < h[k].d))
      BY <2>1 DEF Linked
    <3> QED BY <2>1, <3>1, <3>2, <1>5
  <2> QED BY <2>2, <2>3
<1>11. Linked(g, k + 1, task, nesting)
  BY <1>6, <1>7, <1>8, <1>9, <1>10 DEF Linked
<1> QED BY <1>4, <1>11 DEF g

LEMMA ChainShrinks ==
  ASSUME NEW task, NEW nesting, NEW k \in Nat \ {0}, NEW h \in [0 .. k -> Items],
         Linked(h, k, task, nesting)
  PROVE  /\ Shrunk(h, k) \in [0 .. k - 1 -> Items]
         /\ Linked(Shrunk(h, k), k - 1, task, nesting)
<1> DEFINE g == Shrunk(h, k)
<1>1. \A i \in 0 .. k - 1 : i \in 0 .. k /\ g[i] = h[i] BY DEF Shrunk
<1>2. g \in [0 .. k - 1 -> Items] BY DEF Shrunk
<1> HIDE DEF g
<1>3. g[0] = h[0] BY <1>1
<1>4. \A i \in 1 .. k - 1 : Link(g[i - 1], g[i])
  <2> SUFFICES ASSUME NEW i \in 1 .. k - 1 PROVE Link(g[i - 1], g[i]) OBVIOUS
  <2>1. g[i] = h[i] /\ g[i - 1] = h[i - 1] BY <1>1
  <2> QED BY <2>1 DEF Linked
<1>5. \A i, j \in 1 .. k - 1 : i < j => g[j].c.of < g[i].c.of
  <2> SUFFICES ASSUME NEW i \in 1 .. k - 1, NEW j \in 1 .. k - 1, i < j
               PROVE g[j].c.of < g[i].c.of
    OBVIOUS
  <2>1. g[i] = h[i] /\ g[j] = h[j] BY <1>1
  <2> QED BY <2>1 DEF Linked
<1>6. \A i \in 0 .. k - 1 : g[i].s \in {task, Exc} /\ (g[i].s = Exc => g[i].m > 0)
  BY <1>1 DEF Linked
<1>7. \A i, j \in 0 .. k - 1 : i < j =>
        (g[i].s = Exc => g[j].s = Exc) /\ (g[i].s = g[j].s => g[i].d < g[j].d)
  BY <1>1 DEF Linked
<1>8. Linked(g, k - 1, task, nesting) BY <1>3, <1>4, <1>5, <1>6, <1>7 DEF Linked
<1> QED BY <1>2, <1>8 DEF g

\* The last item, a handler, goes on as x.
LEMMA ChainGoesOn ==
  ASSUME NEW task, NEW nesting, NEW k \in Nat \ {0}, NEW h \in [0 .. k -> Items],
         Linked(h, k, task, nesting),
         NEW x \in Items, Link(h[k - 1], x), x.c.of = h[k].c.of,
         x.s \in {task, Exc}, x.s = Exc => x.m > 0,
         \A i \in 0 .. k - 1 : (h[i].s = Exc => x.s = Exc) /\ (h[i].s = x.s => h[i].d < x.d)
  PROVE  /\ [h EXCEPT ![k] = x] \in [0 .. k -> Items]
         /\ Linked([h EXCEPT ![k] = x], k, task, nesting)
<1> DEFINE g == [h EXCEPT ![k] = x]
<1>1. g \in [0 .. k -> Items] /\ g[k] = x /\ \A i \in 0 .. k - 1 : i \in 0 .. k /\ g[i] = h[i]
  OBVIOUS
<1> HIDE DEF g
<1>2. g[0] = h[0] BY <1>1
<1>3. \A i \in 1 .. k : Link(g[i - 1], g[i])
  <2> SUFFICES ASSUME NEW i \in 1 .. k PROVE Link(g[i - 1], g[i]) OBVIOUS
  <2>1. g[i - 1] = h[i - 1] BY <1>1
  <2>2. CASE i = k BY <2>1, <2>2, <1>1
  <2>3. CASE i # k
    <3>1. g[i] = h[i] BY <2>3, <1>1
    <3> QED BY <2>1, <3>1 DEF Linked
  <2> QED BY <2>2, <2>3
<1>4. \A i \in 1 .. k : g[i].c.of = h[i].c.of
  <2> SUFFICES ASSUME NEW i \in 1 .. k PROVE g[i].c.of = h[i].c.of OBVIOUS
  <2>1. CASE i = k BY <2>1, <1>1
  <2>2. CASE i # k BY <2>2, <1>1
  <2> QED BY <2>1, <2>2
<1>5. \A i, j \in 1 .. k : i < j => g[j].c.of < g[i].c.of
  <2> SUFFICES ASSUME NEW i \in 1 .. k, NEW j \in 1 .. k, i < j
               PROVE g[j].c.of < g[i].c.of
    OBVIOUS
  <2>1. h[j].c.of < h[i].c.of BY DEF Linked
  <2> QED BY <2>1, <1>4
<1>6. \A i \in 0 .. k : g[i].s \in {task, Exc} /\ (g[i].s = Exc => g[i].m > 0)
  <2> SUFFICES ASSUME NEW i \in 0 .. k
               PROVE g[i].s \in {task, Exc} /\ (g[i].s = Exc => g[i].m > 0)
    OBVIOUS
  <2>1. CASE i = k BY <2>1, <1>1
  <2>2. CASE i # k
    <3>1. g[i] = h[i] BY <2>2, <1>1
    <3> QED BY <3>1 DEF Linked
  <2> QED BY <2>1, <2>2
<1>7. \A i, j \in 0 .. k : i < j =>
        (g[i].s = Exc => g[j].s = Exc) /\ (g[i].s = g[j].s => g[i].d < g[j].d)
  <2> SUFFICES ASSUME NEW i \in 0 .. k, NEW j \in 0 .. k, i < j
               PROVE (g[i].s = Exc => g[j].s = Exc) /\ (g[i].s = g[j].s => g[i].d < g[j].d)
    OBVIOUS
  <2>1. i \in 0 .. k - 1 /\ g[i] = h[i] BY <1>1
  <2>2. CASE j = k BY <2>1, <2>2, <1>1
  <2>3. CASE j # k
    <3>1. g[j] = h[j] BY <2>3, <1>1
    <3> QED BY <2>1, <3>1 DEF Linked
  <2> QED BY <2>2, <2>3
<1>8. Linked(g, k, task, nesting) BY <1>2, <1>3, <1>5, <1>6, <1>7 DEF Linked
<1> QED BY <1>1, <1>8 DEF g

-----------------------------------------------------------------------------
(* What these steps do to the stacks *)

AreStacks(stacks) ==
  /\ stacks = [s \in Stacks |-> stacks[s]]
  /\ \A s \in Stacks : IsStack(stacks[s])

Put(stacks, s, new) == [stacks EXCEPT ![s] = new]

\* Pushing and popping on one stack leaves the others alone.
LEMMA OneStack ==
  ASSUME NEW stacks, AreStacks(stacks), NEW s \in Stacks, NEW new, IsStack(new)
  PROVE  /\ AreStacks(Put(stacks, s, new))
         /\ Put(stacks, s, new)[s] = new
         /\ \A t \in Stacks : t # s => Put(stacks, s, new)[t] = stacks[t]
<1> DEFINE after == Put(stacks, s, new)
<1>1. DOMAIN stacks = Stacks BY DEF AreStacks
<1>2. after = [t \in Stacks |-> IF t = s THEN new ELSE stacks[t]] BY <1>1 DEF Put
<1>3. after[s] = new /\ \A t \in Stacks : t # s => after[t] = stacks[t] BY <1>2
<1>4. after = [t \in Stacks |-> after[t]] BY <1>2
<1> HIDE DEF after
<1>5. \A t \in Stacks : IsStack(after[t]) BY <1>3 DEF AreStacks
<1>6. AreStacks(after) BY <1>4, <1>5 DEF AreStacks
<1> QED BY <1>3, <1>6 DEF after

\* Every depth of the chain is inside its stack.
Inside(h, k, stacks) ==
  /\ \A i \in 0 .. k : /\ h[i].s \in Stacks /\ h[i].d \in Nat /\ h[i].m \in Nat
                       /\ Len(stacks[h[i].s]) \in Nat
                       /\ h[i].d <= Len(stacks[h[i].s])
  /\ \A i \in 1 .. k : h[i].d >= 1
  /\ \A i \in 0 .. k : i < k /\ h[i].s # h[i + 1].s => h[i].s # Exc /\ h[k].s = Exc

LEMMA InsideStacks ==
  ASSUME NEW task \in Tasks, NEW nesting, NEW k \in Nat, NEW h \in [0 .. k -> Items],
         Linked(h, k, task, nesting), NEW stacks, AreStacks(stacks), Placed(h, k, stacks)
  PROVE  Inside(h, k, stacks)
<1>1. \A i \in 0 .. k : /\ h[i].s \in Stacks /\ h[i].d \in Nat /\ h[i].m \in Nat
                        /\ Len(stacks[h[i].s]) \in Nat
  BY Pushed DEF Items, AreStacks
<1>2. \A i \in 0 .. k : h[i].d <= Len(stacks[h[i].s])
  <2> SUFFICES ASSUME NEW i \in 0 .. k PROVE h[i].d <= Len(stacks[h[i].s]) OBVIOUS
  <2>1. CASE i = k BY <2>1, <1>1 DEF Placed
  <2>2. CASE i < k BY <2>2, <1>1 DEF Placed
  <2> QED BY <2>1, <2>2
<1>3. \A i \in 1 .. k : h[i].d >= 1
  <2> SUFFICES ASSUME NEW i \in 1 .. k PROVE h[i].d >= 1 OBVIOUS
  <2>1. Link(h[i - 1], h[i]) BY DEF Linked
  <2>2. h[i - 1].d \in Nat BY <1>1
  <2> QED BY <2>1, <2>2 DEF Link, Handler, HandlerPCs, Entering
<1>4. ASSUME NEW i \in 0 .. k, i < k, h[i].s # h[i + 1].s
      PROVE  h[i].s # Exc /\ h[k].s = Exc
  <2>1. i + 1 \in 0 .. k BY <1>4
  <2>2. (h[i].s = Exc => h[i + 1].s = Exc) /\ h[i].s \in {task, Exc} /\ h[i + 1].s \in {task, Exc}
    BY <2>1, <1>4 DEF Linked
  <2>3. h[i].s # Exc /\ h[i + 1].s = Exc BY <2>2, <1>4
  <2>4. i + 1 = k \/ (i + 1 < k /\ (h[i + 1].s = Exc => h[k].s = Exc)) BY <2>1 DEF Linked
  <2> QED BY <2>3, <2>4
<1> QED BY <1>1, <1>2, <1>3, <1>4 DEF Inside

LEMMA GrownPlaced ==
  ASSUME NEW task \in Tasks, NEW nesting, NEW k \in Nat, NEW h \in [0 .. k -> Items],
         Linked(h, k, task, nesting), NEW stacks, AreStacks(stacks), Placed(h, k, stacks),
         NEW p
  PROVE  LET after == [stacks EXCEPT ![h[k].s] = Append(@, Frame(h[k].c))]
         IN  AreStacks(after) /\ Placed(Grown(h, k, p), k + 1, after)
<1> DEFINE after == [stacks EXCEPT ![h[k].s] = Append(@, Frame(h[k].c))]
           old == stacks[h[k].s]
           new == Append(old, Frame(h[k].c))
           g == Grown(h, k, p)
<1>1. /\ \A i \in 0 .. k : /\ h[i].s \in Stacks /\ h[i].d \in Nat /\ h[i].m \in Nat
                           /\ Len(stacks[h[i].s]) \in Nat
                           /\ h[i].d <= Len(stacks[h[i].s])
      /\ \A i \in 1 .. k : h[i].d >= 1
      /\ \A i \in 0 .. k : i < k /\ h[i].s # h[i + 1].s => h[i].s # Exc /\ h[k].s = Exc
  <2>1. k \in Nat OBVIOUS
  <2>2. Inside(h, k, stacks) BY <2>1, InsideStacks
  <2> QED BY ONLY <2>2 DEF Inside
<1>2. IsStack(old) /\ h[k].s \in Stacks BY <1>1 DEF AreStacks
<1>3. /\ IsStack(new) /\ Len(new) = Len(old) + 1 /\ new[Len(old) + 1] = Frame(h[k].c)
      /\ \A i \in 1 .. Len(old) : new[i] = old[i]
  BY <1>2, Pushed
<1>4. /\ g[k + 1].s = h[k].s /\ g[k + 1].d = h[k].d + 1 /\ g[k + 1].c.pc = "entry"
      /\ \A i \in 0 .. k : g[i] = h[i]
  <2>1. k + 1 \in 0 .. k + 1 /\ \A i \in 0 .. k : i \in 0 .. k + 1 /\ i # k + 1 OBVIOUS
  <2>2. \A i \in 0 .. k : g[i] = h[i] BY <2>1 DEF Grown
  <2>3. g[k + 1] = [c |-> Context(p, "entry", TRUE), s |-> h[k].s,
                    d |-> h[k].d + 1, m |-> h[k].m]
    BY <2>1 DEF Grown
  <2> QED BY <2>2, <2>3 DEF Context
<1>5. after = Put(stacks, h[k].s, new) BY DEF Put
<1>6. Len(old) = h[k].d BY DEF Placed
<1> HIDE DEF new, after, g, old
<1>7. /\ AreStacks(after) /\ after[h[k].s] = new
      /\ \A t \in Stacks : t # h[k].s => after[t] = stacks[t]
  BY <1>2, <1>3, <1>5, OneStack
<1>8. old = stacks[h[k].s] BY DEF old
<1>9. Len(after[g[k + 1].s]) = g[k + 1].d
  <2>1. h[k].d \in Nat BY <1>1
  <2> QED BY <2>1, <1>3, <1>4, <1>6, <1>7
<1>10. ASSUME NEW i \in 0 .. k + 1, i < k + 1
       PROVE  /\ g[i].d < Len(after[g[i].s])
              /\ after[g[i].s][g[i].d + 1] = Frame(g[i].c)
              /\ g[i].s # g[i + 1].s => Len(after[g[i].s]) = g[i].d + 1
  <2>1. i \in 0 .. k /\ g[i] = h[i] BY <1>4, <1>10
  <2>2. CASE i = k
    <3>1. h[k].d \in Nat BY <1>1
    <3> QED BY <3>1, <2>1, <2>2, <1>3, <1>4, <1>6, <1>7
  <2>3. CASE i < k
    <3>1. g[i + 1] = h[i + 1] BY <2>1, <2>3, <1>4
    <3>2. /\ h[i].d < Len(stacks[h[i].s]) /\ stacks[h[i].s][h[i].d + 1] = Frame(h[i].c)
          /\ h[i].s # h[i + 1].s => Len(stacks[h[i].s]) = h[i].d + 1
      BY <2>1, <2>3 DEF Placed
    <3>3. h[i].d \in Nat /\ h[i].s \in Stacks /\ Len(stacks[h[i].s]) \in Nat BY <2>1, <1>1
    <3>4. CASE h[i].s = h[k].s
      <4>1. h[i].s = h[i + 1].s BY <2>1, <2>3, <3>4, <1>1
      <4>2. after[h[i].s] = new /\ stacks[h[i].s] = old BY <3>4, <1>7, <1>8
      <4>3. h[i].d + 1 \in 1 .. Len(old) BY <3>2, <3>3, <4>2
      <4>4. h[i].d < Len(new) BY <3>2, <3>3, <4>2, <1>3
      <4>5. new[h[i].d + 1] = old[h[i].d + 1] BY <4>3, <1>3
      <4> QED BY <4>1, <4>2, <4>4, <4>5, <3>1, <3>2, <2>1
    <3>5. CASE h[i].s # h[k].s
      <4>1. after[h[i].s] = stacks[h[i].s] BY <3>5, <3>3, <1>7
      <4> QED BY <4>1, <3>1, <3>2, <2>1
    <3> QED BY <3>4, <3>5
  <2> QED BY <2>1, <2>2, <2>3
<1>11. ASSUME NEW i \in 1 .. k + 1, g[i].c.pc \notin Entering
       PROVE  after[g[i].s][g[i].d] = SavedSp(g[i - 1].s)
  <2>1. i # k + 1 BY <1>4, <1>11 DEF Entering
  <2>2. i \in 1 .. k /\ g[i] = h[i] /\ g[i - 1] = h[i - 1] BY <2>1, <1>4
  <2>3. stacks[h[i].s][h[i].d] = SavedSp(h[i - 1].s) BY <2>2, <1>11 DEF Placed
  <2>4. /\ h[i].d \in Nat /\ h[i].d >= 1 /\ h[i].s \in Stacks
        /\ h[i].d <= Len(stacks[h[i].s]) /\ Len(stacks[h[i].s]) \in Nat
    BY <2>2, <1>1
  <2>5. CASE h[i].s = h[k].s
    <3>1. h[i].d \in 1 .. Len(old) /\ after[h[i].s] = new /\ stacks[h[i].s] = old
      BY <2>4, <2>5, <1>7, <1>8
    <3> QED BY <3>1, <2>2, <2>3, <1>3
  <2>6. CASE h[i].s # h[k].s BY <2>2, <2>3, <2>4, <2>6, <1>7
  <2> QED BY <2>5, <2>6
<1>12. g[k + 1].s # Exc => after[Exc] = <<>>
  <2>1. Exc \in Stacks BY DEF Stacks
  <2> QED BY <2>1, <1>4, <1>7 DEF Placed
<1>13. Placed(g, k + 1, after) BY <1>9, <1>10, <1>11, <1>12 DEF Placed
<1> QED BY <1>7, <1>13 DEF g, after, new, old

\* The last item goes on and stays on its stack.
LEMMA SteadyPlaced ==
  ASSUME NEW k \in Nat \ {0}, NEW h \in [0 .. k -> Items], NEW stacks, Placed(h, k, stacks),
         NEW x, x.s = h[k].s, x.d = h[k].d,
         x.c.pc \in Entering \/ h[k].c.pc \notin Entering
  PROVE  Placed([h EXCEPT ![k] = x], k, stacks)
<1> DEFINE g == [h EXCEPT ![k] = x]
<1>1. g[k] = x /\ \A i \in 0 .. k - 1 : i \in 0 .. k /\ g[i] = h[i] OBVIOUS
<1> HIDE DEF g
<1>2. \A i \in 0 .. k : g[i].s = h[i].s /\ g[i].d = h[i].d
  <2> SUFFICES ASSUME NEW i \in 0 .. k PROVE g[i].s = h[i].s /\ g[i].d = h[i].d OBVIOUS
  <2>1. CASE i = k BY <2>1, <1>1
  <2>2. CASE i # k BY <2>2, <1>1
  <2> QED BY <2>1, <2>2
<1>3. ASSUME NEW i \in 0 .. k, i < k
      PROVE  /\ g[i].d < Len(stacks[g[i].s])
             /\ stacks[g[i].s][g[i].d + 1] = Frame(g[i].c)
             /\ g[i].s # g[i + 1].s => Len(stacks[g[i].s]) = g[i].d + 1
  <2>1. g[i] = h[i] /\ g[i + 1].s = h[i + 1].s BY <1>1, <1>2, <1>3
  <2> QED BY <2>1, <1>3 DEF Placed
<1>4. ASSUME NEW i \in 1 .. k, g[i].c.pc \notin Entering
      PROVE  stacks[g[i].s][g[i].d] = SavedSp(g[i - 1].s)
  <2>1. h[i].c.pc \notin Entering
    <3>1. CASE i = k BY <3>1, <1>1, <1>4
    <3>2. CASE i # k BY <3>2, <1>1, <1>4
    <3> QED BY <3>1, <3>2
  <2>2. g[i].s = h[i].s /\ g[i].d = h[i].d /\ g[i - 1].s = h[i - 1].s BY <1>2
  <2> QED BY <2>1, <2>2 DEF Placed
<1>5. Len(stacks[g[k].s]) = g[k].d /\ (g[k].s # Exc => stacks[Exc] = <<>>)
  BY <1>2 DEF Placed
<1>6. Placed(g, k, stacks) BY <1>3, <1>4, <1>5 DEF Placed
<1> QED BY <1>6 DEF g

\* The handler on top moves to the exception stack,
LEMMA MovedPlaced ==
  ASSUME NEW task \in Tasks, NEW nesting, NEW k \in Nat \ {0}, NEW h \in [0 .. k -> Items],
         Linked(h, k, task, nesting), NEW stacks, AreStacks(stacks), Placed(h, k, stacks),
         h[k].s # Exc, h[k].s = h[k - 1].s, h[k].d = h[k - 1].d + 1,
         NEW x, x.s = Exc, x.d = 1
  PROVE  LET after == Put(stacks, Exc, <<SavedSp(h[k].s)>>)
         IN  AreStacks(after) /\ Placed([h EXCEPT ![k] = x], k, after)
<1> DEFINE new == <<SavedSp(h[k].s)>>
           after == Put(stacks, Exc, new)
           g == [h EXCEPT ![k] = x]
<1>1. g[k] = x /\ \A i \in 0 .. k - 1 : i \in 0 .. k /\ g[i] = h[i] OBVIOUS
<1>2. Exc \in Stacks BY DEF Stacks
<1>3. IsStack(new) /\ Len(new) = 1 /\ new[1] = SavedSp(h[k].s) BY PairStack
<1> HIDE DEF g, new
<1>4. /\ AreStacks(after) /\ after[Exc] = new
      /\ \A t \in Stacks : t # Exc => after[t] = stacks[t]
  BY <1>2, <1>3, OneStack
<1> HIDE DEF after
<1>5. \A i \in 0 .. k : h[i].s \in Stacks /\ h[i].s # Exc
  <2> SUFFICES ASSUME NEW i \in 0 .. k PROVE h[i].s \in Stacks /\ h[i].s # Exc OBVIOUS
  <2>1. h[i].s \in Stacks BY DEF Items
  <2>2. i = k \/ (h[i].s = Exc => h[k].s = Exc) BY DEF Linked
  <2> QED BY <2>1, <2>2
<1>6. ASSUME NEW i \in 0 .. k, i < k
      PROVE  /\ g[i].d < Len(after[g[i].s])
             /\ after[g[i].s][g[i].d + 1] = Frame(g[i].c)
             /\ g[i].s # g[i + 1].s => Len(after[g[i].s]) = g[i].d + 1
  <2>1. g[i] = h[i] /\ after[h[i].s] = stacks[h[i].s] BY <1>1, <1>4, <1>5, <1>6
  <2>2. /\ h[i].d < Len(stacks[h[i].s]) /\ stacks[h[i].s][h[i].d + 1] = Frame(h[i].c)
        /\ h[i].s # h[i + 1].s => Len(stacks[h[i].s]) = h[i].d + 1
    BY <1>6 DEF Placed
  <2>3. CASE i + 1 = k
    <3>1. i = k - 1 BY <2>3
    <3>2. Len(stacks[h[i].s]) = h[i].d + 1 BY <3>1 DEF Placed
    <3> QED BY <2>1, <2>2, <3>2
  <2>4. CASE i + 1 # k
    <3>1. g[i + 1] = h[i + 1] BY <2>4, <1>1, <1>6
    <3> QED BY <2>1, <2>2, <3>1
  <2> QED BY <2>3, <2>4
<1>7. ASSUME NEW i \in 1 .. k, g[i].c.pc \notin Entering
      PROVE  after[g[i].s][g[i].d] = SavedSp(g[i - 1].s)
  <2>1. g[i - 1] = h[i - 1] BY <1>1
  <2>2. CASE i = k BY <2>1, <2>2, <1>1, <1>3, <1>4
  <2>3. CASE i # k
    <3>1. g[i] = h[i] BY <2>3, <1>1
    <3>2. stacks[h[i].s][h[i].d] = SavedSp(h[i - 1].s) BY <3>1, <1>7 DEF Placed
    <3>3. after[h[i].s] = stacks[h[i].s] BY <1>4, <1>5
    <3> QED BY <2>1, <3>1, <3>2, <3>3
  <2> QED BY <2>2, <2>3
<1>8. Len(after[g[k].s]) = g[k].d /\ g[k].s = Exc BY <1>1, <1>3, <1>4
<1>9. Placed(g, k, after) BY <1>6, <1>7, <1>8 DEF Placed
<1> QED BY <1>4, <1>9 DEF g, after, new

\* or stays where it is.
LEMMA StayedPlaced ==
  ASSUME NEW task \in Tasks, NEW nesting, NEW k \in Nat \ {0}, NEW h \in [0 .. k -> Items],
         Linked(h, k, task, nesting), NEW stacks, AreStacks(stacks), Placed(h, k, stacks),
         h[k].s = h[k - 1].s,
         NEW x, x.s = h[k].s, x.d = h[k].d + 1
  PROVE  LET after == Put(stacks, h[k].s, Append(stacks[h[k].s], SavedSp(h[k].s)))
         IN  AreStacks(after) /\ Placed([h EXCEPT ![k] = x], k, after)
<1> DEFINE old == stacks[h[k].s]
           new == Append(old, SavedSp(h[k].s))
           after == Put(stacks, h[k].s, new)
           g == [h EXCEPT ![k] = x]
<1>1. g[k] = x /\ \A i \in 0 .. k - 1 : i \in 0 .. k /\ g[i] = h[i] OBVIOUS
<1>2. /\ \A i \in 0 .. k : /\ h[i].s \in Stacks /\ h[i].d \in Nat /\ h[i].m \in Nat
                           /\ Len(stacks[h[i].s]) \in Nat
                           /\ h[i].d <= Len(stacks[h[i].s])
      /\ \A i \in 1 .. k : h[i].d >= 1
      /\ \A i \in 0 .. k : i < k /\ h[i].s # h[i + 1].s => h[i].s # Exc /\ h[k].s = Exc
  <2>1. k \in Nat OBVIOUS
  <2>2. Inside(h, k, stacks) BY <2>1, InsideStacks
  <2> QED BY ONLY <2>2 DEF Inside
<1>3. IsStack(old) /\ h[k].s \in Stacks BY <1>2 DEF AreStacks
<1>4. /\ IsStack(new) /\ Len(new) = Len(old) + 1 /\ new[Len(old) + 1] = SavedSp(h[k].s)
      /\ \A i \in 1 .. Len(old) : new[i] = old[i]
  BY <1>3, Pushed
<1>5. Len(old) = h[k].d /\ old = stacks[h[k].s] BY DEF Placed
<1> HIDE DEF g, new, old
<1>6. /\ AreStacks(after) /\ after[h[k].s] = new
      /\ \A t \in Stacks : t # h[k].s => after[t] = stacks[t]
  BY <1>3, <1>4, OneStack
<1> HIDE DEF after
<1>7. \A i \in 0 .. k : g[i].s = h[i].s
  <2> SUFFICES ASSUME NEW i \in 0 .. k PROVE g[i].s = h[i].s OBVIOUS
  <2>1. CASE i = k BY <2>1, <1>1
  <2>2. CASE i # k BY <2>2, <1>1
  <2> QED BY <2>1, <2>2
<1>8. ASSUME NEW i \in 0 .. k, i < k
      PROVE  /\ g[i].d < Len(after[g[i].s])
             /\ after[g[i].s][g[i].d + 1] = Frame(g[i].c)
             /\ g[i].s # g[i + 1].s => Len(after[g[i].s]) = g[i].d + 1
  <2>1. g[i] = h[i] /\ g[i + 1].s = h[i + 1].s BY <1>1, <1>7, <1>8
  <2>2. /\ h[i].d < Len(stacks[h[i].s]) /\ stacks[h[i].s][h[i].d + 1] = Frame(h[i].c)
        /\ h[i].s # h[i + 1].s => Len(stacks[h[i].s]) = h[i].d + 1
    BY <1>8 DEF Placed
  <2>3. h[i].d \in Nat /\ h[i].s \in Stacks /\ Len(stacks[h[i].s]) \in Nat BY <1>2
  <2>4. CASE h[i].s = h[k].s
    <3>1. h[i].s = h[i + 1].s BY <2>4, <1>2, <1>8
    <3>2. after[h[i].s] = new /\ stacks[h[i].s] = old BY <2>4, <1>5, <1>6
    <3>3. h[i].d + 1 \in 1 .. Len(old) BY <2>2, <2>3, <3>2
    <3>4. h[i].d < Len(new) BY <2>2, <2>3, <3>2, <1>4
    <3>5. new[h[i].d + 1] = old[h[i].d + 1] BY <3>3, <1>4
    <3> QED BY <3>1, <3>2, <3>4, <3>5, <2>1, <2>2
  <2>5. CASE h[i].s # h[k].s
    <3>1. after[h[i].s] = stacks[h[i].s] BY <2>5, <2>3, <1>6
    <3> QED BY <3>1, <2>1, <2>2
  <2> QED BY <2>4, <2>5
<1>9. ASSUME NEW i \in 1 .. k, g[i].c.pc \notin Entering
      PROVE  after[g[i].s][g[i].d] = SavedSp(g[i - 1].s)
  <2>1. g[i - 1] = h[i - 1] BY <1>1
  <2>2. CASE i = k
    <3>1. h[k].d \in Nat BY <1>2
    <3> QED BY <2>1, <2>2, <3>1, <1>1, <1>4, <1>5, <1>6
  <2>3. CASE i # k
    <3>1. g[i] = h[i] BY <2>3, <1>1
    <3>2. stacks[h[i].s][h[i].d] = SavedSp(h[i - 1].s) BY <3>1, <1>9 DEF Placed
    <3>3. /\ h[i].d \in Nat /\ h[i].d >= 1 /\ h[i].s \in Stacks
          /\ h[i].d <= Len(stacks[h[i].s]) /\ Len(stacks[h[i].s]) \in Nat
      BY <1>2
    <3>4. CASE h[i].s = h[k].s
      <4>1. h[i].d \in 1 .. Len(old) /\ after[h[i].s] = new /\ stacks[h[i].s] = old
        BY <3>3, <3>4, <1>5, <1>6
      <4> QED BY <4>1, <2>1, <3>1, <3>2, <1>4
    <3>5. CASE h[i].s # h[k].s BY <3>1, <3>2, <3>3, <3>5, <2>1, <1>6
    <3> QED BY <3>4, <3>5
  <2> QED BY <2>2, <2>3
<1>10. Len(after[g[k].s]) = g[k].d
  <2>1. h[k].d \in Nat BY <1>2
  <2> QED BY <2>1, <1>1, <1>4, <1>5, <1>6
<1>11. g[k].s # Exc => after[Exc] = <<>>
  <2>1. Exc \in Stacks BY DEF Stacks
  <2> QED BY <2>1, <1>1, <1>6 DEF Placed
<1>12. Placed(g, k, after) BY <1>8, <1>9, <1>10, <1>11 DEF Placed
<1> QED BY <1>6, <1>12 DEF g, after, new, old

\* The handler on top ends.
LEMMA ShrunkPlaced ==
  ASSUME NEW task \in Tasks, NEW nesting, NEW k \in Nat \ {0}, NEW h \in [0 .. k -> Items],
         Linked(h, k, task, nesting), NEW stacks, AreStacks(stacks), Placed(h, k, stacks),
         h[k].c.pc \notin Entering
  PROVE  LET before == Last(stacks[h[k].s]).on
             popped == Put(stacks, h[k].s, Front(stacks[h[k].s]))
             after  == Put(popped, before, Front(popped[before]))
         IN  /\ before = h[k - 1].s
             /\ Last(popped[before]) = Frame(h[k - 1].c)
             /\ Len(popped[before]) = h[k - 1].d + 1
             /\ AreStacks(popped) /\ AreStacks(after)
             /\ Placed(Shrunk(h, k), k - 1, after)
<1> DEFINE a == h[k - 1]
           old == stacks[h[k].s]
           before == Last(old).on
           popped == Put(stacks, h[k].s, Front(old))
           after == Put(popped, before, Front(popped[before]))
           g == Shrunk(h, k)
<1>1. \A i \in 0 .. k - 1 : i \in 0 .. k /\ g[i] = h[i] BY DEF Shrunk
<1>2. /\ \A i \in 0 .. k : /\ h[i].s \in Stacks /\ h[i].d \in Nat /\ h[i].m \in Nat
                           /\ Len(stacks[h[i].s]) \in Nat
                           /\ h[i].d <= Len(stacks[h[i].s])
      /\ \A i \in 1 .. k : h[i].d >= 1
      /\ \A i \in 0 .. k : i < k /\ h[i].s # h[i + 1].s => h[i].s # Exc /\ h[k].s = Exc
  <2>1. k \in Nat OBVIOUS
  <2>2. Inside(h, k, stacks) BY <2>1, InsideStacks
  <2> QED BY ONLY <2>2 DEF Inside
<1>3. /\ k - 1 \in 0 .. k /\ a.s \in Stacks /\ a.d \in Nat /\ h[k].s \in Stacks /\ h[k].d \in Nat
      /\ h[k].d >= 1
  <2>1. k - 1 \in 0 .. k /\ k \in 0 .. k /\ k \in 1 .. k OBVIOUS
  <2> QED BY <2>1, <1>2
<1>4. Len(old) = h[k].d /\ old = stacks[h[k].s] /\ old[h[k].d] = SavedSp(a.s) BY DEF Placed
<1>5. before = a.s BY <1>4 DEF Last, SavedSp
<1>6. /\ a.d < Len(stacks[a.s]) /\ stacks[a.s][a.d + 1] = Frame(a.c)
      /\ a.s # h[k].s => Len(stacks[a.s]) = a.d + 1
  <2>1. k - 1 < k /\ (k - 1) + 1 = k OBVIOUS
  <2> QED BY <2>1, <1>3 DEF Placed
<1>7. \/ h[k].s = a.s /\ h[k].d = a.d + 2
      \/ a.s # Exc /\ h[k].s = Exc /\ h[k].d = 1
  <2>1. Link(h[k - 1], h[k]) BY DEF Linked
  <2> QED BY <2>1 DEF Link
<1>8. /\ IsStack(Front(old)) /\ Len(Front(old)) = Len(old) - 1
      /\ \A i \in 1 .. Len(old) - 1 : Front(old)[i] = old[i]
  <2>1. IsStack(old) /\ Len(old) > 0 BY <1>3, <1>4 DEF AreStacks
  <2> QED BY <2>1, Popped
<1> HIDE DEF old, before, g
<1>9. /\ AreStacks(popped) /\ popped[h[k].s] = Front(old)
      /\ \A t \in Stacks : t # h[k].s => popped[t] = stacks[t]
  BY <1>3, <1>8, OneStack
<1> HIDE DEF popped
<1>10. Len(popped[a.s]) = a.d + 1 /\ popped[a.s][a.d + 1] = Frame(a.c)
  <2>1. CASE a.s = h[k].s
    <3>1. h[k].d = a.d + 2 BY <2>1, <1>7
    <3>2. a.d + 1 \in 1 .. Len(old) - 1 BY <3>1, <1>3, <1>4
    <3>3. Front(old)[a.d + 1] = old[a.d + 1] BY <3>2, <1>8
    <3>4. Len(Front(old)) = a.d + 1 BY <3>1, <1>3, <1>4, <1>8
    <3> QED BY <2>1, <3>3, <3>4, <1>4, <1>6, <1>9
  <2>2. CASE a.s # h[k].s BY <2>2, <1>3, <1>6, <1>9
  <2> QED BY <2>1, <2>2
<1> DEFINE new == Front(popped[a.s])
<1>11. /\ IsStack(new) /\ Len(new) = a.d
       /\ \A i \in 1 .. a.d : new[i] = popped[a.s][i]
  <2>1. IsStack(popped[a.s]) /\ Len(popped[a.s]) > 0 BY <1>3, <1>9, <1>10 DEF AreStacks
  <2>2. Len(popped[a.s]) - 1 = a.d BY <1>3, <1>10
  <2> QED BY <2>1, <2>2, Popped
<1>12. after = Put(popped, a.s, new) BY <1>5
<1> HIDE DEF after, new
<1>13. /\ AreStacks(after) /\ after[a.s] = new
       /\ \A t \in Stacks : t # a.s => after[t] = popped[t]
  BY <1>3, <1>9, <1>11, <1>12, OneStack
\* What the other items left is still there.
<1>14. ASSUME NEW t \in Stacks, NEW i \in Nat, i >= 1,
              t = a.s => i <= a.d,
              t # a.s => t # h[k].s
       PROVE  after[t][i] = stacks[t][i] /\ (t # a.s => after[t] = stacks[t])
  <2>1. CASE t = a.s
    <3>1. after[t][i] = popped[t][i] BY <2>1, <1>3, <1>11, <1>13, <1>14
    <3>2. CASE a.s = h[k].s
      <4>1. i \in 1 .. Len(old) - 1 BY <2>1, <3>2, <1>3, <1>4, <1>7, <1>14
      <4> QED BY <2>1, <3>1, <3>2, <4>1, <1>4, <1>8, <1>9
    <3>3. CASE a.s # h[k].s BY <2>1, <3>1, <3>3, <1>9
    <3> QED BY <2>1, <3>2, <3>3
  <2>2. CASE t # a.s BY <2>2, <1>9, <1>13, <1>14
  <2> QED BY <2>1, <2>2
<1>15. \A i \in 0 .. k - 1 : h[i].s = a.s \/ h[i].s # h[k].s
  <2> SUFFICES ASSUME NEW i \in 0 .. k - 1, h[i].s # a.s PROVE h[i].s # h[k].s OBVIOUS
  <2>1. i < k - 1 /\ i \in 0 .. k OBVIOUS
  <2>2. (h[i].s = Exc => a.s = Exc) /\ h[i].s \in {task, Exc} /\ a.s \in {task, Exc}
        /\ (a.s = Exc => h[k].s = Exc)
    BY <2>1, <1>3 DEF Linked
  <2>3. h[i].s # Exc /\ a.s = Exc BY <2>2
  <2> QED BY <2>2, <2>3
<1>16. ASSUME NEW i \in 0 .. k - 1, i < k - 1
       PROVE  /\ g[i].d < Len(after[g[i].s])
              /\ after[g[i].s][g[i].d + 1] = Frame(g[i].c)
              /\ g[i].s # g[i + 1].s => Len(after[g[i].s]) = g[i].d + 1
  <2>1. g[i] = h[i] /\ g[i + 1] = h[i + 1] BY <1>1, <1>16
  <2>2. /\ h[i].d < Len(stacks[h[i].s]) /\ stacks[h[i].s][h[i].d + 1] = Frame(h[i].c)
        /\ h[i].s # h[i + 1].s => Len(stacks[h[i].s]) = h[i].d + 1
    BY DEF Placed
  <2>3. h[i].s \in Stacks /\ h[i].d \in Nat /\ h[i].s \in {task, Exc} /\ h[i + 1].s \in {task, Exc}
    BY <1>2 DEF Linked
  <2>4. h[i].s = a.s => h[i].d < a.d BY <1>3, <1>16 DEF Linked
  <2>5. after[h[i].s][h[i].d + 1] = stacks[h[i].s][h[i].d + 1]
        /\ (h[i].s # a.s => after[h[i].s] = stacks[h[i].s])
    <3>1. h[i].d + 1 \in Nat /\ h[i].d + 1 >= 1 /\ (h[i].s = a.s => h[i].d + 1 <= a.d)
          /\ (h[i].s # a.s => h[i].s # h[k].s)
      BY <2>3, <2>4, <1>3, <1>15
    <3> QED BY <2>3, <3>1, <1>14
  <2>6. CASE h[i].s = a.s
    <3>1. h[i].s = h[i + 1].s
      <4>1. (h[i].s = Exc => h[i + 1].s = Exc) BY <1>16 DEF Linked
      <4>2. i + 1 = k - 1 \/ (h[i + 1].s = Exc => a.s = Exc) BY <1>3, <1>16 DEF Linked
      <4> QED BY <2>3, <2>6, <4>1, <4>2
    <3> QED BY <2>1, <2>2, <2>4, <2>5, <2>6, <3>1, <1>11, <1>13
  <2>7. CASE h[i].s # a.s BY <2>1, <2>2, <2>5, <2>7
  <2> QED BY <2>6, <2>7
<1>17. ASSUME NEW i \in 1 .. k - 1, g[i].c.pc \notin Entering
       PROVE  after[g[i].s][g[i].d] = SavedSp(g[i - 1].s)
  <2>1. g[i] = h[i] /\ g[i - 1] = h[i - 1] BY <1>1
  <2>2. stacks[h[i].s][h[i].d] = SavedSp(h[i - 1].s) BY <2>1, <1>17 DEF Placed
  <2>3. h[i].s \in Stacks /\ h[i].d \in Nat /\ h[i].d >= 1 BY <1>2
  <2>4. h[i].s = a.s => h[i].d <= a.d
    <3>1. i = k - 1 \/ (h[i].s = a.s => h[i].d < a.d) BY <1>3 DEF Linked
    <3> QED BY <3>1, <2>3, <1>3
  <2>5. h[i].s # a.s => h[i].s # h[k].s BY <1>15
  <2> QED BY <2>1, <2>2, <2>3, <2>4, <2>5, <1>14
<1>18. g[k - 1].s # Exc => after[Exc] = <<>>
  <2> SUFFICES ASSUME a.s # Exc PROVE after[Exc] = <<>> BY <1>1
  <2>1. Exc \in Stacks BY DEF Stacks
  <2>2. after[Exc] = popped[Exc] BY <2>1, <1>13
  <2>3. CASE h[k].s = Exc
    <3>1. h[k].d = 1 BY <2>3, <1>7
    <3>2. Len(old) = 1 BY <3>1, <1>4
    <3>3. IsStack(Front(old)) /\ Len(Front(old)) = 0 BY <3>2, <1>8
    <3> QED BY <2>2, <2>3, <3>3, <1>9, NoLength
  <2>4. CASE h[k].s # Exc BY <2>1, <2>2, <2>4, <1>9 DEF Placed
  <2> QED BY <2>3, <2>4
<1>19. Len(after[g[k - 1].s]) = g[k - 1].d BY <1>1, <1>11, <1>13
<1>20. Placed(g, k - 1, after) BY <1>16, <1>17, <1>18, <1>19 DEF Placed
<1>21. Last(popped[a.s]) = Frame(a.c) BY <1>10 DEF Last
<1> QED BY <1>5, <1>9, <1>10, <1>13, <1>20, <1>21 DEF g, after, popped, before, old, a

-----------------------------------------------------------------------------
(* The invariant *)

AtMostOne(levels) == \A p, q \in levels : p = q

\* A task that was switched away from, and where: in one of pcs.
Saved(s, t, pcs) ==
  \E c \in Contexts, how \in {"start", "call", "interrupt", "exception"},
     act \in SUBSET Levels, nesting \in Nat :
       /\ s = <<Frame(c), Switched(how, act, nesting)>>
       /\ OfTask(c, t, nesting) /\ c.pc \in pcs
       /\ how = "interrupt" => AtMostOne(act)

Left(s, t) == Saved(s, t, TaskPCs \ {"held"})

\* All tasks but one are left.
AllLeft(stacks, task) == \A t \in Tasks \ {task} : Left(stacks[t], t)

\* The chain h of k handlers is what the port's variables hold.
Shape(h, k) ==
  /\ Linked(h, k, current, crit) /\ Placed(h, k, stack)
  /\ ctx = h[k].c /\ on = h[k].s /\ exc_nest_count = h[k].m
  /\ irq_act = {h[i].c.of : i \in 1 .. k}

Handlers(h, k) == {h[i].c : i \in 1 .. k}

\* With the running task at c under the handlers H: it is the most urgent
\* one, or a handler has asked for a switch, or is about to ask.
Scheduled(c, H) ==
  /\ suspended \in {0, 1}
  /\ suspended = 1 <=> c.pc = "held"
  /\ suspended = 0 => pending = {}
  /\ reqflg => H # {}
  /\ \/ current \in Highest(ready)
     \/ /\ suspended = 0
        /\ reqflg \/ \E b \in H : b.pc = "woken"

OneKernelLevel == \A p, q \in KernelLevels : p = q

\* A give is under way at most once, so what it has read stays true; and a
\* task that is not ready has been given nothing.
Counting(H) ==
  /\ value = sent
  /\ \A b \in H : b.pc = "giving" =>
       /\ b.of \in KernelLevels /\ b.n = value[b.to]
       /\ b.waited \/ b.to \in ready \cup pending
  /\ \A t \in Tasks :
       \/ t \in ready \cup pending
       \/ /\ sent[t] = 0
          /\ \/ notifyState[t] = "waiting"
             \/ \E b \in H : b.pc = "giving" /\ b.waited /\ b.to = t

Runs(h, k) ==
  /\ Shape(h, k)
  /\ Scheduled(h[0].c, Handlers(h, k))
  /\ OneKernelLevel => Counting(Handlers(h, k))

States == {"not waiting", "waiting", "received"}

Data ==
  /\ current \in Tasks /\ crit \in Nat
  /\ reqflg \in BOOLEAN /\ yieldPending \in BOOLEAN
  /\ ready \in SUBSET Tasks /\ pending \in SUBSET Tasks
  /\ notifyState \in [Tasks -> States]
  /\ value \in [Tasks -> Nat] /\ sent \in [Tasks -> Nat]

Others == AllLeft(stack, current)

Booting ==
  /\ ctx = Context(Boot, "boot", FALSE) /\ on = Exc /\ stack[Exc] = <<>>
  /\ irq_act = {} /\ exc_nest_count = 0 /\ ~reqflg
  /\ suspended = 0 /\ pending = {} /\ ready = Tasks /\ current \in Highest(ready)
  /\ value = sent
  /\ \A t \in Tasks : Left(stack[t], t)

\* Every task was left on its own stack.
OwnStacks == top = [t \in Tasks |-> t]

TaskInv ==
  /\ Data
  /\ AreStacks(stack) /\ OwnStacks
  /\ ctx.of = Boot => Booting
  /\ ctx.of # Boot =>
       /\ Others
       /\ \E k \in Nat : \E h \in [0 .. k -> Items] : Runs(h, k)

\* The running task is not interrupted.
AtTask ==
  /\ ctx \in Contexts /\ OfTask(ctx, current, crit) /\ on = current
  /\ stack[current] = <<>> /\ stack[Exc] = <<>>
  /\ irq_act = {} /\ exc_nest_count = 0
  /\ Scheduled(ctx, {})
  /\ OneKernelLevel => Counting({})

-----------------------------------------------------------------------------
(* Switching *)

LEMMA SavedGoesOn ==
  ASSUME NEW st, AreStacks(st), NEW t \in Tasks, NEW pcs, Saved(st[t], t, pcs),
         Resume(st, t, {})
  PROVE  /\ ctx' \in Contexts /\ crit' \in Nat /\ OfTask(ctx', t, crit')
         /\ ctx'.pc \in pcs /\ on' = t /\ irq_act' = {}
         /\ AreStacks(stack') /\ stack'[t] = <<>>
         /\ \A s \in Stacks : s # t => stack'[s] = st[s]
<1>1. PICK c \in Contexts, how \in {"start", "call", "interrupt", "exception"},
           act \in SUBSET Levels, nesting \in Nat :
             /\ st[t] = <<Frame(c), Switched(how, act, nesting)>>
             /\ OfTask(c, t, nesting) /\ c.pc \in pcs
             /\ how = "interrupt" => AtMostOne(act)
  BY DEF Saved
<1>2. /\ Last(st[t]) = Switched(how, act, nesting)
      /\ Front(st[t]) = <<Frame(c)>> /\ Last(Front(st[t])) = Frame(c)
      /\ Front(Front(st[t])) = <<>>
  <2> DEFINE a == Frame(c)
             b == Switched(how, act, nesting)
  <2>1. st[t] = <<a, b>> BY <1>1
  <2> HIDE DEF a, b
  <2>2. /\ Last(<<a, b>>) = b /\ Front(<<a, b>>) = <<a>>
        /\ Front(<<a>>) = <<>> /\ Last(<<a>>) = a
    BY PairStack
  <2>3. Last(st[t]) = b /\ Front(st[t]) = <<a>> BY <2>1, <2>2
  <2>4. Last(Front(st[t])) = a /\ Front(Front(st[t])) = <<>> BY <2>2, <2>3
  <2> QED BY <2>3, <2>4 DEF a, b
<1>3. ctx' = c /\ crit' = nesting /\ on' = t
  BY <1>2 DEF Resume, Frame, Switched
<1>4. irq_act' = {}
  <2>1. irq_act' = IF how = "interrupt" THEN {q \in act : \E p \in act : p < q} ELSE {}
    BY <1>2 DEF Resume, Switched
  <2>2. how = "interrupt" => {q \in act : \E p \in act : p < q} = {}
    <3> SUFFICES ASSUME how = "interrupt", NEW q \in act, NEW p \in act, p < q PROVE FALSE
      OBVIOUS
    <3>1. p = q /\ q \in Nat BY <1>1, LevelAssumption DEF AtMostOne
    <3> QED BY <3>1
  <2> QED BY <2>1, <2>2
<1>5. stack' = Put(st, t, <<>>) BY <1>2 DEF Resume, Put
<1>6. /\ AreStacks(stack') /\ stack'[t] = <<>>
      /\ \A s \in Stacks : s # t => stack'[s] = st[s]
  <2>1. t \in Stacks BY DEF Stacks
  <2>2. /\ AreStacks(Put(st, t, <<>>)) /\ Put(st, t, <<>>)[t] = <<>>
        /\ \A s \in Stacks : s # t => Put(st, t, <<>>)[s] = st[s]
    BY <2>1, EmptyStack, OneStack
  <2> QED BY <1>5, <2>2
<1> QED BY <1>1, <1>3, <1>4, <1>6

LEMMA SwitchGoesOn ==
  ASSUME OwnStacks, current \in Tasks, irq_act \subseteq Levels,
         NEW st, AreStacks(st), st[Exc] = <<>>,
         NEW c \in Contexts, NEW nesting \in Nat,
         st[current] = <<Frame(c)>>, OfTask(c, current, nesting),
         AllLeft(st, current),
         NEW how \in {"start", "call", "interrupt", "exception"},
         how = "interrupt" => AtMostOne(irq_act),
         NEW tasks \in SUBSET Tasks, NEW depth \in {0, 1}, depth = 0 => c.pc # "held",
         NEW act, act = {},
         Dispatcher(st, current, how, act, nesting, tasks, depth)
  PROVE  /\ current' \in Tasks /\ yieldPending' \in BOOLEAN /\ top' = top
         /\ ctx' \in Contexts /\ crit' \in Nat /\ OfTask(ctx', current', crit')
         /\ on' = current' /\ irq_act' = {}
         /\ AreStacks(stack') /\ stack'[current'] = <<>> /\ stack'[Exc] = <<>>
         /\ AllLeft(stack', current')
         /\ depth = 0 => current' \in Highest(tasks) /\ ctx'.pc # "held"
         /\ depth = 1 => current' = current /\ ctx'.pc = c.pc
<1> DEFINE new == <<Frame(c), Switched(how, irq_act, nesting)>>
           pcs == IF depth = 0 THEN TaskPCs \ {"held"} ELSE {c.pc}
<1>1. PICK left : left = Put(st, current, new) OBVIOUS
<1>2. /\ SelectTask(tasks, depth)
      /\ top' = [top EXCEPT ![current] = current]
      /\ Resume(left, top'[current'], {})
  <2>1. Append(st[current], Switched(how, irq_act, nesting)) = new BY PairStack
  <2>2. left = [st EXCEPT ![current] = Append(@, Switched(how, irq_act, nesting))]
    BY <1>1, <2>1 DEF Put
  <2> QED BY <2>2 DEF Dispatcher
<1>3. /\ current' \in Tasks /\ yieldPending' \in BOOLEAN
      /\ depth = 0 => current' \in Highest(tasks)
      /\ depth = 1 => current' = current
  <2>1. Highest(tasks) \subseteq Tasks BY DEF Highest
  <2>2. TRUE \in BOOLEAN /\ FALSE \in BOOLEAN OBVIOUS
  <2>3. CASE depth = 0
    <3>1. (yieldPending' = FALSE) /\ current' \in Highest(tasks) BY <1>2, <2>3 DEF SelectTask
    <3>2. yieldPending' \in BOOLEAN BY <3>1, Zenon
    <3>3. current' \in Tasks BY <2>1, <3>1
    <3> QED BY <2>3, <3>1, <3>2, <3>3
  <2>4. CASE depth = 1
    <3>1. (yieldPending' = TRUE) /\ current' = current BY <1>2, <2>4 DEF SelectTask
    <3>2. yieldPending' \in BOOLEAN BY <3>1, Zenon
    <3> QED BY <2>4, <3>1, <3>2
  <2> QED BY <2>3, <2>4
<1>4. top' = top BY <1>2 DEF OwnStacks
<1>5. top'[current'] = current' BY <1>3, <1>4 DEF OwnStacks
<1>6. IsStack(new) /\ current \in Stacks /\ Exc \in Stacks /\ current # Exc
  BY PairStack, TaskAssumption DEF Stacks
<1>7. Saved(new, current, {c.pc}) BY DEF Saved
<1>8. depth = 0 => Left(new, current)
  <2> SUFFICES ASSUME depth = 0 PROVE Left(new, current) OBVIOUS
  <2>1. c.pc \in TaskPCs \ {"held"} BY DEF OfTask
  <2> QED BY <2>1 DEF Saved, Left
<1> HIDE DEF new
<1>9. /\ AreStacks(left) /\ left[current] = new
      /\ \A t \in Stacks : t # current => left[t] = st[t]
  BY <1>1, <1>6, OneStack
<1>10. PICK next : next = current' OBVIOUS
<1>11. next \in Tasks /\ Resume(left, next, {}) BY <1>2, <1>3, <1>5, <1>10
<1>12. Tasks \subseteq Stacks BY DEF Stacks
<1>13. \A t \in Tasks \ {next} : Left(left[t], t)
  <2> SUFFICES ASSUME NEW t \in Tasks \ {next} PROVE Left(left[t], t) OBVIOUS
  <2>1. CASE t # current BY <2>1, <1>9, <1>12 DEF AllLeft
  <2>2. CASE t = current
    <3>1. depth = 0 BY <2>2, <1>3, <1>10
    <3> QED BY <2>2, <3>1, <1>8, <1>9
  <2> QED BY <2>1, <2>2
<1>14. Saved(left[next], next, pcs)
  <2>1. CASE next = current
    <3>1. CASE depth = 0 BY <2>1, <3>1, <1>8, <1>9 DEF Left
    <3>2. CASE depth = 1 BY <2>1, <3>2, <1>7, <1>9
    <3> QED BY <3>1, <3>2
  <2>2. CASE next # current
    <3>1. depth = 0 BY <2>2, <1>3, <1>10
    <3>2. Left(left[next], next) BY <2>2, <1>9, <1>11, <1>12 DEF AllLeft
    <3> QED BY <3>1, <3>2 DEF Left
  <2> QED BY <2>1, <2>2
<1> HIDE DEF pcs
<1>15. /\ ctx' \in Contexts /\ crit' \in Nat /\ OfTask(ctx', next, crit')
       /\ ctx'.pc \in pcs /\ on' = next /\ irq_act' = {}
       /\ AreStacks(stack') /\ stack'[next] = <<>>
       /\ \A s \in Stacks : s # next => stack'[s] = left[s]
  BY <1>9, <1>11, <1>14, SavedGoesOn
<1>16. stack'[Exc] = <<>>
  <2>1. next # Exc BY <1>11, TaskAssumption
  <2> QED BY <2>1, <1>6, <1>9, <1>15
<1>17. AllLeft(stack', next)
  <2> SUFFICES ASSUME NEW t \in Tasks \ {next} PROVE Left(stack'[t], t) BY DEF AllLeft
  <2>1. stack'[t] = left[t] BY <1>12, <1>15
  <2> QED BY <2>1, <1>13
<1>18. (depth = 0 => ctx'.pc # "held") /\ (depth = 1 => ctx'.pc = c.pc) BY <1>15 DEF pcs
<1> QED BY <1>3, <1>4, <1>10, <1>15, <1>16, <1>17, <1>18

-----------------------------------------------------------------------------
(* Tasks and handlers in the chain *)

\* Item 0 is a task, the others are handlers.
LEMMA Ranks ==
  ASSUME NEW k \in Nat, NEW h \in [0 .. k -> Items], current \in Tasks, Shape(h, k)
  PROVE  /\ ctx \in Contexts /\ on \in Stacks /\ exc_nest_count \in Nat
         /\ irq_act \subseteq Levels /\ ctx.of # Boot
         /\ k = 0 => ctx.of \in Tasks /\ ctx.of \notin Levels
         /\ k > 0 => ctx.of \in Levels /\ ctx.of \notin Tasks
                     /\ Handler(ctx) /\ Link(h[k - 1], h[k])
<1>1. k \in 0 .. k /\ h[k] \in Items OBVIOUS
<1>2. ctx \in Contexts /\ on \in Stacks /\ exc_nest_count \in Nat BY <1>1 DEF Shape, Items
<1>3. \A i \in 1 .. k : Link(h[i - 1], h[i]) BY DEF Shape, Linked
<1>4. irq_act \subseteq Levels
  <2>1. \A i \in 1 .. k : h[i].c.of \in Levels BY <1>3 DEF Link, Handler
  <2> QED BY <2>1 DEF Shape
<1>5. ASSUME k = 0 PROVE ctx.of \in Tasks /\ ctx.of \notin Levels /\ ctx.of # Boot
  <2>1. ctx.of = current BY <1>5 DEF Shape, Linked, OfTask
  <2> QED BY <2>1, TaskAssumption, LevelAssumption
<1>6. ASSUME k > 0
      PROVE  ctx.of \in Levels /\ ctx.of \notin Tasks /\ Handler(ctx) /\ Link(h[k - 1], h[k])
             /\ ctx.of # Boot
  <2>1. Link(h[k - 1], h[k]) BY <1>3, <1>6
  <2>2. Handler(ctx) BY <2>1 DEF Link, Shape
  <2>3. ctx.of \in Levels BY <2>2 DEF Handler
  <2> QED BY <2>1, <2>2, <2>3, LevelAssumption
<1> QED BY <1>2, <1>4, <1>5, <1>6

LEMMA TaskRuns ==
  ASSUME TaskInv, ctx.of \in Tasks
  PROVE  AtTask /\ Others /\ Data /\ AreStacks(stack) /\ OwnStacks
<1>1. ctx.of # Boot BY TaskAssumption
<1>2. PICK k \in Nat : \E h \in [0 .. k -> Items] : Runs(h, k) BY <1>1 DEF TaskInv
<1>3. PICK h \in [0 .. k -> Items] : Runs(h, k) BY <1>2
<1>4. current \in Tasks BY DEF TaskInv, Data
<1>5. k = 0 /\ Shape(h, 0) BY <1>3, <1>4, Ranks DEF Runs
<1>6. Handlers(h, 0) = {} BY DEF Handlers
<1>7. Scheduled(h[0].c, {}) /\ (OneKernelLevel => Counting({}))
  BY <1>3, <1>5, <1>6 DEF Runs
<1>8. /\ h[0].s = current /\ h[0].d = 0 /\ h[0].m = 0 /\ OfTask(h[0].c, current, crit)
      /\ ctx = h[0].c /\ on = current /\ exc_nest_count = 0
      /\ Len(stack[current]) = 0 /\ (current # Exc => stack[Exc] = <<>>)
      /\ irq_act = {h[i].c.of : i \in 1 .. 0}
  BY <1>5 DEF Shape, Linked, Placed
<1>9. stack[current] = <<>> /\ stack[Exc] = <<>>
  <2>1. IsStack(stack[current]) BY <1>4 DEF TaskInv, AreStacks, Stacks
  <2>2. current # Exc BY <1>4, TaskAssumption
  <2> QED BY <1>8, <2>1, <2>2, NoLength
<1>10. irq_act = {} BY <1>8
<1>11. ctx \in Contexts BY <1>3, <1>4, <1>5, Ranks DEF Runs
<1>12. AtTask BY <1>7, <1>8, <1>9, <1>10, <1>11 DEF AtTask
<1> QED BY <1>1, <1>12 DEF TaskInv

LEMMA TaskReached ==
  ASSUME Data', AreStacks(stack'), OwnStacks', Others', AtTask'
  PROVE  TaskInv'
<1>1. /\ current' \in Tasks /\ crit' \in Nat /\ ctx' \in Contexts
      /\ OfTask(ctx', current', crit') /\ on' = current'
      /\ stack'[current'] = <<>> /\ stack'[Exc] = <<>>
      /\ irq_act' = {} /\ exc_nest_count' = 0
      /\ Scheduled(ctx, {})' /\ (OneKernelLevel => Counting({})')
  BY DEF Data, AtTask, OfTask, OneKernelLevel
<1>2. PICK c, task, nesting, stacks :
        c = ctx' /\ task = current' /\ nesting = crit' /\ stacks = stack'
  OBVIOUS
<1> DEFINE h == Fresh(c, task)
<1>3. h \in [0 .. 0 -> Items] /\ Linked(h, 0, task, nesting) /\ Placed(h, 0, stacks)
  <2>1. Len(stacks[task]) = 0 BY <1>1, <1>2, EmptyStack
  <2> QED BY <1>1, <1>2, <2>1, FreshChain
<1>4. h[0].c = c /\ h[0].s = task /\ h[0].m = 0 BY DEF Fresh
<1> HIDE DEF h
<1>5. irq_act' = {h[i].c.of : i \in 1 .. 0} BY <1>1
<1>6. Shape(h, 0)' BY <1>1, <1>2, <1>3, <1>4, <1>5 DEF Shape
<1>7. Handlers(h, 0) = {} BY DEF Handlers
<1>8. Runs(h, 0)'
  <2>1. Scheduled(h[0].c, Handlers(h, 0))' BY <1>1, <1>2, <1>4, <1>7
  <2>2. (OneKernelLevel => Counting(Handlers(h, 0))') BY <1>1, <1>7
  <2> QED BY <1>6, <2>1, <2>2 DEF Runs, OneKernelLevel
<1>9. ctx'.of # Boot BY <1>1, TaskAssumption DEF OfTask
<1>10. \E k \in Nat : \E g \in [0 .. k -> Items] : Runs(g, k)' BY <1>3, <1>8
<1> QED BY <1>9, <1>10 DEF TaskInv

\* The running task goes on by itself.
LEMMA TaskGoesOn ==
  ASSUME TaskInv, ctx.of \in Tasks,
         UNCHANGED <<on, stack, top, irq_act, exc_nest_count, reqflg, current>>,
         ctx' \in Contexts, OfTask(ctx', current, crit'), Scheduled(ctx, {})',
         Data', OneKernelLevel => Counting({})'
  PROVE  TaskInv'
<1>1. AtTask /\ Others /\ AreStacks(stack) /\ OwnStacks BY TaskRuns
<1>2. AreStacks(stack') /\ OwnStacks' BY <1>1 DEF OwnStacks
<1>3. Others' BY <1>1 DEF Others
<1>4. /\ on' = current' /\ stack'[current'] = <<>> /\ stack'[Exc] = <<>>
      /\ irq_act' = {} /\ exc_nest_count' = 0
  BY <1>1 DEF AtTask
<1>5. AtTask' BY <1>4 DEF AtTask, OneKernelLevel
<1> QED BY <1>2, <1>3, <1>5, TaskReached

\* The running task goes on as c, and gives the processor to the most urgent
\* of tasks, which can be itself.
LEMMA TaskGivesWay ==
  ASSUME TaskInv, ctx.of \in Tasks,
         NEW c \in Contexts, NEW nesting \in Nat, OfTask(c, current, nesting),
         NEW how \in {"call", "exception"}, NEW tasks \in SUBSET Tasks, NEW depth \in {0, 1},
         Dispatcher([stack EXCEPT ![on] = Append(@, Frame(c))], on,
                    how, irq_act, nesting, tasks, depth),
         ready' = tasks, suspended' = depth,
         depth = 1 <=> c.pc = "held",
         depth = 1 => current \in Highest(tasks),
         pending' \in SUBSET Tasks, depth = 0 => pending' = {},
         UNCHANGED <<exc_nest_count, reqflg>>,
         notifyState' \in [Tasks -> States],
         value' \in [Tasks -> Nat], sent' \in [Tasks -> Nat],
         OneKernelLevel => Counting({})'
  PROVE  TaskInv'
<1>1. AtTask /\ Others /\ Data /\ AreStacks(stack) /\ OwnStacks BY TaskRuns
<1>2. /\ current \in Tasks /\ on = current /\ stack[current] = <<>> /\ stack[Exc] = <<>>
      /\ irq_act = {} /\ exc_nest_count = 0 /\ ~reqflg
  BY <1>1 DEF AtTask, Data, Scheduled
<1>3. PICK st : st = Put(stack, current, <<Frame(c)>>) OBVIOUS
<1>4. Append(stack[current], Frame(c)) = <<Frame(c)>> BY <1>2, PairStack
<1>5. st = [stack EXCEPT ![on] = Append(@, Frame(c))] BY <1>2, <1>3, <1>4 DEF Put
<1>6. PICK act : act = {} OBVIOUS
<1> DEFINE Moves == Dispatcher(st, current, how, act, nesting, tasks, depth)
<1>61. Moves BY <1>2, <1>5, <1>6
<1>7. current \in Stacks /\ Exc \in Stacks /\ current # Exc /\ Tasks \subseteq Stacks
  BY <1>2, TaskAssumption DEF Stacks
<1>8. IsStack(<<Frame(c)>>) BY PairStack
<1>9. /\ AreStacks(st) /\ st[current] = <<Frame(c)>>
      /\ \A t \in Stacks : t # current => st[t] = stack[t]
  BY ONLY <1>1, <1>3, <1>7, <1>8, OneStack
<1>10. st[Exc] = <<>> /\ AllLeft(st, current)
  BY <1>1, <1>2, <1>7, <1>9 DEF Others, AllLeft
<1>11. /\ how \in {"start", "call", "interrupt", "exception"}
       /\ how = "interrupt" => AtMostOne(irq_act)
  OBVIOUS
<1>12. irq_act \subseteq Levels /\ (depth = 0 => c.pc # "held") /\ OfTask(c, current, nesting) BY <1>2
<1>13. /\ current' \in Tasks /\ yieldPending' \in BOOLEAN /\ top' = top
       /\ ctx' \in Contexts /\ crit' \in Nat /\ OfTask(ctx', current', crit')
       /\ on' = current' /\ irq_act' = {}
       /\ AreStacks(stack') /\ stack'[current'] = <<>> /\ stack'[Exc] = <<>>
       /\ AllLeft(stack', current')
       /\ depth = 0 => current' \in Highest(tasks) /\ ctx'.pc # "held"
       /\ depth = 1 => current' = current /\ ctx'.pc = c.pc
  <2>1. OwnStacks /\ current \in Tasks /\ act = {} BY ONLY <1>1, <1>2, <1>6
  <2>2. AreStacks(st) /\ st[Exc] = <<>> /\ st[current] = <<Frame(c)>> /\ AllLeft(st, current)
    BY ONLY <1>9, <1>10
  <2> QED BY ONLY <2>1, <2>2, <1>61, <1>11, <1>12, SwitchGoesOn
<1>14. current' \in Highest(ready') BY <1>13
<1>15. reqflg' \in BOOLEAN /\ ~reqflg' BY <1>1, <1>2 DEF Data
<1>16. Data'
  <2>1. ready' \in SUBSET Tasks /\ crit' \in Nat BY <1>13
  <2> QED BY <2>1, <1>13, <1>15, Zenon DEF Data
<1>17. Scheduled(ctx, {})' BY <1>13, <1>14, <1>15 DEF Scheduled
<1>18. AtTask' BY <1>2, <1>13, <1>17 DEF AtTask, OneKernelLevel
<1>19. Others' BY <1>13 DEF Others
<1>20. OwnStacks' BY <1>1, <1>13 DEF OwnStacks
<1> QED BY <1>13, <1>16, <1>18, <1>19, <1>20, TaskReached

-----------------------------------------------------------------------------
(* The steps of tasks *)

LEMMA RunningTask ==
  ASSUME TaskInv, ctx.of \in Tasks
  PROVE  /\ Data /\ current \in Tasks /\ crit \in Nat
         /\ ctx \in Contexts /\ ctx.of = current /\ OfTask(ctx, current, crit)
         /\ on = current /\ irq_act = {} /\ exc_nest_count = 0 /\ ~reqflg
         /\ current \in Highest(ready)
         /\ suspended \in {0, 1} /\ (suspended = 1 <=> ctx.pc = "held")
         /\ suspended = 0 => pending = {}
         /\ OneKernelLevel => Counting({})
BY TaskRuns DEF AtTask, Data, Scheduled, OfTask

LEMMA EnterCriticalKeeps == TaskInv /\ EnterCritical => TaskInv'
<1> SUFFICES ASSUME TaskInv, EnterCritical PROVE TaskInv' OBVIOUS
<1>1. /\ ctx.of \in Tasks /\ ctx.pc \in {"run", "critical"}
      /\ ctx' = [ctx EXCEPT !.pc = "critical", !.ie = FALSE] /\ crit' = crit + 1
      /\ UNCHANGED <<on, stack, top, irq_act, exc_nest_count, reqflg, current,
                     lists, suspended, yieldPending, notes>>
  BY DEF EnterCritical, Running
<1>2. /\ Data /\ crit \in Nat /\ ctx \in Contexts /\ OfTask(ctx, current, crit)
      /\ suspended = 0 /\ pending = {} /\ ~reqflg /\ current \in Highest(ready)
      /\ OneKernelLevel => Counting({})
  BY <1>1, RunningTask
<1>3. ctx' \in Contexts /\ ctx'.pc = "critical" BY <1>1, <1>2 DEF Contexts, PCs
<1>4. OfTask(ctx', current, crit') BY <1>1, <1>2 DEF OfTask, TaskPCs, Contexts
<1>5. Scheduled(ctx, {})' BY <1>1, <1>2, <1>3 DEF Scheduled, Highest, lists
<1>6. Data' BY <1>1, <1>2 DEF Data, lists, notes
<1>7. OneKernelLevel => Counting({})' BY <1>1, <1>2 DEF Counting, lists, notes
<1> QED BY <1>1, <1>3, <1>4, <1>5, <1>6, <1>7, TaskGoesOn

LEMMA ExitCriticalKeeps ==
  ASSUME TaskInv,
         NEW inside \in {"critical", "taking", "leaving"}, NEW then \in {"run", "taken"},
         ExitCritical(inside, then)
  PROVE  TaskInv'
<1>1. /\ ctx.of \in Tasks /\ ctx.pc = inside
      /\ crit' = IF crit > 0 THEN crit - 1 ELSE crit
      /\ ctx' = [ctx EXCEPT !.pc = IF crit > 1 THEN @ ELSE then, !.ie = @ \/ crit = 1]
      /\ UNCHANGED <<on, stack, top, irq_act, exc_nest_count, reqflg, current,
                     lists, suspended, yieldPending, notes>>
  BY DEF ExitCritical, Running
<1>2. /\ Data /\ crit \in Nat /\ ctx \in Contexts /\ OfTask(ctx, current, crit)
      /\ suspended = 0 /\ pending = {} /\ ~reqflg /\ current \in Highest(ready)
      /\ OneKernelLevel => Counting({})
  BY <1>1, RunningTask
<1>3. crit > 0 /\ ~ctx.ie BY <1>1, <1>2 DEF OfTask
<1>4. crit' = crit - 1 /\ crit' \in Nat BY <1>1, <1>2, <1>3
<1>5. /\ ctx' \in Contexts /\ OfTask(ctx', current, crit') /\ ctx'.pc # "held"
  <2>1. CASE crit > 1
    <3>1. ctx' = [ctx EXCEPT !.pc = inside, !.ie = FALSE]
      <4>1. (ctx.ie \/ crit = 1) = FALSE BY <1>2, <1>3, <2>1
      <4> QED BY <1>1, <2>1, <4>1
    <3>2. ctx' \in Contexts BY <1>2, <3>1 DEF Contexts, PCs
    <3>3. ctx'.of = ctx.of /\ ctx'.pc = inside /\ ctx'.n = ctx.n BY <1>2, <3>1 DEF Contexts
    <3>4. ctx'.ie = FALSE BY <1>2, <3>1 DEF Contexts
    <3>5. crit' > 0 /\ crit' # 0 BY <1>2, <1>4, <2>1
    <3>6. OfTask(ctx', current, crit') BY <1>2, <3>3, <3>4, <3>5 DEF OfTask, TaskPCs
    <3> QED BY <3>2, <3>3, <3>6
  <2>2. CASE crit = 1
    <3>1. ctx' = [ctx EXCEPT !.pc = then, !.ie = TRUE]
      <4>1. (ctx.ie \/ crit = 1) = TRUE /\ (crit > 1) = FALSE BY <2>2
      <4> QED BY <1>1, <2>2, <4>1
    <3>2. ctx' \in Contexts BY <1>2, <3>1 DEF Contexts, PCs
    <3>3. ctx'.of = ctx.of /\ ctx'.pc = then /\ ctx'.n = ctx.n BY <1>2, <3>1 DEF Contexts
    <3>4. ctx'.ie = TRUE BY <1>2, <3>1 DEF Contexts
    <3>5. crit' = 0 /\ ~(crit' > 0) BY <1>2, <1>4, <2>2
    <3>6. OfTask(ctx', current, crit') BY <1>2, <3>3, <3>4, <3>5 DEF OfTask, TaskPCs
    <3> QED BY <3>2, <3>3, <3>6
  <2> QED BY <1>2, <1>3, <2>1, <2>2
<1>6. Scheduled(ctx, {})' BY <1>1, <1>2, <1>5 DEF Scheduled, Highest, lists
<1>7. Data' BY <1>1, <1>2, <1>4 DEF Data, lists, notes
<1>8. OneKernelLevel => Counting({})' BY <1>1, <1>2 DEF Counting, lists, notes
<1> QED BY <1>1, <1>5, <1>6, <1>7, <1>8, TaskGoesOn

LEMMA vPortYieldKeeps == TaskInv /\ vPortYield => TaskInv'
<1> SUFFICES ASSUME TaskInv, vPortYield PROVE TaskInv' OBVIOUS
<1>1. /\ ctx.of \in Tasks /\ ctx.pc \in {"run", "held"}
      /\ Dispatch(ctx, crit, ready, suspended)
      /\ UNCHANGED <<exc_nest_count, reqflg, lists, suspended, notes>>
  BY DEF vPortYield, Running
<1>2. /\ Data /\ crit \in Nat /\ ctx \in Contexts /\ OfTask(ctx, current, crit)
      /\ suspended \in {0, 1} /\ (suspended = 1 <=> ctx.pc = "held")
      /\ suspended = 0 => pending = {}
      /\ current \in Highest(ready)
      /\ OneKernelLevel => Counting({})
  BY <1>1, RunningTask
<1>3. PICK c, nesting, tasks, depth :
        c = ctx /\ nesting = crit /\ tasks = ready /\ depth = suspended
  OBVIOUS
<1>4. Dispatcher([stack EXCEPT ![on] = Append(@, Frame(c))], on,
                 "call", irq_act, nesting, tasks, depth)
  BY <1>1, <1>3 DEF Dispatch
<1>5. /\ ready' = tasks /\ suspended' = depth /\ pending' = pending
      /\ UNCHANGED <<exc_nest_count, reqflg>>
      /\ notifyState' = notifyState /\ value' = value /\ sent' = sent
  BY <1>1, <1>3 DEF lists, notes
<1>6. OneKernelLevel => Counting({})' BY <1>2, <1>3, <1>5 DEF Counting
<1>7. /\ c \in Contexts /\ nesting \in Nat /\ OfTask(c, current, nesting)
      /\ tasks \in SUBSET Tasks /\ depth \in {0, 1}
      /\ depth = 1 <=> c.pc = "held"
      /\ depth = 1 => current \in Highest(tasks)
      /\ pending' \in SUBSET Tasks /\ (depth = 0 => pending' = {})
      /\ notifyState' \in [Tasks -> States]
      /\ value' \in [Tasks -> Nat] /\ sent' \in [Tasks -> Nat]
  BY <1>2, <1>3, <1>5 DEF Data
<1> QED BY <1>1, <1>4, <1>5, <1>6, <1>7, TaskGivesWay

LEMMA TakeKeeps == TaskInv /\ ulTaskNotifyTake => TaskInv'
<1> SUFFICES ASSUME TaskInv, ulTaskNotifyTake PROVE TaskInv' OBVIOUS
<1> DEFINE then == Context(current, "taking", FALSE)
<1>1. /\ ctx.of \in Tasks /\ ctx.pc = "run"
      /\ UNCHANGED <<exc_nest_count, reqflg, pending, suspended, value, sent>>
  BY DEF ulTaskNotifyTake, Running
<1>2. /\ Data /\ current \in Tasks /\ crit \in Nat /\ OfTask(ctx, current, crit)
      /\ suspended = 0 /\ pending = {} /\ ~reqflg /\ current \in Highest(ready)
      /\ OneKernelLevel => Counting({})
  BY <1>1, RunningTask
<1>3. then \in Contexts /\ then.of = current /\ then.pc = "taking" /\ then.ie = FALSE
  BY <1>2 DEF Contexts, Context, PCs
<1>4. crit + 1 \in Nat /\ crit + 1 > 0 /\ crit + 1 # 0 BY <1>2
<1>5. OfTask(then, current, crit + 1) BY <1>3, <1>4 DEF OfTask, TaskPCs
<1> HIDE DEF then
<1>6. CASE value[current] = 0
  <2>1. /\ notifyState' = [notifyState EXCEPT ![current] = "waiting"]
        /\ ready' = ready \ {current}
        /\ Dispatch(then, crit + 1, ready', suspended)
    BY <1>6 DEF ulTaskNotifyTake, then
  <2>2. PICK c, nesting, tasks, depth :
          c = then /\ nesting = crit + 1 /\ tasks = ready' /\ depth = 0
    OBVIOUS
  <2>3. Dispatcher([stack EXCEPT ![on] = Append(@, Frame(c))], on,
                   "call", irq_act, nesting, tasks, depth)
    BY <1>2, <2>1, <2>2 DEF Dispatch
  <2>4. /\ notifyState' \in [Tasks -> States] /\ notifyState'[current] = "waiting"
        /\ \A t \in Tasks : t # current => notifyState'[t] = notifyState[t]
    BY <1>2, <2>1 DEF Data, States
  <2>5. ASSUME OneKernelLevel PROVE Counting({})'
    <3>1. value' = sent' /\ sent[current] = 0 BY <1>1, <1>2, <1>6, <2>5 DEF Counting
    <3>2. ASSUME NEW t \in Tasks, t \notin ready' \cup pending'
          PROVE  sent'[t] = 0 /\ notifyState'[t] = "waiting"
      <4>1. CASE t = current BY <4>1, <1>1, <2>4, <3>1
      <4>2. CASE t # current
        <5>1. t \notin ready \cup pending BY <4>2, <1>1, <2>1, <3>2
        <5>2. sent[t] = 0 /\ notifyState[t] = "waiting"
          BY <5>1, <1>2, <2>5, <3>2 DEF Counting
        <5> QED BY <4>2, <5>2, <1>1, <2>4
      <4> QED BY <4>1, <4>2
    <3> QED BY <3>1, <3>2 DEF Counting
  <2>6. /\ c \in Contexts /\ nesting \in Nat /\ OfTask(c, current, nesting)
        /\ tasks \in SUBSET Tasks /\ depth \in {0, 1}
        /\ depth = 1 <=> c.pc = "held"
        /\ depth = 1 => current \in Highest(tasks)
    BY <1>2, <1>3, <1>4, <1>5, <2>1, <2>2 DEF Data
  <2>7. /\ ready' = tasks /\ suspended' = depth
        /\ pending' \in SUBSET Tasks /\ (depth = 0 => pending' = {})
        /\ UNCHANGED <<exc_nest_count, reqflg>>
        /\ value' \in [Tasks -> Nat] /\ sent' \in [Tasks -> Nat]
    BY <1>1, <1>2, <2>2 DEF Data
  <2> QED BY ONLY TaskInv, <1>1, <2>3, <2>4, <2>5, <2>6, <2>7, TaskGivesWay
<1>7. CASE value[current] # 0
  <2>1. /\ ctx' = then /\ crit' = crit + 1
        /\ UNCHANGED <<on, stack, top, irq_act, current, ready, yieldPending, notifyState>>
    BY <1>7 DEF ulTaskNotifyTake, then
  <2>2. ctx' \in Contexts /\ OfTask(ctx', current, crit') /\ ctx'.pc # "held"
    BY <1>3, <1>5, <2>1
  <2>3. Scheduled(ctx, {})' BY <1>1, <1>2, <2>1, <2>2 DEF Scheduled, Highest
  <2>4. Data' BY <1>1, <1>2, <1>4, <2>1 DEF Data
  <2>5. OneKernelLevel => Counting({})' BY <1>1, <1>2, <2>1 DEF Counting
  <2> QED BY <1>1, <2>1, <2>2, <2>3, <2>4, <2>5, TaskGoesOn
<1> QED BY <1>6, <1>7

LEMMA TakeCountKeeps == TaskInv /\ TakeCount => TaskInv'
<1> SUFFICES ASSUME TaskInv, TakeCount PROVE TaskInv' OBVIOUS
<1>1. /\ ctx.of \in Tasks /\ ctx.pc = "taken"
      /\ value' = [value EXCEPT ![current] = IF @ = 0 THEN 0 ELSE @ - 1]
      /\ sent' = [sent EXCEPT ![current] = IF @ = 0 THEN 0 ELSE @ - 1]
      /\ notifyState' = [notifyState EXCEPT ![current] = "not waiting"]
      /\ ctx' = [ctx EXCEPT !.pc = "run"]
      /\ UNCHANGED <<port, current, lists, suspended, yieldPending>>
  BY DEF TakeCount, Running
<1>2. /\ Data /\ current \in Tasks /\ crit \in Nat /\ ctx \in Contexts /\ OfTask(ctx, current, crit)
      /\ suspended = 0 /\ pending = {} /\ ~reqflg /\ current \in Highest(ready)
      /\ OneKernelLevel => Counting({})
  BY <1>1, RunningTask
<1>3. ctx' \in Contexts /\ ctx'.of = ctx.of /\ ctx'.pc = "run" /\ ctx'.ie = ctx.ie
  BY <1>1, <1>2 DEF Contexts, PCs
<1>4. OfTask(ctx', current, crit')
  <2>1. crit' = crit BY <1>1 DEF port
  <2> QED BY <1>1, <1>2, <1>3, <2>1 DEF OfTask, TaskPCs
<1>5. Scheduled(ctx, {})'
  <2>1. /\ suspended' = 0 /\ pending' = {} /\ ~reqflg'
        /\ ready' = ready /\ current' = current
    BY <1>1, <1>2 DEF lists, port
  <2> QED BY <1>2, <1>3, <2>1 DEF Scheduled, Highest
<1>6. /\ value' \in [Tasks -> Nat] /\ sent' \in [Tasks -> Nat]
      /\ notifyState' \in [Tasks -> States]
      /\ \A t \in Tasks : t # current => /\ sent'[t] = sent[t]
                                         /\ notifyState'[t] = notifyState[t]
  <2>1. value[current] \in Nat /\ sent[current] \in Nat BY <1>2 DEF Data
  <2>2. /\ (IF value[current] = 0 THEN 0 ELSE value[current] - 1) \in Nat
        /\ (IF sent[current] = 0 THEN 0 ELSE sent[current] - 1) \in Nat
    BY <2>1
  <2> QED BY <1>1, <1>2, <2>2 DEF Data, States
<1>7. Data' BY <1>1, <1>2, <1>6 DEF Data, lists, port
<1>8. ASSUME OneKernelLevel PROVE Counting({})'
  <2>1. value = sent /\ value' = sent' BY <1>1, <1>2, <1>8 DEF Counting
  <2>2. current \in ready' BY <1>1, <1>2 DEF Highest, lists
  <2>3. ASSUME NEW t \in Tasks, t \notin ready' \cup pending'
        PROVE  sent'[t] = 0 /\ notifyState'[t] = "waiting"
    <3>1. t # current /\ t \notin ready \cup pending BY <1>1, <2>2, <2>3 DEF lists
    <3>2. sent[t] = 0 /\ notifyState[t] = "waiting" BY <3>1, <1>2, <1>8 DEF Counting
    <3> QED BY <3>1, <3>2, <1>6
  <2> QED BY <2>1, <2>3 DEF Counting
<1>9. UNCHANGED <<on, stack, top, irq_act, exc_nest_count, reqflg, current>> BY <1>1 DEF port
<1> QED BY ONLY TaskInv, <1>1, <1>3, <1>4, <1>5, <1>7, <1>8, <1>9, TaskGoesOn

\* Counting when no handler runs, after a step that gives to u.
LEMMA GivenIsCounted ==
  ASSUME Data, NEW u \in Tasks, Counting({}),
         value' = [value EXCEPT ![u] = @ + 1], sent' = [sent EXCEPT ![u] = @ + 1],
         notifyState' = [notifyState EXCEPT ![u] = "received"],
         ready' = IF notifyState[u] = "waiting" THEN ready \cup {u} ELSE ready,
         pending' = pending
  PROVE  Counting({})'
<1>1. value = sent /\ value' = sent' BY DEF Counting
<1>2. ASSUME NEW t \in Tasks, t \notin ready' \cup pending'
      PROVE  sent'[t] = 0 /\ notifyState'[t] = "waiting"
  <2>1. ready \subseteq ready' OBVIOUS
  <2>2. t \notin ready \cup pending BY <1>2, <2>1
  <2>3. sent[t] = 0 /\ notifyState[t] = "waiting" BY <2>2 DEF Counting
  <2>4. t # u BY <1>2, <2>3
  <2> QED BY <2>3, <2>4 DEF Data
<1> QED BY <1>1, <1>2 DEF Counting

LEMMA GiveKeeps ==
  ASSUME TaskInv, NEW u \in Tasks, xTaskNotifyGive(u)
  PROVE  TaskInv'
<1> DEFINE then == Context(current, "leaving", FALSE)
           urgent == notifyState[u] = "waiting" /\ Priority[u] > Priority[current]
<1>1. /\ ctx.of \in Tasks /\ ctx.pc = "run"
      /\ value' = [value EXCEPT ![u] = @ + 1] /\ sent' = [sent EXCEPT ![u] = @ + 1]
      /\ notifyState' = [notifyState EXCEPT ![u] = "received"]
      /\ ready' = IF notifyState[u] = "waiting" THEN ready \cup {u} ELSE ready
      /\ UNCHANGED <<exc_nest_count, reqflg, pending, suspended>>
  BY DEF xTaskNotifyGive, Running
<1>2. /\ Data /\ current \in Tasks /\ crit \in Nat /\ ctx \in Contexts /\ OfTask(ctx, current, crit)
      /\ suspended = 0 /\ pending = {} /\ ~reqflg /\ current \in Highest(ready)
      /\ OneKernelLevel => Counting({})
  BY <1>1, RunningTask
<1>3. then \in Contexts /\ then.of = current /\ then.pc = "leaving" /\ then.ie = FALSE
  BY <1>2 DEF Contexts, Context, PCs
<1>4. crit + 1 \in Nat /\ crit + 1 > 0 /\ crit + 1 # 0 BY <1>2
<1>5. OfTask(then, current, crit + 1) BY <1>3, <1>4 DEF OfTask, TaskPCs
<1>6. OneKernelLevel => Counting({})' BY <1>1, <1>2, GivenIsCounted
<1>7. /\ value' \in [Tasks -> Nat] /\ sent' \in [Tasks -> Nat]
      /\ notifyState' \in [Tasks -> States] /\ ready' \in SUBSET Tasks
  <2>1. value[u] + 1 \in Nat /\ sent[u] + 1 \in Nat BY <1>2 DEF Data
  <2> QED BY <1>1, <1>2, <2>1 DEF Data, States
<1>8. CASE urgent
  <2>1. Dispatch(then, crit + 1, ready', suspended) BY <1>8 DEF xTaskNotifyGive
  <2> HIDE DEF then
  <2>2. PICK c, nesting, tasks, depth :
          c = then /\ nesting = crit + 1 /\ tasks = ready' /\ depth = 0
    OBVIOUS
  <2>3. Dispatcher([stack EXCEPT ![on] = Append(@, Frame(c))], on,
                   "call", irq_act, nesting, tasks, depth)
    BY <1>2, <2>1, <2>2 DEF Dispatch
  <2>4. /\ c \in Contexts /\ nesting \in Nat /\ OfTask(c, current, nesting)
        /\ tasks \in SUBSET Tasks /\ depth \in {0, 1}
        /\ depth = 1 <=> c.pc = "held"
        /\ depth = 1 => current \in Highest(tasks)
    BY <1>2, <1>3, <1>4, <1>5, <1>7, <2>2
  <2>5. /\ ready' = tasks /\ suspended' = depth
        /\ pending' \in SUBSET Tasks /\ (depth = 0 => pending' = {})
        /\ UNCHANGED <<exc_nest_count, reqflg>>
    BY <1>1, <1>2, <2>2 DEF Data
  <2>6. ctx.of \in Tasks BY <1>1
  <2> HIDE DEF urgent
  <2> QED BY ONLY TaskInv, <1>6, <1>7, <2>3, <2>4, <2>5, <2>6, TaskGivesWay
<1>9. CASE ~urgent
  <2>1. UNCHANGED <<ctx, on, stack, top, irq_act, crit, current, yieldPending>>
    BY <1>9 DEF xTaskNotifyGive
  <2>2. current \in Highest(ready')
    <3>1. Priority[u] \in Nat /\ Priority[current] \in Nat BY <1>2, TaskAssumption
    <3>2. notifyState[u] = "waiting" => Priority[u] <= Priority[current] BY <3>1, <1>9
    <3> QED BY <3>2, <1>1, <1>2 DEF Highest
  <2>3. Scheduled(ctx, {})'
    <3>1. current' \in Highest(ready)' BY <2>1, <2>2 DEF Highest
    <3>2. suspended' = 0 /\ pending' = {} /\ ~reqflg' /\ ctx'.pc = "run" BY <1>1, <1>2, <2>1
    <3> QED BY <3>1, <3>2 DEF Scheduled
  <2>4. Data' BY <1>1, <1>2, <1>7, <2>1 DEF Data
  <2>5. ctx' \in Contexts /\ OfTask(ctx', current, crit') BY <1>2, <2>1
  <2> QED BY ONLY TaskInv, <1>1, <1>6, <2>1, <2>3, <2>4, <2>5, TaskGoesOn
<1> QED BY <1>8, <1>9

LEMMA SuspendAllKeeps == TaskInv /\ vTaskSuspendAll => TaskInv'
<1> SUFFICES ASSUME TaskInv, vTaskSuspendAll PROVE TaskInv' OBVIOUS
<1>1. /\ ctx.of \in Tasks /\ ctx.pc = "run"
      /\ ctx' = [ctx EXCEPT !.pc = "suspending", !.n = suspended]
      /\ UNCHANGED <<port, current, lists, suspended, yieldPending, notes>>
  BY DEF vTaskSuspendAll, Running
<1>2. /\ Data /\ current \in Tasks /\ crit \in Nat /\ ctx \in Contexts /\ OfTask(ctx, current, crit)
      /\ suspended = 0 /\ pending = {} /\ ~reqflg /\ current \in Highest(ready)
      /\ OneKernelLevel => Counting({})
  BY <1>1, RunningTask
<1>3. /\ UNCHANGED <<on, stack, top, irq_act, exc_nest_count, reqflg, crit, current,
                     ready, pending, suspended, yieldPending, notifyState, value, sent>>
  BY <1>1 DEF port, lists, notes
<1>4. ctx' \in Contexts /\ ctx'.of = ctx.of /\ ctx'.pc = "suspending" /\ ctx'.ie = ctx.ie /\ ctx'.n = 0
  BY <1>1, <1>2 DEF Contexts, PCs
<1>5. OfTask(ctx', current, crit') BY <1>1, <1>2, <1>3, <1>4 DEF OfTask, TaskPCs
<1>6. Scheduled(ctx, {})' BY <1>2, <1>3, <1>4 DEF Scheduled, Highest
<1>7. Data' BY <1>2, <1>3 DEF Data
<1>8. OneKernelLevel => Counting({})' BY <1>2, <1>3 DEF Counting
<1> QED BY <1>1, <1>3, <1>4, <1>5, <1>6, <1>7, <1>8, TaskGoesOn

LEMMA StoreSuspendedKeeps == TaskInv /\ StoreSuspended => TaskInv'
<1> SUFFICES ASSUME TaskInv, StoreSuspended PROVE TaskInv' OBVIOUS
<1>1. /\ ctx.of \in Tasks /\ ctx.pc = "suspending"
      /\ suspended' = ctx.n + 1
      /\ ctx' = [ctx EXCEPT !.pc = "held", !.n = 0]
      /\ UNCHANGED <<port, current, lists, yieldPending, notes>>
  BY DEF StoreSuspended, Running
<1>2. /\ Data /\ current \in Tasks /\ crit \in Nat /\ ctx \in Contexts /\ OfTask(ctx, current, crit)
      /\ suspended = 0 /\ pending = {} /\ ~reqflg /\ current \in Highest(ready)
      /\ OneKernelLevel => Counting({})
  BY <1>1, RunningTask
<1>3. /\ UNCHANGED <<on, stack, top, irq_act, exc_nest_count, reqflg, crit, current,
                     ready, pending, yieldPending, notifyState, value, sent>>
  BY <1>1 DEF port, lists, notes
<1>4. ctx' \in Contexts /\ ctx'.of = ctx.of /\ ctx'.pc = "held" /\ ctx'.ie = ctx.ie
  BY <1>1, <1>2 DEF Contexts, PCs
<1>5. suspended' = 1 BY <1>1, <1>2 DEF OfTask
<1>6. OfTask(ctx', current, crit') BY <1>1, <1>2, <1>3, <1>4 DEF OfTask, TaskPCs
<1>7. Scheduled(ctx, {})' BY <1>2, <1>3, <1>4, <1>5 DEF Scheduled, Highest
<1>8. Data' BY <1>2, <1>3 DEF Data
<1>9. OneKernelLevel => Counting({})' BY <1>2, <1>3 DEF Counting
<1> QED BY <1>1, <1>3, <1>4, <1>6, <1>7, <1>8, <1>9, TaskGoesOn

LEMMA ResumeAllKeeps == TaskInv /\ xTaskResumeAll => TaskInv'
<1> SUFFICES ASSUME TaskInv, xTaskResumeAll PROVE TaskInv' OBVIOUS
<1> DEFINE then == Context(current, "leaving", FALSE)
<1>1. /\ ctx.of \in Tasks /\ ctx.pc = "held"
      /\ suspended' = suspended - 1
      /\ UNCHANGED <<exc_nest_count, reqflg, notes>>
  BY DEF xTaskResumeAll, Running
<1>2. /\ Data /\ current \in Tasks /\ crit \in Nat /\ ctx \in Contexts /\ OfTask(ctx, current, crit)
      /\ suspended = 1 /\ ~reqflg /\ current \in Highest(ready)
      /\ OneKernelLevel => Counting({})
  BY <1>1, RunningTask
<1>3. /\ suspended' = 0 /\ ready' = ready \cup pending /\ pending' = {}
      /\ \/ YieldAtResume /\ Dispatch(then, crit + 1, ready', suspended')
         \/ /\ ~YieldAtResume
            /\ ctx' = [ctx EXCEPT !.pc = "run"]
            /\ UNCHANGED <<on, stack, top, irq_act, crit, current, yieldPending>>
  <2>1. suspended' = 0 /\ ready' = ready \cup pending /\ pending' = {}
    BY <1>2 DEF xTaskResumeAll
  <2>2. CASE YieldAtResume
    <3>1. Dispatch(then, crit + 1, ready', suspended') BY <1>2, <2>2 DEF xTaskResumeAll
    <3> QED BY <2>1, <2>2, <3>1
  <2>3. CASE ~YieldAtResume
    <3>1. /\ ctx' = [ctx EXCEPT !.pc = IF suspended = 1 THEN "run" ELSE "held"]
          /\ UNCHANGED <<on, stack, top, irq_act, crit, current, yieldPending>>
      BY <1>2, <2>3 DEF xTaskResumeAll
    <3>2. (IF suspended = 1 THEN "run" ELSE "held") = "run" BY <1>2
    <3> HIDE DEF then
    <3> QED BY <2>1, <2>3, <3>1, <3>2
  <2> QED BY <2>2, <2>3
<1>4. then \in Contexts /\ then.of = current /\ then.pc = "leaving" /\ then.ie = FALSE
  BY <1>2 DEF Contexts, Context, PCs
<1>5. crit + 1 \in Nat /\ crit + 1 > 0 /\ crit + 1 # 0 BY <1>2
<1>6. OfTask(then, current, crit + 1) BY <1>4, <1>5 DEF OfTask, TaskPCs
<1> HIDE DEF then
<1>7. /\ notifyState' = notifyState /\ value' = value /\ sent' = sent BY <1>1 DEF notes
<1>8. ready' \in SUBSET Tasks /\ pending' \in SUBSET Tasks BY <1>2, <1>3 DEF Data
<1>9. OneKernelLevel => Counting({})' BY <1>2, <1>3, <1>7 DEF Counting
<1>10. /\ notifyState' \in [Tasks -> States]
       /\ value' \in [Tasks -> Nat] /\ sent' \in [Tasks -> Nat]
  BY <1>2, <1>7 DEF Data
<1>11. CASE YieldAtResume
  <2>1. Dispatch(then, crit + 1, ready', suspended') BY <1>3, <1>11
  <2>2. PICK c, nesting, tasks, depth :
          c = then /\ nesting = crit + 1 /\ tasks = ready' /\ depth = 0
    OBVIOUS
  <2>3. Dispatcher([stack EXCEPT ![on] = Append(@, Frame(c))], on,
                   "call", irq_act, nesting, tasks, depth)
    BY <1>3, <2>1, <2>2 DEF Dispatch
  <2>4. /\ c \in Contexts /\ nesting \in Nat /\ OfTask(c, current, nesting)
        /\ tasks \in SUBSET Tasks /\ depth \in {0, 1}
        /\ depth = 1 <=> c.pc = "held"
        /\ depth = 1 => current \in Highest(tasks)
    BY <1>4, <1>5, <1>6, <1>8, <2>2
  <2>5. /\ ready' = tasks /\ suspended' = depth
        /\ pending' \in SUBSET Tasks /\ (depth = 0 => pending' = {})
        /\ UNCHANGED <<exc_nest_count, reqflg>>
    BY <1>1, <1>3, <1>8, <2>2
  <2>6. ctx.of \in Tasks BY <1>1
  <2> QED BY ONLY TaskInv, <1>9, <1>10, <2>3, <2>4, <2>5, <2>6, TaskGivesWay
<1>12. CASE ~YieldAtResume
  <2>1. /\ ctx' = [ctx EXCEPT !.pc = "run"]
        /\ UNCHANGED <<on, stack, top, irq_act, crit, current, yieldPending>>
    BY <1>3, <1>12
  <2>2. ctx' \in Contexts /\ ctx'.of = ctx.of /\ ctx'.pc = "run" /\ ctx'.ie = ctx.ie
    BY <1>2, <2>1 DEF Contexts, PCs
  <2>3. OfTask(ctx', current, crit') BY <1>1, <1>2, <2>1, <2>2 DEF OfTask, TaskPCs
  <2>4. current \in Highest(ready')
    <3>1. \A u \in pending : Priority[u] <= Priority[current]
      <4> SUFFICES ASSUME NEW u \in pending PROVE Priority[u] <= Priority[current] OBVIOUS
      <4>1. ~(Priority[u] >= Priority[current]) BY <1>12 DEF YieldAtResume
      <4>2. u \in Tasks BY <1>2 DEF Data
      <4>3. Priority[u] \in Nat /\ Priority[current] \in Nat BY <1>2, <4>2, TaskAssumption
      <4> QED BY <4>1, <4>3
    <3> QED BY <3>1, <1>2, <1>3 DEF Highest
  <2>5. Scheduled(ctx, {})'
    <3>1. current' \in Highest(ready)' BY <2>1, <2>4 DEF Highest
    <3>2. suspended' = 0 /\ pending' = {} /\ ~reqflg' BY <1>1, <1>2, <1>3
    <3> QED BY <3>1, <3>2, <2>2 DEF Scheduled
  <2>6. Data' BY <1>1, <1>2, <1>8, <1>10, <2>1 DEF Data
  <2> QED BY ONLY TaskInv, <1>1, <1>9, <2>1, <2>2, <2>3, <2>5, <2>6, TaskGoesOn
<1> QED BY <1>11, <1>12

LEMMA TaskTrapKeeps == TaskInv /\ ctx.of \in Tasks /\ Trap => TaskInv'
<1> SUFFICES ASSUME TaskInv, ctx.of \in Tasks, Trap PROVE TaskInv' OBVIOUS
<1>1. /\ Data /\ crit \in Nat /\ ctx \in Contexts /\ OfTask(ctx, current, crit)
      /\ exc_nest_count = 0 /\ irq_act = {}
      /\ suspended \in {0, 1} /\ (suspended = 1 <=> ctx.pc = "held")
      /\ suspended = 0 => pending = {}
      /\ current \in Highest(ready)
      /\ OneKernelLevel => Counting({})
  BY RunningTask
<1>2. /\ Dispatcher([stack EXCEPT ![on] = Append(@, Frame(ctx))], on,
                    "exception", irq_act, crit, ready, suspended)
      /\ UNCHANGED <<exc_nest_count, reqflg, lists, suspended, notes>>
  BY <1>1 DEF Trap
<1>3. PICK c, nesting, tasks, depth :
        c = ctx /\ nesting = crit /\ tasks = ready /\ depth = suspended
  OBVIOUS
<1>4. Dispatcher([stack EXCEPT ![on] = Append(@, Frame(c))], on,
                 "exception", irq_act, nesting, tasks, depth)
  BY <1>2, <1>3
<1>5. /\ ready' = tasks /\ suspended' = depth /\ pending' = pending
      /\ UNCHANGED <<exc_nest_count, reqflg>>
      /\ notifyState' = notifyState /\ value' = value /\ sent' = sent
  BY <1>2, <1>3 DEF lists, notes
<1>6. OneKernelLevel => Counting({})' BY <1>1, <1>5, <1>3 DEF Counting
<1>7. /\ c \in Contexts /\ nesting \in Nat /\ OfTask(c, current, nesting)
      /\ tasks \in SUBSET Tasks /\ depth \in {0, 1}
      /\ depth = 1 <=> c.pc = "held"
      /\ depth = 1 => current \in Highest(tasks)
      /\ pending' \in SUBSET Tasks /\ (depth = 0 => pending' = {})
      /\ notifyState' \in [Tasks -> States]
      /\ value' \in [Tasks -> Nat] /\ sent' \in [Tasks -> Nat]
  BY <1>1, <1>3, <1>5 DEF Data
<1> QED BY <1>4, <1>5, <1>6, <1>7, TaskGivesWay

-----------------------------------------------------------------------------
(* The steps of handlers *)

LEMMA RunningHandler ==
  ASSUME TaskInv, ctx.of \in Levels
  PROVE  /\ Data /\ current \in Tasks /\ AreStacks(stack) /\ OwnStacks /\ Others
         /\ \E k \in Nat \ {0} : \E h \in [0 .. k -> Items] : Runs(h, k)
<1>1. ctx.of # Boot /\ ctx.of \notin Tasks BY LevelAssumption
<1>2. PICK k \in Nat : \E h \in [0 .. k -> Items] : Runs(h, k) BY <1>1 DEF TaskInv
<1>3. PICK h \in [0 .. k -> Items] : Runs(h, k) BY <1>2
<1>4. current \in Tasks BY DEF TaskInv, Data
<1>5. k # 0 BY <1>1, <1>3, <1>4, Ranks DEF Runs
<1>6. \E j \in Nat \ {0} : \E g \in [0 .. j -> Items] : Runs(g, j) BY <1>3, <1>5
<1> QED BY <1>1, <1>4, <1>6 DEF TaskInv

LEMMA ChainReached ==
  ASSUME Data', AreStacks(stack'), OwnStacks', Others', ctx'.of # Boot,
         NEW k \in Nat, NEW h \in [0 .. k -> Items], Shape(h, k)',
         Scheduled(h[0].c, Handlers(h, k))',
         OneKernelLevel => Counting(Handlers(h, k))'
  PROVE  TaskInv'
<1>1. Runs(h, k)' BY DEF Runs, OneKernelLevel
<1>2. \E j \in Nat : \E g \in [0 .. j -> Items] : Runs(g, j)' BY <1>1
<1> QED BY <1>2 DEF TaskInv

\* The handler on top is a member apart, at a level of its own.
LEMMA TopHandler ==
  ASSUME current \in Tasks, NEW k \in Nat \ {0}, NEW h \in [0 .. k -> Items], Shape(h, k)
  PROVE  /\ Handlers(h, k) = Handlers(h, k - 1) \cup {ctx}
         /\ \A b \in Handlers(h, k - 1) : b.of # ctx.of
         /\ irq_act = {h[i].c.of : i \in 1 .. k - 1} \cup {ctx.of}
         /\ ctx.of \notin {h[i].c.of : i \in 1 .. k - 1}
         /\ Handler(ctx) /\ Link(h[k - 1], h[k])
         /\ ctx \in Contexts /\ ctx.of \in Levels /\ ctx.of # Boot
<1>1. ctx = h[k].c BY DEF Shape
<1>2. 1 .. k = (1 .. k - 1) \cup {k} OBVIOUS
<1>3. Handlers(h, k) = Handlers(h, k - 1) \cup {ctx} BY <1>1, <1>2 DEF Handlers
<1>4. \A i \in 1 .. k - 1 : h[i].c.of # ctx.of
  <2> SUFFICES ASSUME NEW i \in 1 .. k - 1 PROVE h[i].c.of # ctx.of OBVIOUS
  <2>1. h[k].c.of < h[i].c.of BY DEF Shape, Linked
  <2>2. h[k].c.of \in Levels /\ h[i].c.of \in Levels BY DEF Shape, Linked, Link, Handler
  <2>3. h[k].c.of \in Nat /\ h[i].c.of \in Nat BY <2>2, LevelAssumption
  <2>4. h[k].c.of # h[i].c.of BY <2>1, <2>3
  <2> QED BY <1>1, <2>4
<1>5. \A b \in Handlers(h, k - 1) : b.of # ctx.of BY <1>4 DEF Handlers
<1>6. irq_act = {h[i].c.of : i \in 1 .. k - 1} \cup {ctx.of} BY <1>1, <1>2 DEF Shape
<1> QED BY <1>3, <1>4, <1>5, <1>6, Ranks

\* Only handlers that are not needed for a switch or a count leave.
LEMMA QuietHandler ==
  ASSUME NEW c, NEW A, NEW B, NEW b,
         Scheduled(c, A), OneKernelLevel => Counting(A),
         B \subseteq A, \A a \in A \ B : a.pc \notin {"woken", "giving"}, b.pc # "giving",
         UNCHANGED <<current, ready, pending, suspended, reqflg, notifyState, value, sent>>
  PROVE  Scheduled(c, B \cup {b})' /\ (OneKernelLevel => Counting(B \cup {b})')
<1>1. Scheduled(c, B \cup {b})'
  <2>1. /\ suspended' \in {0, 1} /\ (suspended' = 1 <=> c.pc = "held")
        /\ (suspended' = 0 => pending' = {}) /\ (reqflg' => B \cup {b} # {})
    BY DEF Scheduled
  <2>2. \/ current' \in Highest(ready')
        \/ /\ suspended' = 0
           /\ reqflg' \/ \E a \in B \cup {b} : a.pc = "woken"
    <3>1. CASE current \in Highest(ready) BY <3>1 DEF Highest
    <3>2. CASE suspended = 0 /\ reqflg BY <3>2
    <3>3. CASE suspended = 0 /\ \E a \in A : a.pc = "woken" BY <3>3
    <3> QED BY <3>1, <3>2, <3>3 DEF Scheduled
  <2> QED BY <2>1, <2>2 DEF Scheduled, Highest
<1>2. ASSUME OneKernelLevel PROVE Counting(B \cup {b})'
  <2>1. Counting(A) BY <1>2
  <2>2. value' = sent' BY <2>1 DEF Counting
  <2>3. \A a \in B \cup {b} : a.pc = "giving" => a \in B /\ a \in A OBVIOUS
  <2>4. \A a \in B \cup {b} : a.pc = "giving" =>
          /\ a.of \in KernelLevels /\ a.n = value'[a.to]
          /\ a.waited \/ a.to \in ready' \cup pending'
    BY <2>1, <2>3 DEF Counting
  <2>5. ASSUME NEW t \in Tasks, t \notin ready' \cup pending'
        PROVE  /\ sent'[t] = 0
               /\ \/ notifyState'[t] = "waiting"
                  \/ \E a \in B \cup {b} : a.pc = "giving" /\ a.waited /\ a.to = t
    <3>1. /\ sent[t] = 0
          /\ \/ notifyState[t] = "waiting"
             \/ \E a \in A : a.pc = "giving" /\ a.waited /\ a.to = t
      BY <2>1, <2>5 DEF Counting
    <3> QED BY <3>1
  <2> QED BY <2>2, <2>4, <2>5 DEF Counting
<1> QED BY <1>1, <1>2

LEMMA InterruptKeeps ==
  ASSUME TaskInv, NEW p \in Levels, Interrupt(p)
  PROVE  TaskInv'
<1>1. /\ ctx.ie /\ \A q \in irq_act : p < q
      /\ stack' = [stack EXCEPT ![on] = Append(@, Frame(ctx))]
      /\ ctx' = Context(p, "entry", TRUE)
      /\ irq_act' = irq_act \cup {p}
      /\ on' = on /\ top' = top /\ exc_nest_count' = exc_nest_count /\ reqflg' = reqflg
      /\ crit' = crit /\ current' = current /\ ready' = ready /\ pending' = pending
      /\ suspended' = suspended /\ yieldPending' = yieldPending
      /\ notifyState' = notifyState /\ value' = value /\ sent' = sent
  BY DEF Interrupt, lists, notes
<1>2. ctx.of # Boot
  <2>1. ctx.of = Boot => ctx.ie = FALSE BY DEF TaskInv, Booting, Context
  <2> QED BY <1>1, <2>1
<1>3. PICK k \in Nat : \E h \in [0 .. k -> Items] : Runs(h, k) BY <1>2 DEF TaskInv
<1>4. PICK h \in [0 .. k -> Items] : Runs(h, k) BY <1>3
<1>5. /\ Data /\ AreStacks(stack) /\ OwnStacks /\ Others /\ current \in Tasks /\ crit \in Nat
  BY <1>2 DEF TaskInv, Data
<1>6. /\ Linked(h, k, current, crit) /\ Placed(h, k, stack)
      /\ ctx = h[k].c /\ on = h[k].s /\ exc_nest_count = h[k].m
      /\ irq_act = {h[i].c.of : i \in 1 .. k}
      /\ Scheduled(h[0].c, Handlers(h, k))
      /\ OneKernelLevel => Counting(Handlers(h, k))
  BY <1>4 DEF Runs, Shape
<1> DEFINE g == Grown(h, k, p)
           new == Context(p, "entry", TRUE)
<1>7. \A i \in 1 .. k : p < h[i].c.of BY <1>1, <1>6
<1>8. g \in [0 .. k + 1 -> Items] /\ Linked(g, k + 1, current, crit)
  BY <1>5, <1>6, <1>7, ChainGrows
<1>9. AreStacks(stack') /\ Placed(g, k + 1, stack')
  <2>1. PICK after : after = [stack EXCEPT ![h[k].s] = Append(@, Frame(h[k].c))] OBVIOUS
  <2>2. AreStacks(after) /\ Placed(g, k + 1, after)
    BY <1>5, <1>6, <2>1, GrownPlaced
  <2>3. stack' = after BY <1>1, <1>6, <2>1
  <2> QED BY <2>2, <2>3
<1>10. /\ g[k + 1] = [c |-> new, s |-> h[k].s, d |-> h[k].d + 1, m |-> h[k].m]
       /\ \A i \in 0 .. k : g[i] = h[i]
  <2>1. \A i \in 0 .. k : i \in 0 .. k + 1 /\ i # k + 1 OBVIOUS
  <2>2. k + 1 \in 0 .. k + 1 OBVIOUS
  <2> QED BY <2>1, <2>2 DEF Grown
<1> HIDE DEF g
<1>11. 1 .. k + 1 = (1 .. k) \cup {k + 1} OBVIOUS
<1>12. \A i \in 1 .. k : g[i] = h[i] BY <1>10
<1>13. new.of = p /\ new.pc = "entry" BY DEF Context
<1> HIDE DEF new
<1>14. g[k + 1].c = new /\ g[k + 1].s = h[k].s /\ g[k + 1].m = h[k].m BY <1>10
<1>15. irq_act' = {g[i].c.of : i \in 1 .. k + 1}
  BY <1>1, <1>6, <1>11, <1>12, <1>13, <1>14
<1>16. Handlers(g, k + 1) = Handlers(h, k) \cup {new} BY <1>11, <1>12, <1>14 DEF Handlers
<1>17. Shape(g, k + 1)' BY <1>1, <1>6, <1>8, <1>9, <1>14, <1>15 DEF Shape, new
<1>18. Scheduled(h[0].c, Handlers(h, k) \cup {new})'
       /\ (OneKernelLevel => Counting(Handlers(h, k) \cup {new})')
  BY ONLY <1>1, <1>6, <1>13, QuietHandler
<1>19. g[0] = h[0] BY <1>10
<1>20. Data' /\ OwnStacks' BY <1>1, <1>5 DEF Data, OwnStacks
<1>21. Others'
  <2>1. \A t \in Tasks \ {current} : stack'[t] = stack[t]
    <3> SUFFICES ASSUME NEW t \in Tasks \ {current} PROVE stack'[t] = stack[t] OBVIOUS
    <3>1. on \in {current, Exc} BY <1>6 DEF Linked
    <3>2. t # on BY <3>1, TaskAssumption
    <3>3. t \in DOMAIN stack BY <1>5 DEF AreStacks, Stacks
    <3> QED BY <1>1, <3>2, <3>3
  <2> QED BY <1>1, <1>5, <2>1 DEF Others, AllLeft
<1>22. ctx'.of # Boot BY <1>1, <1>13, LevelAssumption DEF new
<1>23. k + 1 \in Nat BY <1>3
<1> QED BY <1>8, <1>9, <1>16, <1>17, <1>18, <1>19, <1>20, <1>21, <1>22, <1>23, ChainReached

\* The handler on top goes on as item x.
LEMMA HandlerGoesOn ==
  ASSUME TaskInv, NEW k \in Nat \ {0}, NEW h \in [0 .. k -> Items], Runs(h, k),
         NEW x \in Items, Link(h[k - 1], x), x.c.of = ctx.of,
         x.s \in {current, Exc}, x.s = Exc => x.m > 0,
         \A i \in 0 .. k - 1 : (h[i].s = Exc => x.s = Exc) /\ (h[i].s = x.s => h[i].d < x.d),
         NEW g, g = [h EXCEPT ![k] = x], AreStacks(stack'), Placed(g, k, stack'),
         ctx' = x.c, on' = x.s, exc_nest_count' = x.m,
         UNCHANGED <<top, irq_act, crit, current>>,
         \A t \in Tasks \ {current} : stack'[t] = stack[t],
         Data',
         Scheduled(h[0].c, Handlers(h, k - 1) \cup {x.c})',
         OneKernelLevel => Counting(Handlers(h, k - 1) \cup {x.c})'
  PROVE  TaskInv'
<1>1. Shape(h, k) /\ current \in Tasks /\ crit \in Nat
  <2>1. Shape(h, k) BY DEF Runs
  <2> QED BY <2>1 DEF TaskInv, Data
<1>2. /\ irq_act = {h[i].c.of : i \in 1 .. k - 1} \cup {ctx.of}
      /\ ctx.of \in Levels /\ ctx.of # Boot
  BY <1>1, TopHandler
<1>3. Linked(h, k, current, crit) /\ ctx = h[k].c BY <1>1 DEF Shape
<1>4. g \in [0 .. k -> Items] /\ Linked(g, k, current, crit)
  BY <1>1, <1>3, ChainGoesOn
<1>5. g[k] = x /\ \A i \in 0 .. k - 1 : g[i] = h[i] OBVIOUS
<1>6. 1 .. k = (1 .. k - 1) \cup {k} /\ \A i \in 1 .. k - 1 : i \in 0 .. k - 1 OBVIOUS
<1>7. irq_act' = {g[i].c.of : i \in 1 .. k}
  <2>1. \A i \in 1 .. k - 1 : g[i].c.of = h[i].c.of BY <1>5, <1>6
  <2>2. g[k].c.of = ctx.of BY <1>5
  <2> QED BY <1>2, <1>6, <2>1, <2>2
<1>8. Handlers(g, k) = Handlers(h, k - 1) \cup {x.c}
  <2>1. \A i \in 1 .. k - 1 : g[i].c = h[i].c BY <1>5, <1>6
  <2>2. g[k].c = x.c BY <1>5
  <2> QED BY <1>6, <2>1, <2>2 DEF Handlers
<1>9. Shape(g, k)' BY <1>4, <1>5, <1>7 DEF Shape
<1>10. g[0] = h[0] BY <1>5
<1>11. OwnStacks' BY DEF TaskInv, OwnStacks
<1>12. Others' BY <1>2 DEF TaskInv, Others, AllLeft
<1>13. ctx'.of # Boot BY <1>2
<1> QED BY <1>4, <1>8, <1>9, <1>10, <1>11, <1>12, <1>13, ChainReached

\* Nothing but its registers and the counters of the kernel change.
LEMMA HandlerIsSteady ==
  ASSUME TaskInv, NEW k \in Nat \ {0}, NEW h \in [0 .. k -> Items], Runs(h, k),
         ctx.pc \notin Entering,
         NEW c \in Contexts, Handler(c), c.of = ctx.of, c.pc \notin Entering, ctx' = c,
         UNCHANGED <<on, stack, top, irq_act, exc_nest_count, crit, current>>,
         Data',
         Scheduled(h[0].c, Handlers(h, k - 1) \cup {c})',
         OneKernelLevel => Counting(Handlers(h, k - 1) \cup {c})'
  PROVE  TaskInv'
<1>1. /\ Shape(h, k) /\ Linked(h, k, current, crit) /\ Placed(h, k, stack)
      /\ ctx = h[k].c /\ on = h[k].s /\ exc_nest_count = h[k].m
  BY DEF Runs, Shape
<1>2. current \in Tasks BY DEF TaskInv, Data
<1> DEFINE x == [c |-> c, s |-> h[k].s, d |-> h[k].d, m |-> h[k].m]
<1>3. h[k] \in Items OBVIOUS
<1>4. /\ x \in Items /\ x.c = c /\ x.s = h[k].s /\ x.d = h[k].d /\ x.m = h[k].m
  BY <1>3 DEF Items
<1> HIDE DEF x
<1>5. Link(h[k - 1], h[k]) BY <1>1 DEF Linked
<1>6. Link(h[k - 1], x)
  <2>1. c.pc # "entry" /\ c.pc # "count" /\ h[k].c.pc # "entry" /\ h[k].c.pc \notin Entering
    BY <1>1 DEF Entering
  <2> QED BY <1>4, <1>5, <2>1 DEF Link
<1>7. /\ x.s \in {current, Exc} /\ (x.s = Exc => x.m > 0)
      /\ \A i \in 0 .. k - 1 : (h[i].s = Exc => x.s = Exc) /\ (h[i].s = x.s => h[i].d < x.d)
  <2>1. \A i \in 0 .. k - 1 : i \in 0 .. k /\ i < k OBVIOUS
  <2>2. k \in 0 .. k OBVIOUS
  <2> QED BY <1>1, <1>4, <2>1, <2>2 DEF Linked
<1>8. PICK g : g = [h EXCEPT ![k] = x] OBVIOUS
<1>9. Placed(g, k, stack) BY <1>1, <1>4, <1>8, SteadyPlaced
<1>10. AreStacks(stack') /\ Placed(g, k, stack') BY <1>9 DEF TaskInv
<1>11. ctx' = x.c /\ on' = x.s /\ exc_nest_count' = x.m /\ x.c.of = ctx.of BY <1>1, <1>4
<1>12. \A t \in Tasks \ {current} : stack'[t] = stack[t] OBVIOUS
<1>13. Scheduled(h[0].c, Handlers(h, k - 1) \cup {x.c})'
       /\ (OneKernelLevel => Counting(Handlers(h, k - 1) \cup {x.c})')
  BY <1>4
<1> QED BY <1>4, <1>6, <1>7, <1>8, <1>10, <1>11, <1>12, <1>13, HandlerGoesOn

\* What a handler does, no task does.
LEMMA HandlersOnly ==
  ASSUME TaskInv, ctx.pc \in HandlerPCs
  PROVE  ctx.of \in Levels
<1>1. ctx.of # Boot BY DEF TaskInv, Booting, Context, HandlerPCs
<1>2. PICK k \in Nat : \E h \in [0 .. k -> Items] : Runs(h, k) BY <1>1 DEF TaskInv
<1>3. PICK h \in [0 .. k -> Items] : Runs(h, k) BY <1>2
<1>4. k = 0 => ctx.pc \in TaskPCs BY <1>3 DEF Runs, Shape, Linked, OfTask
<1>5. k # 0 BY <1>4 DEF TaskPCs, HandlerPCs
<1> QED BY <1>3, <1>5, Ranks DEF Runs, TaskInv, Data

LEMMA CountHandlerKeeps == TaskInv /\ CountHandler => TaskInv'
<1> SUFFICES ASSUME TaskInv, CountHandler PROVE TaskInv' OBVIOUS
<1>1. /\ ctx.pc = "entry"
      /\ ctx' = [ctx EXCEPT !.pc = "count", !.n = exc_nest_count]
      /\ exc_nest_count' = exc_nest_count + 1
      /\ UNCHANGED <<on, stack, top, irq_act, reqflg, crit, current, ready, pending,
                     suspended, yieldPending, notifyState, value, sent>>
  BY DEF CountHandler, lists, notes
<1>2. ctx.of \in Levels BY <1>1, HandlersOnly DEF HandlerPCs
<1>3. /\ Data /\ current \in Tasks /\ AreStacks(stack)
      /\ \E k \in Nat \ {0} : \E h \in [0 .. k -> Items] : Runs(h, k)
  BY <1>2, RunningHandler
<1>4. PICK k \in Nat \ {0} : \E h \in [0 .. k -> Items] : Runs(h, k) BY <1>3
<1>5. PICK h \in [0 .. k -> Items] : Runs(h, k) BY <1>4
<1>6. /\ Shape(h, k) /\ Linked(h, k, current, crit) /\ Placed(h, k, stack)
      /\ ctx = h[k].c /\ on = h[k].s /\ exc_nest_count = h[k].m
      /\ Scheduled(h[0].c, Handlers(h, k)) /\ (OneKernelLevel => Counting(Handlers(h, k)))
  BY <1>5 DEF Runs, Shape
<1>7. /\ Handlers(h, k) = Handlers(h, k - 1) \cup {ctx}
      /\ Handler(ctx) /\ Link(h[k - 1], h[k]) /\ ctx \in Contexts
  BY <1>3, <1>6, TopHandler
<1>8. PICK c : c = ctx' OBVIOUS
<1> DEFINE x == [c |-> c, s |-> h[k].s, d |-> h[k].d, m |-> h[k].m + 1]
<1>9. h[k] \in Items /\ k \in 0 .. k OBVIOUS
<1>10. h[k].s \in Stacks /\ h[k].d \in Nat /\ h[k].m \in Nat /\ h[k].m + 1 \in Nat /\ h[k].m + 1 > 0
  BY <1>9 DEF Items
<1>11. /\ c \in Contexts /\ c.of = ctx.of /\ c.pc = "count" /\ c.n = h[k].m
       /\ c.ie = ctx.ie
  BY <1>1, <1>6, <1>7, <1>8, <1>10 DEF Contexts, PCs
<1>12. x \in Items /\ x.c = c /\ x.s = h[k].s /\ x.d = h[k].d /\ x.m = h[k].m + 1
  BY <1>10, <1>11 DEF Items
<1> HIDE DEF x
<1>13. Handler(c) BY <1>7, <1>11 DEF Handler, HandlerPCs
<1>14. Link(h[k - 1], x)
  <2>1. h[k].s = h[k - 1].s /\ h[k].d = h[k - 1].d + 1 /\ h[k].m = h[k - 1].m
    BY <1>1, <1>6, <1>7 DEF Link
  <2> QED BY <1>11, <1>12, <1>13, <2>1 DEF Link, Entering
<1>15. /\ x.s \in {current, Exc} /\ (x.s = Exc => x.m > 0)
       /\ \A i \in 0 .. k - 1 : (h[i].s = Exc => x.s = Exc) /\ (h[i].s = x.s => h[i].d < x.d)
  <2>1. \A i \in 0 .. k - 1 : i \in 0 .. k /\ i < k OBVIOUS
  <2> QED BY <1>6, <1>9, <1>10, <1>12, <2>1 DEF Linked
<1>16. PICK g : g = [h EXCEPT ![k] = x] OBVIOUS
<1>17. AreStacks(stack') /\ Placed(g, k, stack')
  <2>1. x.c.pc \in Entering BY <1>11, <1>12 DEF Entering
  <2>2. Placed(g, k, stack) BY <1>6, <1>12, <1>16, <2>1, SteadyPlaced
  <2> QED BY <1>1, <1>3, <2>2
<1>18. ctx' = x.c /\ on' = x.s /\ exc_nest_count' = x.m /\ x.c.of = ctx.of
  BY <1>1, <1>6, <1>8, <1>11, <1>12
<1>19. Scheduled(h[0].c, Handlers(h, k - 1) \cup {x.c})'
       /\ (OneKernelLevel => Counting(Handlers(h, k - 1) \cup {x.c})')
  <2>1. Handlers(h, k - 1) \subseteq Handlers(h, k) BY <1>7
  <2>2. \A a \in Handlers(h, k) \ Handlers(h, k - 1) : a.pc \notin {"woken", "giving"}
    BY <1>1, <1>7
  <2>3. x.c.pc # "giving" BY <1>11, <1>12
  <2>4. /\ UNCHANGED <<current, ready, pending, suspended, reqflg, notifyState, value, sent>>
        /\ Scheduled(h[0].c, Handlers(h, k)) /\ (OneKernelLevel => Counting(Handlers(h, k)))
    BY <1>1, <1>6
  <2> QED BY ONLY <2>1, <2>2, <2>3, <2>4, QuietHandler
<1>20. Data' BY <1>1, <1>3 DEF Data
<1>21. UNCHANGED <<top, irq_act, crit, current>>
       /\ \A t \in Tasks \ {current} : stack'[t] = stack[t]
  BY <1>1
<1> QED BY ONLY TaskInv, k \in Nat \ {0}, h \in [0 .. k -> Items],
      <1>5, <1>12, <1>14, <1>15, <1>16, <1>17, <1>18, <1>19, <1>20, <1>21, HandlerGoesOn

LEMMA ChangeStackKeeps == TaskInv /\ ChangeStack => TaskInv'
<1> SUFFICES ASSUME TaskInv, ChangeStack PROVE TaskInv' OBVIOUS
<1>1. /\ ctx.pc = "count"
      /\ ctx' = [ctx EXCEPT !.pc = "body", !.n = 0]
      /\ UNCHANGED <<top, irq_act, exc_nest_count, reqflg, crit, current, ready, pending,
                     suspended, yieldPending, notifyState, value, sent>>
  BY DEF ChangeStack, lists, notes
<1>2. ctx.of \in Levels BY <1>1, HandlersOnly DEF HandlerPCs
<1>3. /\ Data /\ current \in Tasks /\ AreStacks(stack)
      /\ \E k \in Nat \ {0} : \E h \in [0 .. k -> Items] : Runs(h, k)
  BY <1>2, RunningHandler
<1>4. PICK k \in Nat \ {0} : \E h \in [0 .. k -> Items] : Runs(h, k) BY <1>3
<1>5. PICK h \in [0 .. k -> Items] : Runs(h, k) BY <1>4
<1>6. /\ Shape(h, k) /\ Linked(h, k, current, crit) /\ Placed(h, k, stack)
      /\ ctx = h[k].c /\ on = h[k].s /\ exc_nest_count = h[k].m
      /\ Scheduled(h[0].c, Handlers(h, k)) /\ (OneKernelLevel => Counting(Handlers(h, k)))
  BY <1>5 DEF Runs, Shape
<1>7. /\ Handlers(h, k) = Handlers(h, k - 1) \cup {ctx}
      /\ Handler(ctx) /\ Link(h[k - 1], h[k]) /\ ctx \in Contexts
  BY <1>3, <1>6, TopHandler
<1>8. PICK c : c = ctx' OBVIOUS
<1>9. k \in 0 .. k /\ k - 1 \in 0 .. k /\ h[k] \in Items /\ h[k - 1] \in Items OBVIOUS
<1>10. /\ h[k].s \in Stacks /\ h[k].d \in Nat /\ h[k].m \in Nat
       /\ h[k - 1].s \in Stacks /\ h[k - 1].d \in Nat /\ h[k - 1].m \in Nat
       /\ 1 \in Nat /\ h[k].d + 1 \in Nat /\ Exc \in Stacks
  BY <1>9 DEF Items, Stacks
<1>11. c \in Contexts /\ c.of = ctx.of /\ c.pc = "body" /\ c.ie = ctx.ie
  BY <1>1, <1>7, <1>8 DEF Contexts, PCs
<1>12. Handler(c) BY <1>7, <1>11 DEF Handler, HandlerPCs
<1>13. /\ h[k].s = h[k - 1].s /\ h[k].d = h[k - 1].d + 1
       /\ h[k].m = h[k - 1].m + 1 /\ ctx.n = h[k - 1].m
  BY <1>1, <1>6, <1>7 DEF Link
<1>14. \A i \in 0 .. k - 1 : /\ i \in 0 .. k /\ i < k
                             /\ h[i].s = Exc => h[k].s = Exc
                             /\ h[i].s = h[k].s => h[i].d < h[k].d
                             /\ h[i].d \in Nat
  <2>1. \A i \in 0 .. k - 1 : i \in 0 .. k /\ i < k OBVIOUS
  <2> QED BY <1>6, <1>9, <2>1 DEF Linked, Items
<1>15. h[k].s \in {current, Exc} /\ h[k - 1].s \in {current, Exc}
       /\ (h[k - 1].s = Exc => h[k - 1].m > 0)
  BY <1>6, <1>9 DEF Linked
<1>16. Data' BY <1>1, <1>3 DEF Data
<1>17. Scheduled(h[0].c, Handlers(h, k - 1) \cup {c})'
       /\ (OneKernelLevel => Counting(Handlers(h, k - 1) \cup {c})')
  <2>1. Handlers(h, k - 1) \subseteq Handlers(h, k) BY <1>7
  <2>2. \A a \in Handlers(h, k) \ Handlers(h, k - 1) : a.pc \notin {"woken", "giving"}
    BY <1>1, <1>7
  <2>3. c.pc # "giving" BY <1>11
  <2>4. /\ UNCHANGED <<current, ready, pending, suspended, reqflg, notifyState, value, sent>>
        /\ Scheduled(h[0].c, Handlers(h, k)) /\ (OneKernelLevel => Counting(Handlers(h, k)))
    BY <1>1, <1>6
  <2> QED BY ONLY <2>1, <2>2, <2>3, <2>4, QuietHandler
<1>18. UNCHANGED <<top, irq_act, crit, current>> BY <1>1
\* The outermost handler moves to the exception stack, which is free.
<1>19. CASE ctx.n = 0
  <2>1. on' = Exc /\ stack' = [stack EXCEPT ![Exc] = <<SavedSp(on)>>]
    BY <1>19 DEF ChangeStack
  <2>2. h[k].s # Exc BY <1>13, <1>15, <1>19
  <2> DEFINE x == [c |-> c, s |-> Exc, d |-> 1, m |-> h[k].m]
  <2>3. x \in Items /\ x.c = c /\ x.s = Exc /\ x.d = 1 /\ x.m = h[k].m
    BY <1>10, <1>11 DEF Items
  <2> HIDE DEF x
  <2>4. Link(h[k - 1], x) BY <1>11, <1>12, <1>13, <2>2, <2>3 DEF Link, Entering
  <2>5. /\ x.s \in {current, Exc} /\ (x.s = Exc => x.m > 0)
        /\ \A i \in 0 .. k - 1 : (h[i].s = Exc => x.s = Exc) /\ (h[i].s = x.s => h[i].d < x.d)
    BY <1>10, <1>13, <1>14, <2>2, <2>3
  <2>6. PICK g : g = [h EXCEPT ![k] = x] OBVIOUS
  <2>7. PICK after : after = Put(stack, Exc, <<SavedSp(h[k].s)>>) OBVIOUS
  <2>8. AreStacks(after) /\ Placed(g, k, after)
    BY <1>3, <1>6, <1>13, <2>2, <2>3, <2>6, <2>7, MovedPlaced
  <2>9. stack' = after BY <1>6, <2>1, <2>7 DEF Put
  <2>10. \A t \in Tasks \ {current} : stack'[t] = stack[t]
    <3>1. \A t \in Tasks : t \in Stacks /\ t # Exc BY TaskAssumption DEF Stacks
    <3>2. DOMAIN stack = Stacks BY <1>3 DEF AreStacks
    <3> QED BY <2>1, <3>1, <3>2
  <2>11. ctx' = x.c /\ on' = x.s /\ exc_nest_count' = x.m /\ x.c.of = ctx.of
    BY <1>1, <1>6, <1>8, <1>11, <2>1, <2>3
  <2>12. Scheduled(h[0].c, Handlers(h, k - 1) \cup {x.c})'
         /\ (OneKernelLevel => Counting(Handlers(h, k - 1) \cup {x.c})')
    BY <1>17, <2>3
  <2>13. AreStacks(stack') /\ Placed(g, k, stack') BY <2>8, <2>9
  <2> QED BY ONLY TaskInv, k \in Nat \ {0}, h \in [0 .. k -> Items],
        <1>5, <1>16, <1>18, <2>3, <2>4, <2>5, <2>6, <2>10, <2>11, <2>12, <2>13, HandlerGoesOn
\* A nested one stays where it is.
<1>20. CASE ctx.n # 0
  <2>1. on' = on /\ stack' = [stack EXCEPT ![on] = Append(@, SavedSp(on))]
    BY <1>20 DEF ChangeStack
  <2> DEFINE x == [c |-> c, s |-> h[k].s, d |-> h[k].d + 1, m |-> h[k].m]
  <2>3. x \in Items /\ x.c = c /\ x.s = h[k].s /\ x.d = h[k].d + 1 /\ x.m = h[k].m
    BY <1>10, <1>11 DEF Items
  <2> HIDE DEF x
  <2>4. Link(h[k - 1], x)
    <3>1. x.d = h[k - 1].d + 2 BY <1>10, <1>13, <2>3
    <3> QED BY <1>11, <1>12, <1>13, <2>3, <3>1 DEF Link, Entering
  <2>5. /\ x.s \in {current, Exc} /\ (x.s = Exc => x.m > 0)
        /\ \A i \in 0 .. k - 1 : (h[i].s = Exc => x.s = Exc) /\ (h[i].s = x.s => h[i].d < x.d)
    BY <1>10, <1>13, <1>14, <1>15, <2>3
  <2>6. PICK g : g = [h EXCEPT ![k] = x] OBVIOUS
  <2>7. PICK after : after = Put(stack, h[k].s, Append(stack[h[k].s], SavedSp(h[k].s))) OBVIOUS
  <2>8. AreStacks(after) /\ Placed(g, k, after)
    BY <1>3, <1>6, <1>13, <2>3, <2>6, <2>7, StayedPlaced
  <2>9. stack' = after BY <1>6, <2>1, <2>7 DEF Put
  <2>10. \A t \in Tasks \ {current} : stack'[t] = stack[t]
    <3>1. \A t \in Tasks : t \in Stacks /\ t # Exc BY TaskAssumption DEF Stacks
    <3>2. DOMAIN stack = Stacks BY <1>3 DEF AreStacks
    <3>3. on \in {current, Exc} BY <1>6, <1>15
    <3> QED BY <2>1, <3>1, <3>2, <3>3
  <2>11. ctx' = x.c /\ on' = x.s /\ exc_nest_count' = x.m /\ x.c.of = ctx.of
    BY <1>1, <1>6, <1>8, <1>11, <2>1, <2>3
  <2>12. Scheduled(h[0].c, Handlers(h, k - 1) \cup {x.c})'
         /\ (OneKernelLevel => Counting(Handlers(h, k - 1) \cup {x.c})')
    BY <1>17, <2>3
  <2>13. AreStacks(stack') /\ Placed(g, k, stack') BY <2>8, <2>9
  <2> QED BY ONLY TaskInv, k \in Nat \ {0}, h \in [0 .. k -> Items],
        <1>5, <1>16, <1>18, <2>3, <2>4, <2>5, <2>6, <2>10, <2>11, <2>12, <2>13, HandlerGoesOn
<1> QED BY <1>19, <1>20

\* What a handler past its entry knows of the chain.
LEMMA HandlerKnows ==
  ASSUME TaskInv, ctx.of \in Levels, NEW k \in Nat \ {0}, NEW h \in [0 .. k -> Items], Runs(h, k)
  PROVE  /\ Data /\ current \in Tasks
         /\ Handlers(h, k) = Handlers(h, k - 1) \cup {ctx}
         /\ \A b \in Handlers(h, k - 1) : b.of # ctx.of
         /\ ctx \in Contexts /\ Handler(ctx)
         /\ Scheduled(h[0].c, Handlers(h, k - 1) \cup {ctx})
         /\ OneKernelLevel => Counting(Handlers(h, k - 1) \cup {ctx})
         /\ h[0].c.of = current
<1>1. Data /\ current \in Tasks BY DEF TaskInv, Data
<1>2. Shape(h, k) BY DEF Runs
<1>3. h[0].c.of = current BY <1>2 DEF Shape, Linked, OfTask
<1>4. /\ Handlers(h, k) = Handlers(h, k - 1) \cup {ctx}
      /\ \A b \in Handlers(h, k - 1) : b.of # ctx.of
      /\ ctx \in Contexts /\ Handler(ctx)
  BY <1>1, <1>2, TopHandler
<1>5. /\ Scheduled(h[0].c, Handlers(h, k - 1) \cup {ctx})
      /\ OneKernelLevel => Counting(Handlers(h, k - 1) \cup {ctx})
  BY <1>4 DEF Runs
<1> QED BY <1>1, <1>3, <1>4, <1>5

LEMMA YieldFromIsrKeeps == TaskInv /\ vPortYieldFromIsr => TaskInv'
<1> SUFFICES ASSUME TaskInv, vPortYieldFromIsr PROVE TaskInv' OBVIOUS
<1>1. /\ ctx.of \in Levels /\ ctx.pc \in {"body", "woken"}
      /\ reqflg' = TRUE
      /\ ctx' = [ctx EXCEPT !.pc = "leave"]
      /\ UNCHANGED <<on, stack, top, irq_act, exc_nest_count, crit, current, ready, pending,
                     suspended, yieldPending, notifyState, value, sent>>
  BY DEF vPortYieldFromIsr, lists, notes
<1>2. PICK k \in Nat \ {0} : \E h \in [0 .. k -> Items] : Runs(h, k) BY <1>1, RunningHandler
<1>3. PICK h \in [0 .. k -> Items] : Runs(h, k) BY <1>2
<1> DEFINE B == Handlers(h, k - 1)
<1>4. /\ Data /\ Handlers(h, k) = B \cup {ctx}
      /\ ctx \in Contexts /\ Handler(ctx)
      /\ Scheduled(h[0].c, B \cup {ctx}) /\ (OneKernelLevel => Counting(B \cup {ctx}))
  BY <1>1, <1>3, HandlerKnows
<1> HIDE DEF B
<1>5. PICK c : c = ctx' OBVIOUS
<1>6. c \in Contexts /\ c.of = ctx.of /\ c.pc = "leave" /\ c.ie = ctx.ie
  BY <1>1, <1>4, <1>5 DEF Contexts, PCs
<1>7. Handler(c) BY <1>4, <1>6 DEF Handler, HandlerPCs
<1>8. ctx.pc \notin Entering /\ c.pc \notin Entering /\ ctx.pc # "giving" /\ c.pc # "giving"
  BY <1>1, <1>6 DEF Entering
<1>9. reqflg' \in BOOLEAN /\ reqflg'
  <2>1. TRUE \in BOOLEAN OBVIOUS
  <2> QED BY <1>1, <2>1
<1>10. Scheduled(h[0].c, B \cup {c})'
  <2>1. /\ suspended' \in {0, 1} /\ (suspended' = 1 <=> h[0].c.pc = "held")
        /\ (suspended' = 0 => pending' = {}) /\ B \cup {c} # {}
        /\ (current' \in Highest(ready') \/ suspended' = 0)
    BY <1>1, <1>4 DEF Scheduled, Highest
  <2> QED BY <1>9, <2>1 DEF Scheduled, Highest
<1>11. ASSUME OneKernelLevel PROVE Counting(B \cup {c})'
  <2>1. Counting(B \cup {ctx}) BY <1>4, <1>11
  <2>2. value' = sent' BY <1>1, <2>1 DEF Counting
  <2>3. \A b \in B \cup {c} : b.pc = "giving" =>
          /\ b.of \in KernelLevels /\ b.n = value'[b.to]
          /\ b.waited \/ b.to \in ready' \cup pending'
    BY <1>1, <1>8, <2>1 DEF Counting
  <2>4. \A t \in Tasks :
          \/ t \in ready' \cup pending'
          \/ /\ sent'[t] = 0
             /\ \/ notifyState'[t] = "waiting"
                \/ \E b \in B \cup {c} : b.pc = "giving" /\ b.waited /\ b.to = t
    BY <1>1, <1>8, <2>1 DEF Counting
  <2> QED BY <2>2, <2>3, <2>4 DEF Counting
<1>12. Data' BY <1>1, <1>4, <1>9 DEF Data
<1>13. UNCHANGED <<on, stack, top, irq_act, exc_nest_count, crit, current>> /\ ctx' = c
  BY <1>1, <1>5
<1> QED BY ONLY TaskInv, k \in Nat \ {0}, h \in [0 .. k -> Items],
      <1>3, <1>6, <1>7, <1>8, <1>10, <1>11, <1>12, <1>13, HandlerIsSteady DEF B

LEMMA HandlerTrapKeeps == TaskInv /\ ctx.of \in Levels /\ Trap => TaskInv'
<1> SUFFICES ASSUME TaskInv, ctx.of \in Levels, Trap PROVE TaskInv' OBVIOUS
<1>1. ctx.pc = "body" /\ ctx.of \in irq_act
  <2>1. ctx.pc = "body" BY LevelAssumption DEF Trap
  <2>2. PICK k \in Nat \ {0} : \E h \in [0 .. k -> Items] : Runs(h, k) BY RunningHandler
  <2>3. PICK h \in [0 .. k -> Items] : Runs(h, k) BY <2>2
  <2>4. ctx = h[k].c /\ irq_act = {h[i].c.of : i \in 1 .. k} BY <2>3 DEF Runs, Shape
  <2>5. k \in 1 .. k OBVIOUS
  <2> QED BY <2>1, <2>4, <2>5
<1>2. /\ reqflg' = TRUE
      /\ UNCHANGED <<ctx, on, stack, top, irq_act, exc_nest_count, crit, current, ready,
                     pending, suspended, yieldPending, notifyState, value, sent>>
  BY <1>1 DEF Trap, lists, notes
<1>3. PICK k \in Nat \ {0} : \E h \in [0 .. k -> Items] : Runs(h, k) BY RunningHandler
<1>4. PICK h \in [0 .. k -> Items] : Runs(h, k) BY <1>3
<1> DEFINE B == Handlers(h, k - 1)
<1>5. /\ Data /\ Handlers(h, k) = B \cup {ctx}
      /\ ctx \in Contexts /\ Handler(ctx)
      /\ Scheduled(h[0].c, B \cup {ctx}) /\ (OneKernelLevel => Counting(B \cup {ctx}))
  BY <1>4, HandlerKnows
<1> HIDE DEF B
<1>6. PICK c : c = ctx OBVIOUS
<1>7. ctx.pc \notin Entering /\ c.pc \notin Entering /\ c.of = ctx.of /\ c \in Contexts /\ Handler(c)
  BY <1>1, <1>5, <1>6 DEF Entering
<1>8. reqflg' \in BOOLEAN /\ reqflg'
  <2>1. TRUE \in BOOLEAN OBVIOUS
  <2> QED BY <1>2, <2>1
<1>9. Scheduled(h[0].c, B \cup {c})'
  <2>1. /\ suspended' \in {0, 1} /\ (suspended' = 1 <=> h[0].c.pc = "held")
        /\ (suspended' = 0 => pending' = {}) /\ B \cup {c} # {}
        /\ (current' \in Highest(ready') \/ suspended' = 0)
    BY <1>2, <1>5 DEF Scheduled, Highest
  <2> QED BY <1>8, <2>1 DEF Scheduled, Highest
<1>10. OneKernelLevel => Counting(B \cup {c})' BY <1>2, <1>5, <1>6 DEF Counting
<1>11. Data' BY <1>2, <1>5, <1>8 DEF Data
<1>12. UNCHANGED <<on, stack, top, irq_act, exc_nest_count, crit, current>> /\ ctx' = c
  BY <1>2, <1>6
<1> QED BY ONLY TaskInv, k \in Nat \ {0}, h \in [0 .. k -> Items],
      <1>4, <1>7, <1>9, <1>10, <1>11, <1>12, HandlerIsSteady DEF B

LEMMA GiveFromIsrKeeps ==
  ASSUME TaskInv, NEW u \in Tasks, GiveFromISR(u)
  PROVE  TaskInv'
<1>1. /\ ctx.of \in KernelLevels /\ ctx.pc = "body"
      /\ ctx' = [ctx EXCEPT !.pc = "giving", !.n = value[u], !.to = u,
                            !.waited = (notifyState[u] = "waiting")]
      /\ notifyState' = [notifyState EXCEPT ![u] = "received"]
      /\ UNCHANGED <<on, stack, top, irq_act, exc_nest_count, reqflg, crit, current, ready,
                     pending, suspended, yieldPending, value, sent>>
  BY DEF GiveFromISR, lists, port
<1>2. ctx.of \in Levels BY <1>1, LevelAssumption
<1>3. PICK k \in Nat \ {0} : \E h \in [0 .. k -> Items] : Runs(h, k) BY <1>2, RunningHandler
<1>4. PICK h \in [0 .. k -> Items] : Runs(h, k) BY <1>3
<1> DEFINE B == Handlers(h, k - 1)
<1>5. /\ Data /\ (\A b \in B : b.of # ctx.of)
      /\ ctx \in Contexts /\ Handler(ctx)
      /\ Scheduled(h[0].c, B \cup {ctx}) /\ (OneKernelLevel => Counting(B \cup {ctx}))
  BY <1>2, <1>4, HandlerKnows
<1> HIDE DEF B
<1>6. PICK c : c = ctx' OBVIOUS
<1>7. PICK w \in BOOLEAN : w = (notifyState[u] = "waiting") OBVIOUS
<1>8. value[u] \in Nat BY <1>5 DEF Data
<1>9. c = [ctx EXCEPT !.pc = "giving", !.n = value[u], !.to = u, !.waited = w]
  BY <1>1, <1>6, <1>7
<1>10. c \in Contexts BY <1>5, <1>8, <1>9 DEF Contexts, PCs
<1>11. /\ c.of = ctx.of /\ c.pc = "giving" /\ c.ie = ctx.ie /\ c.n = value[u] /\ c.to = u
  BY <1>5, <1>9 DEF Contexts
<1>12. c.waited = w BY <1>5, <1>9 DEF Contexts
<1>13. Handler(c) BY <1>5, <1>11 DEF Handler, HandlerPCs
<1>14. ctx.pc \notin Entering /\ c.pc \notin Entering /\ ctx.pc # "woken"
  BY <1>1, <1>11 DEF Entering
<1>15. Scheduled(h[0].c, B \cup {c})'
  <2>1. /\ suspended' \in {0, 1} /\ (suspended' = 1 <=> h[0].c.pc = "held")
        /\ (suspended' = 0 => pending' = {}) /\ B \cup {c} # {}
    BY <1>1, <1>5 DEF Scheduled
  <2>2. \/ current \in Highest(ready)
        \/ suspended = 0 /\ reqflg
        \/ suspended = 0 /\ \E b \in B \cup {ctx} : b.pc = "woken"
    BY <1>5 DEF Scheduled
  <2>3. \/ current' \in Highest(ready')
        \/ suspended' = 0 /\ (reqflg' \/ \E b \in B \cup {c} : b.pc = "woken")
    BY <1>1, <1>14, <2>2 DEF Highest
  <2> QED BY <2>1, <2>3 DEF Scheduled, Highest
<1>16. ASSUME OneKernelLevel PROVE Counting(B \cup {c})'
  <2>1. Counting(B \cup {ctx}) BY <1>5, <1>16
  <2>2. value' = sent' BY <1>1, <2>1 DEF Counting
  \* no other handler is giving
  <2>3. \A b \in B \cup {ctx} : b.pc # "giving"
    <3> SUFFICES ASSUME NEW b \in B \cup {ctx}, b.pc = "giving" PROVE FALSE OBVIOUS
    <3>1. b \in B /\ b.of \in KernelLevels BY <1>1, <2>1 DEF Counting
    <3>2. b.of = ctx.of BY <1>1, <1>16, <3>1 DEF OneKernelLevel
    <3> QED BY <1>5, <3>1, <3>2
  <2>4. \A t \in Tasks : t \in ready \cup pending \/ (sent[t] = 0 /\ notifyState[t] = "waiting")
    BY <2>1, <2>3 DEF Counting
  <2>5. \A b \in B \cup {c} : b.pc = "giving" => b = c BY <2>3
  <2>6. c.of \in KernelLevels /\ c.n = value'[c.to] BY <1>1, <1>11
  <2>7. c.waited \/ c.to \in ready' \cup pending'
    <3>1. notifyState[u] = "waiting" => c.waited BY <1>7, <1>12, Zenon
    <3> QED BY <1>1, <1>11, <2>4, <3>1
  <2>8. ASSUME NEW t \in Tasks, t \notin ready' \cup pending'
        PROVE  /\ sent'[t] = 0
               /\ \/ notifyState'[t] = "waiting"
                  \/ \E b \in B \cup {c} : b.pc = "giving" /\ b.waited /\ b.to = t
    <3>1. sent[t] = 0 /\ notifyState[t] = "waiting" BY <1>1, <2>4, <2>8
    <3>2. CASE t = u
      <4>1. c.waited BY <1>7, <1>12, <3>1, <3>2, Zenon
      <4>2. \E b \in B \cup {c} : b.pc = "giving" /\ b.waited /\ b.to = t
        BY <4>1, <3>2, <1>11
      <4> QED BY <1>1, <3>1, <4>2
    <3>3. CASE t # u
      <4>1. notifyState'[t] = notifyState[t] BY <1>1, <1>5, <3>3 DEF Data
      <4> QED BY <1>1, <3>1, <4>1
    <3> QED BY <3>2, <3>3
  <2>9. \A b \in B \cup {c} : b.pc = "giving" =>
          /\ b.of \in KernelLevels /\ b.n = value'[b.to]
          /\ b.waited \/ b.to \in ready' \cup pending'
    BY <2>5, <2>6, <2>7
  <2> QED BY <2>2, <2>8, <2>9 DEF Counting
<1>17. Data'
  <2>1. notifyState' \in [Tasks -> States] BY <1>1, <1>5 DEF Data, States
  <2> QED BY <1>1, <1>5, <2>1 DEF Data
<1>18. UNCHANGED <<on, stack, top, irq_act, exc_nest_count, crit, current>> /\ ctx' = c
  BY <1>1, <1>6
<1> QED BY ONLY TaskInv, k \in Nat \ {0}, h \in [0 .. k -> Items],
      <1>4, <1>10, <1>11, <1>13, <1>14, <1>15, <1>16, <1>17, <1>18, HandlerIsSteady DEF B

LEMMA FinishGiveKeeps == TaskInv /\ FinishGive => TaskInv'
<1> SUFFICES ASSUME TaskInv, FinishGive PROVE TaskInv' OBVIOUS
<1> DEFINE u == ctx.to
           urgent == ctx.waited /\ Priority[u] > Priority[current]
           next == IF urgent THEN "woken" ELSE "leave"
<1>1. /\ ctx.pc = "giving"
      /\ value' = [value EXCEPT ![u] = ctx.n + 1]
      /\ sent' = [sent EXCEPT ![u] = @ + 1]
      /\ \/ ctx.waited /\ suspended = 0 /\ ready' = ready \cup {u} /\ pending' = pending
         \/ ctx.waited /\ suspended > 0 /\ pending' = pending \cup {u} /\ ready' = ready
         \/ ~ctx.waited /\ ready' = ready /\ pending' = pending
      /\ ctx' = Context(ctx.of, next, TRUE)
      /\ UNCHANGED <<on, stack, top, irq_act, exc_nest_count, reqflg, crit, current, suspended,
                     notifyState>>
  BY DEF FinishGive, lists, port
<1>2. yieldPending' = (yieldPending \/ urgent) BY DEF FinishGive
<1>3. ctx.of \in Levels BY <1>1, HandlersOnly DEF HandlerPCs
<1>4. PICK k \in Nat \ {0} : \E h \in [0 .. k -> Items] : Runs(h, k) BY <1>3, RunningHandler
<1>5. PICK h \in [0 .. k -> Items] : Runs(h, k) BY <1>4
<1> DEFINE B == Handlers(h, k - 1)
<1>6. /\ Data /\ current \in Tasks /\ (\A b \in B : b.of # ctx.of)
      /\ ctx \in Contexts /\ Handler(ctx)
      /\ Scheduled(h[0].c, B \cup {ctx}) /\ (OneKernelLevel => Counting(B \cup {ctx}))
  BY <1>3, <1>5, HandlerKnows
<1> HIDE DEF B
<1>7. u \in Tasks /\ ctx.n \in Nat BY <1>1, <1>6 DEF Handler, Contexts
<1>8. Priority[u] \in Nat /\ Priority[current] \in Nat BY <1>6, <1>7, TaskAssumption
<1>9. PICK c : c = ctx' OBVIOUS
<1>10. next \in {"woken", "leave"} /\ (next = "woken" <=> urgent) OBVIOUS
<1> HIDE DEF next, u
<1>11. c \in Contexts
  <2>1. next \in PCs BY <1>10 DEF PCs
  <2>2. FALSE \in BOOLEAN /\ TRUE \in BOOLEAN /\ 0 \in Nat OBVIOUS
  <2> QED BY <1>1, <1>3, <1>9, <2>1, <2>2 DEF Contexts, Context
<1>12. c.of = ctx.of /\ c.pc = next /\ c.ie /\ c.pc # "giving"
  BY <1>1, <1>9, <1>10 DEF Context
<1>13. Handler(c) BY <1>3, <1>10, <1>12 DEF Handler, HandlerPCs
<1>14. ctx.pc \notin Entering /\ c.pc \notin Entering /\ ctx.pc # "woken"
  BY <1>1, <1>10, <1>12 DEF Entering
<1>15. /\ ready \subseteq ready' /\ pending \subseteq pending'
       /\ ready' \subseteq ready \cup {u} /\ pending' \subseteq pending \cup {u}
       /\ ctx.waited => u \in ready' \cup pending'
  <2>1. suspended = 0 \/ suspended > 0 BY <1>6 DEF Scheduled
  <2> QED BY <1>1, <2>1
<1>16. Scheduled(h[0].c, B \cup {c})'
  <2>1. /\ suspended' \in {0, 1} /\ (suspended' = 1 <=> h[0].c.pc = "held")
        /\ B \cup {c} # {}
    BY <1>1, <1>6 DEF Scheduled
  <2>2. suspended' = 0 => pending' = {}
    <3>1. suspended = 0 => pending = {} /\ ~(suspended > 0) BY <1>6 DEF Scheduled
    <3> QED BY <1>1, <3>1
  <2>3. \/ current \in Highest(ready)
        \/ suspended = 0 /\ reqflg
        \/ suspended = 0 /\ \E b \in B : b.pc = "woken"
    BY <1>6, <1>14 DEF Scheduled
  <2>4. current \in Highest(ready) =>
          current \in Highest(ready') \/ (suspended = 0 /\ c.pc = "woken")
    <3> SUFFICES ASSUME current \in Highest(ready),
                        ~(suspended = 0 /\ c.pc = "woken")
                 PROVE current \in Highest(ready')
      OBVIOUS
    <3>1. CASE ready' = ready BY <3>1
    <3>2. CASE ready' # ready
      <4>1. ctx.waited /\ suspended = 0 /\ ready' = ready \cup {u} BY <1>1, <3>2
      <4>2. ~(Priority[u] > Priority[current]) BY <4>1, <1>10, <1>12
      <4>3. Priority[u] <= Priority[current] BY <4>2, <1>8
      <4> QED BY <4>1, <4>3 DEF Highest
    <3> QED BY <3>1, <3>2
  <2>5. \/ current' \in Highest(ready')
        \/ suspended' = 0 /\ (reqflg' \/ \E b \in B \cup {c} : b.pc = "woken")
    BY <1>1, <2>3, <2>4
  <2>6. Highest(ready)' = Highest(ready') BY DEF Highest
  <2> QED BY <2>1, <2>2, <2>5, <2>6 DEF Scheduled
<1>17. ASSUME OneKernelLevel PROVE Counting(B \cup {c})'
  <2>1. Counting(B \cup {ctx}) BY <1>6, <1>17
  <2>2. ctx.of \in KernelLevels /\ ctx.n = value[u] /\ (ctx.waited \/ u \in ready \cup pending)
    BY <1>1, <2>1 DEF Counting, u
  <2>3. value' = sent' BY <1>1, <2>1, <2>2 DEF Counting
  <2>4. \A b \in B \cup {c} : b.pc # "giving"
    <3> SUFFICES ASSUME NEW b \in B \cup {c}, b.pc = "giving" PROVE FALSE OBVIOUS
    <3>1. b \in B /\ b.of \in KernelLevels BY <1>12, <2>1 DEF Counting
    <3>2. b.of = ctx.of BY <2>2, <1>17, <3>1 DEF OneKernelLevel
    <3> QED BY <1>6, <3>1, <3>2
  <2>5. ASSUME NEW t \in Tasks, t \notin ready' \cup pending'
        PROVE  sent'[t] = 0 /\ notifyState'[t] = "waiting"
    <3>1. t # u /\ t \notin ready \cup pending BY <1>15, <2>2, <2>5
    <3>2. /\ sent[t] = 0
          /\ \/ notifyState[t] = "waiting"
             \/ \E b \in B \cup {ctx} : b.pc = "giving" /\ b.waited /\ b.to = t
      BY <3>1, <2>1 DEF Counting
    <3>3. notifyState[t] = "waiting" BY <2>4, <3>1, <3>2 DEF u
    <3> QED BY <1>1, <1>6, <3>1, <3>2, <3>3 DEF Data
  <2> QED BY <2>3, <2>4, <2>5 DEF Counting
<1>18. Data'
  <2>1. value' \in [Tasks -> Nat] /\ sent' \in [Tasks -> Nat]
    <3>1. ctx.n + 1 \in Nat /\ sent[u] + 1 \in Nat BY <1>6, <1>7 DEF Data
    <3> QED BY <1>1, <1>6, <3>1 DEF Data
  <2>2. ready' \in SUBSET Tasks /\ pending' \in SUBSET Tasks BY <1>6, <1>7, <1>15 DEF Data
  <2>3. yieldPending' \in BOOLEAN BY <1>2, Zenon
  <2>4. current' \in Tasks /\ crit' \in Nat /\ reqflg' \in BOOLEAN BY <1>1, <1>6 DEF Data
  <2>5. notifyState' \in [Tasks -> States] BY <1>1, <1>6 DEF Data
  <2> QED BY <2>1, <2>2, <2>3, <2>4, <2>5 DEF Data
<1>19. UNCHANGED <<on, stack, top, irq_act, exc_nest_count, crit, current>> /\ ctx' = c
  BY <1>1, <1>9
<1> QED BY ONLY TaskInv, k \in Nat \ {0}, h \in [0 .. k -> Items],
      <1>5, <1>11, <1>12, <1>13, <1>14, <1>16, <1>17, <1>18, <1>19, HandlerIsSteady DEF B

LEMMA OneElement ==
  ASSUME NEW s, IsStack(s), Len(s) = 1
  PROVE  s = <<Last(s)>>
<1>1. PICK S : s \in Seq(S) BY DEF IsStack
<1> DEFINE e == s[1]
<1>2. e \in S BY <1>1, ElementOfSeq
<1>3. <<e>> \in Seq(S) /\ Len(<<e>>) = 1 /\ <<e>>[1] = e BY <1>2
<1>4. s = <<e>> BY <1>1, <1>3, SeqEqual
<1> QED BY <1>4 DEF Last

\* A handler ends; what was interrupted is on its stack as it was.
LEMMA HandlerEnds ==
  ASSUME TaskInv, ctx.of \in Levels, ctx.pc \in {"body", "leave"},
         NEW k \in Nat \ {0}, NEW h \in [0 .. k -> Items], Runs(h, k),
         NEW before, before = Last(stack[on]).on,
         NEW popped, popped = Put(stack, on, Front(stack[on])),
         NEW after, after = Put(popped, before, Front(popped[before]))
  PROVE  /\ before = h[k - 1].s /\ before \in {current, Exc}
         /\ Last(popped[before]) = Frame(h[k - 1].c)
         /\ Len(popped[before]) = h[k - 1].d + 1
         /\ AreStacks(popped) /\ AreStacks(after)
         /\ Shrunk(h, k) \in [0 .. k - 1 -> Items]
         /\ Linked(Shrunk(h, k), k - 1, current, crit)
         /\ Placed(Shrunk(h, k), k - 1, after)
         /\ \A t \in Tasks \ {current} : popped[t] = stack[t] /\ after[t] = stack[t]
         /\ before # Exc => after[Exc] = popped[Exc]
         /\ exc_nest_count - 1 = h[k - 1].m
<1>1. /\ Linked(h, k, current, crit) /\ Placed(h, k, stack) /\ Shape(h, k)
      /\ ctx = h[k].c /\ on = h[k].s /\ exc_nest_count = h[k].m
  BY DEF Runs, Shape
<1>2. current \in Tasks /\ AreStacks(stack) BY DEF TaskInv, Data
<1>3. h[k].c.pc \notin Entering /\ h[k].c.pc # "entry" BY <1>1 DEF Entering
<1>4. /\ popped = Put(stack, h[k].s, Front(stack[h[k].s]))
      /\ after = Put(popped, before, Front(popped[before]))
      /\ before = Last(stack[h[k].s]).on
  BY <1>1
<1>5. /\ before = h[k - 1].s
      /\ Last(popped[before]) = Frame(h[k - 1].c)
      /\ Len(popped[before]) = h[k - 1].d + 1
      /\ AreStacks(popped) /\ AreStacks(after)
      /\ Placed(Shrunk(h, k), k - 1, after)
  <2> DEFINE b == Last(stack[h[k].s]).on
             p == Put(stack, h[k].s, Front(stack[h[k].s]))
             a == Put(p, b, Front(p[b]))
  <2>1. /\ b = h[k - 1].s
        /\ Last(p[b]) = Frame(h[k - 1].c)
        /\ Len(p[b]) = h[k - 1].d + 1
        /\ AreStacks(p) /\ AreStacks(a)
        /\ Placed(Shrunk(h, k), k - 1, a)
    BY ONLY k \in Nat \ {0}, h \in [0 .. k -> Items], <1>1, <1>2, <1>3, ShrunkPlaced
  <2>2. before = b /\ popped = p /\ after = a BY <1>4
  <2> HIDE DEF b, p, a
  <2> QED BY <2>1, <2>2
<1>6. Shrunk(h, k) \in [0 .. k - 1 -> Items] /\ Linked(Shrunk(h, k), k - 1, current, crit)
  BY <1>1, ChainShrinks
<1>7. k - 1 \in 0 .. k /\ k \in 0 .. k OBVIOUS
<1>8. on \in {current, Exc} /\ before \in {current, Exc} BY <1>1, <1>5, <1>7 DEF Linked
<1>9. \A t \in Tasks \ {current} : popped[t] = stack[t] /\ after[t] = stack[t]
  <2> SUFFICES ASSUME NEW t \in Tasks \ {current}
               PROVE  popped[t] = stack[t] /\ after[t] = stack[t]
    OBVIOUS
  <2>1. t # Exc /\ t \in Stacks BY TaskAssumption DEF Stacks
  <2>2. DOMAIN stack = Stacks /\ DOMAIN popped = Stacks BY <1>2, <1>5 DEF AreStacks
  <2> QED BY <1>8, <2>1, <2>2 DEF Put
<1>10. before # Exc => after[Exc] = popped[Exc]
  <2>1. Exc \in Stacks /\ DOMAIN popped = Stacks BY <1>5 DEF AreStacks, Stacks
  <2> QED BY <2>1 DEF Put
<1>11. exc_nest_count - 1 = h[k - 1].m
  <2>1. Link(h[k - 1], h[k]) BY <1>1 DEF Linked
  <2>2. h[k].m = h[k - 1].m + 1 BY <1>3, <2>1 DEF Link
  <2>3. h[k - 1].m \in Nat BY <1>7 DEF Items
  <2> QED BY <1>1, <2>2, <2>3
<1> QED BY <1>5, <1>6, <1>8, <1>9, <1>10, <1>11

LEMMA ReturnKeeps ==
  ASSUME TaskInv, ReturnFromInterrupt,
         ~(Outermost(irq_act \ {ctx.of}) /\ reqflg)
  PROVE  TaskInv'
<1>1. PICK before : before = Last(stack[on]).on OBVIOUS
<1>2. PICK popped : popped = Put(stack, on, Front(stack[on])) OBVIOUS
<1>3. PICK after : after = Put(popped, before, Front(popped[before])) OBVIOUS
<1>4. /\ ctx.of \in Levels /\ ctx.pc \in {"body", "leave"}
      /\ exc_nest_count' = exc_nest_count - 1
      /\ ctx' = Last(popped[before]).ctx /\ on' = before /\ stack' = after
      /\ irq_act' = irq_act \ {ctx.of}
      /\ UNCHANGED <<top, crit, current, yieldPending, ready, pending, suspended,
                     notifyState, value, sent>>
  BY <1>1, <1>2, <1>3 DEF ReturnFromInterrupt, NestingLeft, lists, notes, Put
<1>5. reqflg' = (reqflg /\ TRUE) BY DEF ReturnFromInterrupt, RequestLeft
<1>6. PICK k \in Nat \ {0} : \E h \in [0 .. k -> Items] : Runs(h, k) BY <1>4, RunningHandler
<1>7. PICK h \in [0 .. k -> Items] : Runs(h, k) BY <1>6
<1> DEFINE g == Shrunk(h, k)
           B == Handlers(h, k - 1)
<1>8. /\ before = h[k - 1].s
      /\ Last(popped[before]) = Frame(h[k - 1].c)
      /\ AreStacks(after)
      /\ g \in [0 .. k - 1 -> Items] /\ Linked(g, k - 1, current, crit)
      /\ Placed(g, k - 1, after)
      /\ \A t \in Tasks \ {current} : after[t] = stack[t]
      /\ exc_nest_count - 1 = h[k - 1].m
  BY <1>1, <1>2, <1>3, <1>4, <1>7, HandlerEnds
<1>9. /\ Data /\ current \in Tasks /\ OwnStacks /\ Others
      /\ Scheduled(h[0].c, B \cup {ctx}) /\ (OneKernelLevel => Counting(B \cup {ctx}))
  BY <1>4, <1>7, RunningHandler, HandlerKnows
<1>10. /\ irq_act = {h[i].c.of : i \in 1 .. k - 1} \cup {ctx.of}
       /\ ctx.of \notin {h[i].c.of : i \in 1 .. k - 1}
  BY <1>7, <1>9, TopHandler DEF Runs
<1>11. \A i \in 0 .. k - 1 : g[i] = h[i] BY DEF Shrunk
<1>12. g[k - 1] = h[k - 1] /\ g[0] = h[0] /\ \A i \in 1 .. k - 1 : g[i] = h[i] BY <1>11
<1>13. Handlers(g, k - 1) = B BY <1>12 DEF Handlers
<1> HIDE DEF g
<1>14. irq_act' = {g[i].c.of : i \in 1 .. k - 1}
  <2>1. irq_act' = {h[i].c.of : i \in 1 .. k - 1} BY <1>4, <1>10
  <2> QED BY <1>12, <2>1
<1>15. ctx' = g[k - 1].c /\ on' = g[k - 1].s /\ exc_nest_count' = g[k - 1].m
  BY <1>4, <1>8, <1>12 DEF Frame
<1>16. Shape(g, k - 1)' BY <1>4, <1>8, <1>14, <1>15 DEF Shape
<1>17. B = {} => ~reqflg
  <2> SUFFICES ASSUME B = {} PROVE ~reqflg OBVIOUS
  <2>1. k = 1
    <3>1. k > 1 => h[1].c \in B BY DEF Handlers
    <3> QED BY <3>1
  <2>2. irq_act = {ctx.of} BY <1>10, <2>1
  <2> QED BY <2>2 DEF Outermost
<1> HIDE DEF B
<1>18. reqflg' = reqflg /\ reqflg' \in BOOLEAN
  <2>1. reqflg \in BOOLEAN BY <1>9 DEF Data
  <2> QED BY <1>5, <2>1
<1>19. ctx.pc # "woken" /\ ctx.pc # "giving" BY <1>4
<1>20. Scheduled(h[0].c, B)'
  <2>1. /\ suspended' \in {0, 1} /\ (suspended' = 1 <=> h[0].c.pc = "held")
        /\ (suspended' = 0 => pending' = {}) /\ (reqflg' => B # {})
    BY <1>4, <1>9, <1>17, <1>18 DEF Scheduled
  <2>2. \/ current \in Highest(ready)
        \/ suspended = 0 /\ reqflg
        \/ suspended = 0 /\ \E b \in B : b.pc = "woken"
    BY <1>9, <1>19 DEF Scheduled
  <2>3. \/ current' \in Highest(ready)'
        \/ suspended' = 0 /\ (reqflg' \/ \E b \in B : b.pc = "woken")
    BY <1>4, <1>18, <2>2 DEF Highest
  <2> QED BY <2>1, <2>3 DEF Scheduled
<1>21. OneKernelLevel => Counting(B)' BY <1>4, <1>9, <1>19 DEF Counting
<1>22. Data' BY <1>4, <1>9, <1>18 DEF Data
<1>23. OwnStacks' /\ Others' BY <1>4, <1>8, <1>9 DEF OwnStacks, Others, AllLeft
<1>24. ctx'.of # Boot
  <2>1. CASE k = 1 BY <2>1, <1>8, <1>15, <1>9, TaskAssumption DEF Linked, OfTask
  <2>2. CASE k > 1
    <3>1. Link(g[k - 2], g[k - 1])
      <4>1. k - 1 \in 1 .. k - 1 /\ (k - 1) - 1 = k - 2 BY <2>2
      <4> QED BY <1>8, <4>1 DEF Linked
    <3>2. ctx'.of \in Levels BY <1>15, <3>1 DEF Link, Handler
    <3> QED BY <3>2, LevelAssumption
  <2> QED BY <2>1, <2>2
<1>25. AreStacks(stack') /\ k - 1 \in Nat BY <1>4, <1>8
<1> QED BY <1>8, <1>12, <1>13, <1>16, <1>20, <1>21, <1>22, <1>23, <1>24, <1>25, ChainReached

\* The last handler ends with a switch asked for: the task that it
\* interrupted is about to be switched away from, at c on its own stack.
LEMMA LastHandlerEnds ==
  ASSUME TaskInv, ReturnFromInterrupt,
         Outermost(irq_act \ {ctx.of}) /\ reqflg
  PROVE  /\ ctx.of \in Levels /\ ctx.pc \in {"body", "leave"}
         /\ exc_nest_count' = 0
         /\ irq_act \subseteq Levels /\ AtMostOne(irq_act)
         /\ \E c \in Contexts : \E st :
              /\ OfTask(c, current, crit)
              /\ AreStacks(st) /\ st[Exc] = <<>> /\ st[current] = <<Frame(c)>>
              /\ \A t \in Tasks \ {current} : st[t] = stack[t]
              /\ stack[current][1] = Frame(c)
              /\ Scheduled(c, {ctx}) /\ (OneKernelLevel => Counting({ctx}))
              /\ Dispatcher(st, current, "interrupt", {}, crit, ready, suspended)
<1>1. PICK before : before = Last(stack[on]).on OBVIOUS
<1>2. PICK popped : popped = Put(stack, on, Front(stack[on])) OBVIOUS
<1>3. PICK after : after = Put(popped, before, Front(popped[before])) OBVIOUS
<1>4. PICK act : act = irq_act \ {ctx.of} OBVIOUS
<1>5. /\ ctx.of \in Levels /\ ctx.pc \in {"body", "leave"}
      /\ exc_nest_count' = exc_nest_count - 1
  BY DEF ReturnFromInterrupt, NestingLeft
<1>6. Dispatcher(popped, before, "interrupt", act, crit, ready, suspended)
  BY <1>1, <1>2, <1>4 DEF ReturnFromInterrupt, Put
<1>8. act = {} BY <1>4 DEF Outermost
<1>10. PICK k \in Nat \ {0} : \E h \in [0 .. k -> Items] : Runs(h, k) BY <1>5, RunningHandler
<1>11. PICK h \in [0 .. k -> Items] : Runs(h, k) BY <1>10
<1>12. /\ Data /\ current \in Tasks /\ crit \in Nat /\ OwnStacks /\ Others /\ AreStacks(stack)
  BY <1>5, RunningHandler DEF Data
<1>13. /\ irq_act = {h[i].c.of : i \in 1 .. k - 1} \cup {ctx.of}
       /\ ctx.of \notin {h[i].c.of : i \in 1 .. k - 1}
  BY <1>11, <1>12, TopHandler DEF Runs
<1>14. k = 1
  <2>1. {h[i].c.of : i \in 1 .. k - 1} = {} BY <1>4, <1>8, <1>13
  <2>2. ASSUME k # 1 PROVE FALSE
    <3>1. 1 \in 1 .. k - 1 BY <2>2
    <3>2. h[1].c.of \in {h[i].c.of : i \in 1 .. k - 1} BY <3>1
    <3> QED BY <2>1, <3>2
  <2> QED BY <2>2
<1>15. /\ before = h[0].s
       /\ Last(popped[before]) = Frame(h[0].c)
       /\ Len(popped[before]) = h[0].d + 1
       /\ AreStacks(popped)
       /\ Linked(Shrunk(h, k), 0, current, crit)
       /\ Placed(Shrunk(h, k), 0, after)
       /\ \A t \in Tasks \ {current} : popped[t] = stack[t]
       /\ before # Exc => after[Exc] = popped[Exc]
       /\ exc_nest_count - 1 = h[0].m
  <2>1. k - 1 = 0 BY <1>14
  <2>2. /\ before = h[k - 1].s
        /\ Last(popped[before]) = Frame(h[k - 1].c)
        /\ Len(popped[before]) = h[k - 1].d + 1
        /\ AreStacks(popped)
        /\ Linked(Shrunk(h, k), k - 1, current, crit)
        /\ Placed(Shrunk(h, k), k - 1, after)
        /\ \A t \in Tasks \ {current} : popped[t] = stack[t]
        /\ before # Exc => after[Exc] = popped[Exc]
        /\ exc_nest_count - 1 = h[k - 1].m
    BY ONLY TaskInv, k \in Nat \ {0}, h \in [0 .. k -> Items],
            <1>1, <1>2, <1>3, <1>5, <1>11, HandlerEnds
  <2> QED BY ONLY <2>1, <2>2
<1>16. /\ h[0].s = current /\ h[0].d = 0 /\ h[0].m = 0 /\ OfTask(h[0].c, current, crit)
       /\ h[0] \in Items
  BY <1>11 DEF Runs, Shape, Linked
<1>17. PICK c : c = h[0].c OBVIOUS
<1>18. c \in Contexts /\ OfTask(c, current, crit) BY <1>16, <1>17 DEF Items
<1>19. /\ before = current /\ current # Exc /\ Exc \in Stacks /\ current \in Stacks
  BY <1>12, <1>15, <1>16, TaskAssumption DEF Stacks
<1>20. popped[current] = <<Frame(c)>>
  <2>1. IsStack(popped[current]) BY <1>15, <1>19 DEF AreStacks
  <2>2. Len(popped[current]) = 1 BY <1>15, <1>16, <1>19
  <2>3. Last(popped[current]) = Frame(c) BY <1>15, <1>17, <1>19
  <2> QED BY <2>1, <2>2, <2>3, OneElement
<1>21. popped[Exc] = <<>>
  <2>1. Shrunk(h, k)[0] = h[0] BY <1>14 DEF Shrunk
  <2>2. after[Exc] = <<>> BY <2>1, <1>15, <1>16, <1>19 DEF Placed
  <2> QED BY <2>2, <1>15, <1>19
<1>22. stack[current][1] = Frame(c)
  <2>1. 0 \in 0 .. k /\ 0 < k /\ h[0].d + 1 = 1 BY <1>14, <1>16
  <2>2. stack[h[0].s][h[0].d + 1] = Frame(h[0].c)
    BY ONLY <1>11, <2>1 DEF Runs, Shape, Placed
  <2> QED BY <1>16, <1>17, <2>1, <2>2
<1>23. irq_act \subseteq Levels /\ AtMostOne(irq_act)
  <2>1. irq_act = {ctx.of} BY <1>13, <1>14
  <2> QED BY <2>1, <1>5 DEF AtMostOne
<1>24. Scheduled(c, {ctx}) /\ (OneKernelLevel => Counting({ctx}))
  <2>1. k - 1 = 0 BY <1>14
  <2>2. /\ Scheduled(h[0].c, Handlers(h, k - 1) \cup {ctx})
        /\ OneKernelLevel => Counting(Handlers(h, k - 1) \cup {ctx})
    BY <1>5, <1>11, HandlerKnows
  <2>3. Handlers(h, 0) \cup {ctx} = {ctx} BY DEF Handlers
  <2> QED BY ONLY <1>17, <2>1, <2>2, <2>3
<1>25. exc_nest_count' = 0 BY <1>5, <1>15, <1>16
<1>26. Dispatcher(popped, current, "interrupt", {}, crit, ready, suspended)
  BY <1>6, <1>8, <1>19
<1>27. AreStacks(popped) /\ \A t \in Tasks \ {current} : popped[t] = stack[t] BY <1>15
<1> QED
  BY ONLY <1>5, <1>18, <1>20, <1>21, <1>22, <1>23, <1>24, <1>25, <1>26, <1>27

LEMMA ReturnSwitches ==
  ASSUME TaskInv, ReturnFromInterrupt,
         Outermost(irq_act \ {ctx.of}) /\ reqflg
  PROVE  TaskInv'
<1>1. /\ ready' = ready /\ pending' = pending /\ suspended' = suspended
      /\ notifyState' = notifyState /\ value' = value /\ sent' = sent
  BY DEF ReturnFromInterrupt, lists, notes
<1>2. reqflg' = (reqflg /\ ~(Outermost(irq_act \ {ctx.of}) /\ reqflg))
  BY DEF ReturnFromInterrupt, RequestLeft
<1>3. /\ ctx.of \in Levels /\ ctx.pc \in {"body", "leave"}
      /\ exc_nest_count' = 0
      /\ irq_act \subseteq Levels /\ AtMostOne(irq_act)
  BY LastHandlerEnds
<1>4. PICK c \in Contexts : \E st :
        /\ OfTask(c, current, crit)
        /\ AreStacks(st) /\ st[Exc] = <<>> /\ st[current] = <<Frame(c)>>
        /\ \A t \in Tasks \ {current} : st[t] = stack[t]
        /\ Scheduled(c, {ctx}) /\ (OneKernelLevel => Counting({ctx}))
        /\ Dispatcher(st, current, "interrupt", {}, crit, ready, suspended)
  BY LastHandlerEnds
<1>5. PICK st :
        /\ OfTask(c, current, crit)
        /\ AreStacks(st) /\ st[Exc] = <<>> /\ st[current] = <<Frame(c)>>
        /\ \A t \in Tasks \ {current} : st[t] = stack[t]
        /\ Scheduled(c, {ctx}) /\ (OneKernelLevel => Counting({ctx}))
        /\ Dispatcher(st, current, "interrupt", {}, crit, ready, suspended)
  BY <1>4
<1>6. Data /\ current \in Tasks /\ crit \in Nat /\ OwnStacks /\ Others
  BY <1>3, RunningHandler DEF Data
<1>7. AllLeft(st, current) BY <1>5, <1>6 DEF Others, AllLeft
<1>8. PICK tasks, depth, nesting, how, act :
        /\ tasks = ready /\ depth = suspended /\ nesting = crit
        /\ how = "interrupt" /\ act = {}
  OBVIOUS
<1>9. /\ tasks \in SUBSET Tasks /\ depth \in {0, 1} /\ nesting \in Nat
      /\ how \in {"start", "call", "interrupt", "exception"}
      /\ how = "interrupt" => AtMostOne(irq_act)
      /\ (depth = 1 <=> c.pc = "held") /\ (depth = 0 => c.pc # "held")
      /\ depth = 0 => pending = {}
  BY <1>3, <1>5, <1>6, <1>8 DEF Scheduled, Data
<1>10. OfTask(c, current, nesting) /\ Dispatcher(st, current, how, act, nesting, tasks, depth)
  BY ONLY <1>5, <1>8
<1>11. depth = 1 => current \in Highest(tasks)
  BY <1>5, <1>8 DEF Scheduled
<1>12. /\ current' \in Tasks /\ yieldPending' \in BOOLEAN /\ top' = top
       /\ ctx' \in Contexts /\ crit' \in Nat /\ OfTask(ctx', current', crit')
       /\ on' = current' /\ irq_act' = {}
       /\ AreStacks(stack') /\ stack'[current'] = <<>> /\ stack'[Exc] = <<>>
       /\ AllLeft(stack', current')
       /\ depth = 0 => current' \in Highest(tasks) /\ ctx'.pc # "held"
       /\ depth = 1 => current' = current /\ ctx'.pc = c.pc
  <2>1. act = {} /\ c \in Contexts /\ irq_act \subseteq Levels BY <1>3, <1>8
  <2>2. AreStacks(st) /\ st[Exc] = <<>> /\ st[current] = <<Frame(c)>> BY <1>5
  <2> QED BY ONLY <2>1, <2>2, <1>6, <1>7, <1>9, <1>10, SwitchGoesOn
<1>13. reqflg' \in BOOLEAN /\ ~reqflg'
  <2>1. FALSE \in BOOLEAN OBVIOUS
  <2> QED BY <1>2, <2>1
<1>14. Data' BY <1>1, <1>6, <1>12, <1>13 DEF Data
<1>15. Scheduled(ctx, {})'
  <2>1. current' \in Highest(ready)' BY <1>1, <1>8, <1>9, <1>11, <1>12 DEF Highest
  <2>2. /\ suspended' = depth /\ (suspended' = 0 => pending' = {})
        /\ (suspended' = 1 <=> ctx'.pc = "held")
    BY <1>1, <1>8, <1>9, <1>12
  <2> QED BY <1>9, <1>13, <2>1, <2>2 DEF Scheduled
<1>16. OneKernelLevel => Counting({})'
  <2>1. ctx.pc # "giving" BY <1>3
  <2> QED BY <1>1, <1>5, <2>1 DEF Counting
<1>17. AtTask' BY <1>3, <1>12, <1>15, <1>16 DEF AtTask, OneKernelLevel
<1>18. OwnStacks' BY <1>6, <1>12 DEF OwnStacks
<1>19. Others' BY <1>12 DEF Others
<1> QED BY <1>12, <1>14, <1>17, <1>18, <1>19, TaskReached

LEMMA StartKeeps == TaskInv /\ start_dispatch => TaskInv'
<1> SUFFICES ASSUME TaskInv, start_dispatch PROVE TaskInv' OBVIOUS
<1>1. /\ ctx.of = Boot /\ exc_nest_count' = 0
      /\ Resume(stack, top[current], irq_act)
      /\ UNCHANGED <<top, reqflg, current, ready, pending, suspended, yieldPending,
                     notifyState, value, sent>>
  BY DEF start_dispatch, lists, notes
<1>2. Data /\ AreStacks(stack) /\ OwnStacks /\ Booting /\ current \in Tasks
  BY <1>1 DEF TaskInv, Data
<1>3. PICK t : t = current OBVIOUS
<1>4. PICK st : st = stack OBVIOUS
<1>5. PICK pcs : pcs = TaskPCs \ {"held"} OBVIOUS
<1>6. top[current] = t /\ irq_act = {} BY <1>2, <1>3 DEF OwnStacks, Booting
<1>7. t \in Tasks /\ AreStacks(st) /\ Resume(st, t, {}) BY <1>1, <1>2, <1>3, <1>4, <1>6
<1>8. Saved(st[t], t, pcs) BY <1>2, <1>3, <1>4, <1>5 DEF Booting, Left
<1>9. /\ ctx' \in Contexts /\ crit' \in Nat /\ OfTask(ctx', t, crit')
      /\ ctx'.pc \in pcs /\ on' = t /\ irq_act' = {}
      /\ AreStacks(stack') /\ stack'[t] = <<>>
      /\ \A s \in Stacks : s # t => stack'[s] = st[s]
  BY <1>7, <1>8, SavedGoesOn
<1>10. stack'[Exc] = <<>>
  <2>1. t # Exc /\ Exc \in Stacks BY <1>7, TaskAssumption DEF Stacks
  <2> QED BY <2>1, <1>2, <1>4, <1>9 DEF Booting
<1>11. Others'
  <2>1. \A u \in Tasks \ {t} : stack'[u] = stack[u] BY <1>4, <1>9 DEF Stacks
  <2> QED BY <2>1, <1>1, <1>2, <1>3 DEF Others, AllLeft, Booting
<1>12. Data' BY <1>1, <1>2, <1>9 DEF Data
<1>13. Scheduled(ctx, {})'
  <2>1. current' \in Highest(ready)' BY <1>1, <1>2 DEF Booting, Highest
  <2>2. suspended' = 0 /\ pending' = {} /\ ~reqflg' /\ ctx'.pc # "held"
    BY <1>1, <1>2, <1>5, <1>9 DEF Booting
  <2> QED BY <2>1, <2>2 DEF Scheduled
<1>14. OneKernelLevel => Counting({})'
  <2>1. ready' = Tasks /\ value' = sent' BY <1>1, <1>2 DEF Booting
  <2> QED BY <2>1 DEF Counting
<1>15. AtTask' BY <1>1, <1>3, <1>9, <1>10, <1>13, <1>14 DEF AtTask, OneKernelLevel
<1>16. OwnStacks' BY <1>1, <1>2 DEF OwnStacks
<1>17. AreStacks(stack') BY <1>9
<1> QED BY ONLY <1>11, <1>12, <1>15, <1>16, <1>17, TaskReached

LEMMA InitHolds == Init => TaskInv
<1> SUFFICES ASSUME Init PROVE TaskInv OBVIOUS
<1>1. Boot \notin Tasks /\ Exc \notin Tasks BY TaskAssumption
<1>2. Data
  <2>1. FALSE \in BOOLEAN /\ 0 \in Nat /\ 999 \in Nat OBVIOUS
  <2>2. /\ value \in [Tasks -> Nat] /\ sent \in [Tasks -> Nat]
        /\ notifyState \in [Tasks -> States]
    BY DEF Init, States
  <2>3. /\ current \in Tasks /\ crit = 999 /\ (reqflg = FALSE) /\ (yieldPending = FALSE)
        /\ ready = Tasks /\ pending = {}
    BY DEF Init
  <2> QED BY <2>1, <2>2, <2>3 DEF Data
<1>3. \A t \in Tasks : stack[t] = <<Frame(Context(t, "run", TRUE)), Switched("start", {}, 0)>>
  BY <1>1 DEF Init
<1>4. stack[Exc] = <<>> BY DEF Init
<1>5. AreStacks(stack)
  <2>1. stack = [s \in Stacks |-> stack[s]] BY DEF Init, Stacks
  <2>2. ASSUME NEW s \in Stacks PROVE IsStack(stack[s])
    <3>1. CASE s = Exc BY <3>1, <1>4, EmptyStack
    <3>2. CASE s \in Tasks
      <4>1. PICK a, b : a = Frame(Context(s, "run", TRUE)) /\ b = Switched("start", {}, 0) OBVIOUS
      <4>2. stack[s] = <<a, b>> BY <3>2, <4>1, <1>3
      <4> QED BY <4>2, PairStack
    <3> QED BY <3>1, <3>2 DEF Stacks
  <2> QED BY <2>1, <2>2 DEF AreStacks
<1>6. OwnStacks BY DEF Init, OwnStacks
<1>7. ASSUME NEW t \in Tasks PROVE Left(stack[t], t)
  <2>1. PICK c : c = Context(t, "run", TRUE) OBVIOUS
  <2>2. PICK act, nesting, how : act = {} /\ nesting = 0 /\ how = "start" OBVIOUS
  <2>3. c \in Contexts /\ c.of = t /\ c.pc = "run" /\ c.ie = TRUE
    BY <2>1 DEF Contexts, Context, PCs
  <2>4. OfTask(c, t, nesting)
    <3>1. ~(nesting > 0) /\ nesting = 0 BY <2>2
    <3> QED BY <2>3, <3>1 DEF OfTask, TaskPCs
  <2>5. /\ how \in {"start", "call", "interrupt", "exception"}
        /\ act \in SUBSET Levels /\ nesting \in Nat
        /\ stack[t] = <<Frame(c), Switched(how, act, nesting)>>
        /\ how = "interrupt" => AtMostOne(act)
    BY <1>3, <2>1, <2>2
  <2>6. c.pc \in TaskPCs \ {"held"} BY <2>3 DEF TaskPCs
  <2> QED BY <2>3, <2>4, <2>5, <2>6 DEF Left, Saved
<1>8. Booting
  <2>1. ctx = Context(Boot, "boot", FALSE) /\ on = Exc /\ irq_act = {} /\ exc_nest_count = 0
        /\ ~reqflg /\ suspended = 0 /\ pending = {} /\ ready = Tasks /\ value = sent
    BY DEF Init
  <2>2. current \in Highest(ready) BY DEF Init, Highest
  <2> QED BY <1>4, <1>7, <2>1, <2>2 DEF Booting
<1>9. ctx.of = Boot BY DEF Init, Context
<1> QED BY <1>2, <1>5, <1>6, <1>8, <1>9 DEF TaskInv

-----------------------------------------------------------------------------
(* The invariant is inductive *)

LEMMA StutterKeeps == TaskInv /\ UNCHANGED vars => TaskInv'
<1> SUFFICES ASSUME TaskInv, UNCHANGED vars PROVE TaskInv' OBVIOUS
<1>1. UNCHANGED <<ctx, on, stack, top, irq_act, exc_nest_count, reqflg, crit, current, ready,
                  pending, suspended, yieldPending, notifyState, value, sent>>
  BY DEF vars, port, lists, notes
<1>2. Data' /\ AreStacks(stack') /\ OwnStacks' BY <1>1 DEF TaskInv, Data, OwnStacks
<1>3. ctx'.of = Boot => Booting' BY <1>1 DEF TaskInv, Booting, Highest
<1>4. ASSUME ctx.of # Boot
      PROVE  Others' /\ \E k \in Nat : \E h \in [0 .. k -> Items] : Runs(h, k)'
  <2>1. Others' BY <1>1, <1>4 DEF TaskInv, Others
  <2>2. PICK k \in Nat : \E h \in [0 .. k -> Items] : Runs(h, k) BY <1>4 DEF TaskInv
  <2>3. PICK h \in [0 .. k -> Items] : Runs(h, k) BY <2>2
  <2>4. Shape(h, k)' BY <1>1, <2>3 DEF Runs, Shape
  <2>5. Scheduled(h[0].c, Handlers(h, k))' BY <1>1, <2>3 DEF Runs, Scheduled, Highest
  <2>6. OneKernelLevel => Counting(Handlers(h, k))' BY <1>1, <2>3 DEF Runs, Counting
  <2>7. Runs(h, k)' BY <2>4, <2>5, <2>6 DEF Runs, OneKernelLevel
  <2> QED BY <2>1, <2>7
<1> QED BY <1>1, <1>2, <1>3, <1>4 DEF TaskInv

LEMMA TrapKeeps == TaskInv /\ Trap => TaskInv'
BY TaskTrapKeeps, HandlerTrapKeeps DEF Trap

LEMMA TaskInvKept == TaskInv /\ [Next]_vars => TaskInv'
<1> SUFFICES ASSUME TaskInv, [Next]_vars PROVE TaskInv' OBVIOUS
<1>1. CASE start_dispatch BY <1>1, StartKeeps
<1>2. CASE \E p \in Levels : Interrupt(p) BY <1>2, InterruptKeeps
<1>3. CASE CountHandler BY <1>3, CountHandlerKeeps
<1>4. CASE ChangeStack BY <1>4, ChangeStackKeeps
<1>5. CASE vPortYieldFromIsr BY <1>5, YieldFromIsrKeeps
<1>6. CASE ReturnFromInterrupt BY <1>6, ReturnKeeps, ReturnSwitches
<1>7. CASE Trap BY <1>7, TrapKeeps
<1>8. CASE \E u \in Tasks \ {Idle} : GiveFromISR(u) BY <1>8, GiveFromIsrKeeps
<1>9. CASE \E u \in Tasks \ {Idle} : xTaskNotifyGive(u) BY <1>9, GiveKeeps
<1>10. CASE FinishGive BY <1>10, FinishGiveKeeps
<1>11. CASE EnterCritical BY <1>11, EnterCriticalKeeps
<1>12. CASE Leave
  <2>1. CASE ExitCritical("critical", "run") BY <2>1, ExitCriticalKeeps
  <2>2. CASE ExitCritical("taking", "taken") BY <2>2, ExitCriticalKeeps
  <2>3. CASE ExitCritical("leaving", "run") BY <2>3, ExitCriticalKeeps
  <2> QED BY <1>12, <2>1, <2>2, <2>3 DEF Leave
<1>13. CASE vPortYield BY <1>13, vPortYieldKeeps
<1>14. CASE ulTaskNotifyTake BY <1>14, TakeKeeps
<1>15. CASE TakeCount BY <1>15, TakeCountKeeps
<1>16. CASE vTaskSuspendAll BY <1>16, SuspendAllKeeps
<1>17. CASE StoreSuspended BY <1>17, StoreSuspendedKeeps
<1>18. CASE xTaskResumeAll BY <1>18, ResumeAllKeeps
<1>19. CASE UNCHANGED vars BY <1>19, StutterKeeps
<1> QED
  BY <1>1, <1>2, <1>3, <1>4, <1>5, <1>6, <1>7, <1>8, <1>9, <1>10, <1>11, <1>12,
     <1>13, <1>14, <1>15, <1>16, <1>17, <1>18, <1>19 DEF Next

LEMMA TaskInvHolds == Spec => []TaskInv
BY InitHolds, TaskInvKept, PTL DEF Spec

\* A chain, whenever the scheduler has started.
LEMMA AnyChain ==
  ASSUME TaskInv, ctx.of # Boot
  PROVE  \E k \in Nat : \E h \in [0 .. k -> Items] :
           /\ Runs(h, k) /\ Shape(h, k)
           /\ (k > 0 <=> ctx.of \in Levels) /\ (k = 0 <=> ctx.of \in Tasks)
<1>1. PICK k \in Nat : \E h \in [0 .. k -> Items] : Runs(h, k) BY DEF TaskInv
<1>2. PICK h \in [0 .. k -> Items] : Runs(h, k) BY <1>1
<1>3. Shape(h, k) /\ current \in Tasks BY <1>2 DEF Runs, TaskInv, Data
<1>4. (k > 0 <=> ctx.of \in Levels) /\ (k = 0 <=> ctx.of \in Tasks) BY <1>3, Ranks
<1> QED BY <1>2, <1>3, <1>4

-----------------------------------------------------------------------------
(* The theorems *)

\* The variables of the port and of the kernel have their types: what is
\* popped when a handler ends is what was pushed when it began, and as many
\* handlers end as exc_entry_int counted.
THEOREM TypeCorrect == Spec => []TypeOK
<1>1. TaskInv => TypeOK
  <2> SUFFICES ASSUME TaskInv PROVE TypeOK OBVIOUS
  <2>1. /\ current \in Tasks /\ ready \subseteq Tasks /\ pending \subseteq Tasks
        /\ crit \in Nat /\ reqflg \in BOOLEAN /\ yieldPending \in BOOLEAN
        /\ notifyState \in [Tasks -> {"not waiting", "waiting", "received"}]
        /\ value \in [Tasks -> Nat] /\ sent \in [Tasks -> Nat]
    BY DEF TaskInv, Data, States
  <2>2. top \in [Tasks -> Tasks \cup {Exc}] BY DEF TaskInv, OwnStacks
  <2>3. /\ ctx \in Contexts /\ on \in Tasks \cup {Exc}
        /\ irq_act \subseteq Levels /\ exc_nest_count \in Nat /\ suspended \in Nat
    <3>1. CASE ctx.of = Boot
      <4>1. Booting BY <3>1 DEF TaskInv
      <4>2. FALSE \in BOOLEAN OBVIOUS
      <4>3. ctx \in Contexts BY <4>1, <4>2 DEF Booting, Contexts, Context, PCs
      <4> QED BY <4>1, <4>3 DEF Booting
    <3>2. CASE ctx.of # Boot
      <4>1. PICK k \in Nat : \E h \in [0 .. k -> Items] : Runs(h, k) /\ Shape(h, k)
        BY <3>2, AnyChain
      <4>2. PICK h \in [0 .. k -> Items] : Runs(h, k) /\ Shape(h, k) BY <4>1
      <4>3. suspended \in Nat BY <4>2 DEF Runs, Scheduled
      <4> QED BY <2>1, <4>2, <4>3, Ranks DEF Stacks
    <3> QED BY <3>1, <3>2
  <2> QED BY <2>1, <2>2, <2>3 DEF TypeOK, Contexts
<1> QED BY <1>1, TaskInvHolds, PTL

\* The exception stack is free for the outermost handler.
LEMMA StackIsFree == TaskInv => ExceptionStackFree
<1> SUFFICES ASSUME TaskInv, ctx.pc = "count", ctx.n = 0 PROVE stack[Exc] = <<>>
  BY DEF ExceptionStackFree
<1>1. ctx.of \in Levels BY HandlersOnly DEF HandlerPCs
<1>2. PICK k \in Nat \ {0} : \E h \in [0 .. k -> Items] : Runs(h, k) BY <1>1, RunningHandler
<1>3. PICK h \in [0 .. k -> Items] : Runs(h, k) BY <1>2
<1>4. /\ Linked(h, k, current, crit) /\ Placed(h, k, stack) /\ ctx = h[k].c
  BY <1>3 DEF Runs, Shape
<1>5. Link(h[k - 1], h[k]) BY <1>4 DEF Linked
<1>6. h[k].s = h[k - 1].s /\ h[k - 1].m = 0 BY <1>4, <1>5 DEF Link
<1>7. k - 1 \in 0 .. k OBVIOUS
<1>8. h[k].s # Exc BY <1>4, <1>6, <1>7 DEF Linked
<1> QED BY <1>4, <1>8 DEF Placed

\* exc_entry_int starts the exception stack at its end only when nothing of
\* it is still needed, although the handler that has counted itself can be
\* interrupted before it changes stacks.
THEOREM StackFree == Spec => []ExceptionStackFree
BY StackIsFree, TaskInvHolds, PTL

\* ulCriticalNesting, saved and loaded by every switch, is that of the task
\* that runs, and says whether interrupts are off.
THEOREM NestingFollowsTask == Spec => []InterruptsFollowNesting
<1>1. TaskInv => InterruptsFollowNesting
  <2> SUFFICES ASSUME TaskInv, ctx.of \in Tasks
               PROVE  /\ crit > 0 <=> ctx.pc \in {"critical", "taking", "leaving"}
                      /\ ctx.ie <=> crit = 0
    BY DEF InterruptsFollowNesting
  <2>1. OfTask(ctx, current, crit) BY RunningTask
  <2> QED BY <2>1 DEF OfTask
<1> QED BY <1>1, TaskInvHolds, PTL

\* A request for a switch made by a handler, however deep it was nested, is
\* served before the task goes on; then the most urgent ready task runs.
THEOREM NoRequestLost == Spec => []MostUrgentRuns
<1>1. TaskInv => MostUrgentRuns
  <2> SUFFICES ASSUME TaskInv, ctx.of \in Tasks
               PROVE  ~reqflg /\ ctx.of = current /\ current \in Highest(ready)
    BY DEF MostUrgentRuns
  <2> QED BY RunningTask
<1> QED BY <1>1, TaskInvHolds, PTL

\* A task that has suspended the scheduler keeps the processor, although the
\* increment of uxSchedulerSuspended can be interrupted half way.
THEOREM SuspensionKept == Spec => []SuspensionHolds
<1>1. TaskInv => SuspensionHolds
  <2> SUFFICES ASSUME TaskInv, NEW t \in Tasks, TaskAt(t).at.pc = "held"
               PROVE  t = current /\ suspended > 0
    BY DEF SuspensionHolds
  <2>1. ASSUME Left(stack[t], t), IsLeft(t) PROVE FALSE
    <3>1. TaskAt(t).at = Last(Front(stack[t])).ctx
      <4>1. top[t] = t BY DEF TaskInv, OwnStacks
      <4> QED BY <2>1, <4>1 DEF TaskAt
    <3>2. PICK c, b : stack[t] = <<Frame(c), b>> /\ c.pc \in TaskPCs \ {"held"}
      BY <2>1 DEF Left, Saved
    <3>3. PICK a : a = Frame(c) OBVIOUS
    <3>4. Last(Front(<<a, b>>)) = a
      <4>1. Front(<<a, b>>) = <<a>> /\ Last(<<a>>) = a BY PairStack
      <4> QED BY <4>1
    <3>5. TaskAt(t).at = c BY <3>1, <3>2, <3>3, <3>4 DEF Frame
    <3> QED BY <3>2, <3>5
  <2>2. ctx.of # Boot /\ t = current
    <3>1. ctx.of = Boot => Left(stack[t], t) /\ IsLeft(t) BY DEF TaskInv, Booting, IsLeft
    <3>2. ctx.of # Boot /\ t # current => Left(stack[t], t) /\ IsLeft(t)
      BY DEF TaskInv, Others, AllLeft, IsLeft
    <3> QED BY <2>1, <3>1, <3>2
  <2>3. TaskAt(t).at = Interrupted BY <2>2 DEF TaskAt, IsLeft
  <2>4. PICK k \in Nat : \E h \in [0 .. k -> Items] :
           Runs(h, k) /\ Shape(h, k) /\ (k = 0 <=> ctx.of \in Tasks)
    BY <2>2, AnyChain
  <2>5. PICK h \in [0 .. k -> Items] :
           Runs(h, k) /\ Shape(h, k) /\ (k = 0 <=> ctx.of \in Tasks)
    BY <2>4
  <2>6. Interrupted = h[0].c
    <3>1. CASE k = 0 BY <3>1, <2>5 DEF Interrupted, Shape
    <3>2. CASE k > 0
      <4>1. stack[current][1] = Frame(h[0].c)
        <5>1. h[0].s = current /\ h[0].d = 0 BY <2>5 DEF Shape, Linked
        <5>2. stack[h[0].s][h[0].d + 1] = Frame(h[0].c) BY <3>2, <2>5 DEF Shape, Placed
        <5> QED BY <5>1, <5>2
      <4>2. ctx.of \notin Tasks BY <3>2, <2>5
      <4> QED BY <4>1, <4>2 DEF Interrupted, Frame
    <3> QED BY <3>1, <3>2
  <2>7. Scheduled(h[0].c, Handlers(h, k)) /\ h[0].c.pc = "held" BY <2>3, <2>5, <2>6 DEF Runs
  <2>8. suspended = 1 BY <2>7 DEF Scheduled
  <2> QED BY <2>2, <2>8
<1> QED BY <1>1, TaskInvHolds, PTL

\* When the handlers that call the kernel share one level, which is what
\* vTaskNotifyGiveFromISR needs since portSET_INTERRUPT_MASK_FROM_ISR is
\* empty in this port, every notification given is counted.
THEOREM EveryGiveCounted == OneKernelLevel /\ Spec => []GivesAreCounted
<1>1. OneKernelLevel /\ TaskInv => GivesAreCounted
  <2> SUFFICES ASSUME OneKernelLevel, TaskInv PROVE value = sent BY DEF GivesAreCounted
  <2>1. CASE ctx.of = Boot BY <2>1 DEF TaskInv, Booting
  <2>2. CASE ctx.of # Boot BY <2>2 DEF TaskInv, Runs, Counting
  <2> QED BY <2>1, <2>2
<1>2. OneKernelLevel => []OneKernelLevel
  <2>1. OneKernelLevel => OneKernelLevel' BY DEF OneKernelLevel
  <2> QED BY <2>1, PTL
<1> QED BY <1>1, <1>2, TaskInvHolds, PTL
-----------------------------------------------------------------------------
(* Where the tasks are *)

(* A task moves only when it executes, whatever handlers and other tasks   *)
(* push and pop meanwhile; and what follows for notifications.             *)

At(c, nesting) == [at |-> c, crit |-> nesting]

\* What the end of a stack says of the task that was switched away from.
SavedAt(s) == At(Last(Front(s)).ctx, Last(s).crit)

\* A task stays where it is.
Stays(t) == TaskAt(t)' = TaskAt(t)

\* All tasks but the one that executes stay where they are.
OthersStayPut ==
  \A t \in Tasks : t # current \/ ctx.of \notin Tasks => Stays(t)

\* Inside ulTaskNotifyTake, behind the point where it waits.
Taking == {"taking", "taken"}

\* A task that goes on in ulTaskNotifyTake has a notification to take.
Paid ==
  \A t \in Tasks : TaskAt(t).at.pc \in Taking /\ t \in ready \cup pending => value[t] > 0

\* The step takes no notification from t, and makes t ready only with one.
KeepsPaying(t) ==
  /\ value[t] > 0 => value'[t] > 0
  /\ t \in ready' \cup pending' => t \in ready \cup pending \/ value'[t] > 0

\* The running task is at c now, in ulTaskNotifyTake only with a notification or blocked.
Accounted(c) ==
  c.pc \in Taking => \/ current \notin ready' \cup pending'
                     \/ value'[current] > 0
                     \/ ctx.pc \in Taking /\ value' = value /\ current \in ready

\* The two kinds of steps.
AllStay == \A t \in Tasks : Stays(t) /\ KeepsPaying(t)

Arrives(c, nesting) ==
  \A t \in Tasks : IF t = current THEN TaskAt(t)' = At(c, nesting) ELSE Stays(t)

TaskMoves ==
  /\ ctx.of \in Tasks
  /\ \E c, nesting : Accounted(c) /\ Arrives(c, nesting)
  /\ \A t \in Tasks \ {current} : KeepsPaying(t)

-----------------------------------------------------------------------------
(* Reading the place of a task *)

LEMMA LeftAt ==
  ASSUME OwnStacks, NEW t \in Tasks, IsLeft(t)
  PROVE  TaskAt(t) = SavedAt(stack[t])
BY DEF OwnStacks, TaskAt, SavedAt, At

LEMMA RunningAt ==
  ASSUME current \in Tasks, ctx.of \in Tasks
  PROVE  TaskAt(current) = At(ctx, crit)
<1>1. ctx.of # Boot BY TaskAssumption
<1> QED BY <1>1 DEF TaskAt, IsLeft, Interrupted, At

LEMMA SavedPair ==
  ASSUME NEW c, NEW how, NEW act, NEW nesting
  PROVE  SavedAt(<<Frame(c), Switched(how, act, nesting)>>) = At(c, nesting)
<1> DEFINE a == Frame(c)
           b == Switched(how, act, nesting)
<1>1. a.ctx = c /\ b.crit = nesting BY DEF Frame, Switched
<1> HIDE DEF a, b
<1>2. Front(<<a, b>>) = <<a>> /\ Last(<<a, b>>) = b /\ Last(<<a>>) = a BY PairStack
<1>3. SavedAt(<<a, b>>) = At(c, nesting) BY <1>1, <1>2 DEF SavedAt
<1> QED BY <1>3 DEF a, b

\* With handlers above it, the task is in the frame at the end of its stack.
LEMMA BottomFrame ==
  ASSUME NEW k \in Nat \ {0}, NEW h \in [0 .. k -> Items], NEW task, NEW nesting,
         Linked(h, k, task, nesting), NEW stacks, Placed(h, k, stacks)
  PROVE  /\ stacks[task][1] = Frame(h[0].c)
         /\ Len(stacks[task]) \in Nat => Len(stacks[task]) >= 1
<1>1. h[0].s = task /\ h[0].d = 0 BY DEF Linked
<1>2. 0 \in 0 .. k /\ 0 < k OBVIOUS
<1>3. /\ h[0].d < Len(stacks[h[0].s])
      /\ stacks[h[0].s][h[0].d + 1] = Frame(h[0].c)
  BY <1>2 DEF Placed
<1> QED BY <1>1, <1>3

-----------------------------------------------------------------------------
(* Switching *)

\* After a switch every task is where it was left, the one that gave the
\* processor away at c.
LEMMA SwitchLeaves ==
  ASSUME OwnStacks, current \in Tasks, irq_act \subseteq Levels,
         NEW st, AreStacks(st), st[Exc] = <<>>,
         NEW c \in Contexts, NEW nesting \in Nat,
         st[current] = <<Frame(c)>>, OfTask(c, current, nesting),
         AllLeft(st, current),
         NEW how \in {"start", "call", "interrupt", "exception"},
         how = "interrupt" => AtMostOne(irq_act),
         NEW tasks \in SUBSET Tasks, NEW depth \in {0, 1}, depth = 0 => c.pc # "held",
         NEW act, act = {},
         Dispatcher(st, current, how, act, nesting, tasks, depth)
  PROVE  \A t \in Tasks :
           TaskAt(t)' = IF t = current THEN At(c, nesting) ELSE SavedAt(st[t])
<1>0. /\ current' \in Tasks /\ yieldPending' \in BOOLEAN /\ top' = top
      /\ ctx' \in Contexts /\ crit' \in Nat /\ OfTask(ctx', current', crit')
      /\ on' = current' /\ irq_act' = {}
      /\ AreStacks(stack') /\ stack'[current'] = <<>> /\ stack'[Exc] = <<>>
      /\ AllLeft(stack', current')
      /\ depth = 0 => current' \in Highest(tasks) /\ ctx'.pc # "held"
      /\ depth = 1 => current' = current /\ ctx'.pc = c.pc
  BY SwitchGoesOn
<1> DEFINE new == <<Frame(c), Switched(how, irq_act, nesting)>>
<1>1. PICK left : left = Put(st, current, new) OBVIOUS
<1>2. /\ top' = [top EXCEPT ![current] = current]
      /\ Resume(left, top'[current'], {})
  <2>1. Append(st[current], Switched(how, irq_act, nesting)) = new BY PairStack
  <2>2. left = [st EXCEPT ![current] = Append(@, Switched(how, irq_act, nesting))]
    BY <1>1, <2>1 DEF Put
  <2> QED BY <2>2 DEF Dispatcher
<1>3. current' \in Tasks /\ top' = top /\ OfTask(ctx', current', crit')
  BY ONLY <1>0
<1>4. PICK next : next = current' OBVIOUS
<1>5. next \in Tasks /\ Resume(left, next, {}) /\ ctx'.of = next
  BY <1>2, <1>3, <1>4 DEF OwnStacks, OfTask
<1>6. SavedAt(new) = At(c, nesting) BY SavedPair
<1>7. IsStack(new) /\ Tasks \subseteq Stacks BY PairStack DEF Stacks
<1> HIDE DEF new
<1>8. /\ AreStacks(left) /\ left[current] = new
      /\ \A t \in Stacks : t # current => left[t] = st[t]
  BY <1>1, <1>7, OneStack
<1>9. ASSUME NEW t \in Tasks PROVE TaskAt(t)' = SavedAt(left[t])
  <2>1. ctx'.of # Boot /\ ctx'.of \in Tasks BY <1>5, TaskAssumption
  <2>2. CASE t = next
    <3>1. TaskAt(t)' = At(ctx', crit') BY <1>4, <2>1, <2>2 DEF TaskAt, IsLeft, Interrupted, At
    <3>2. ctx' = Last(Front(left[next])).ctx /\ crit' = Last(left[next]).crit
      BY <1>5 DEF Resume
    <3> QED BY <2>2, <3>1, <3>2 DEF SavedAt
  <2>3. CASE t # next
    <3>1. TaskAt(t)' = SavedAt(stack'[t])
      <4>1. top'[t] = t BY <1>3 DEF OwnStacks
      <4> QED BY <1>4, <2>3, <4>1 DEF TaskAt, IsLeft, SavedAt, At
    <3>2. stack'[t] = left[t]
      <4>1. stack' = [left EXCEPT ![next] = Front(Front(@))] BY <1>5 DEF Resume
      <4>2. t \in DOMAIN left BY <1>7, <1>8 DEF AreStacks
      <4> QED BY <2>3, <4>1, <4>2
    <3> QED BY <3>1, <3>2
  <2> QED BY <2>2, <2>3
<1> QED BY <1>6, <1>7, <1>8, <1>9

-----------------------------------------------------------------------------
(* The steps of tasks *)

LEMMA TaskSwitches ==
  ASSUME TaskInv, ctx.of \in Tasks,
         NEW c \in Contexts, NEW nesting \in Nat, OfTask(c, current, nesting),
         NEW how \in {"call", "exception"}, NEW tasks \in SUBSET Tasks, NEW depth \in {0, 1},
         depth = 0 => c.pc # "held",
         Dispatcher([stack EXCEPT ![on] = Append(@, Frame(c))], on,
                    how, irq_act, nesting, tasks, depth)
  PROVE  Arrives(c, nesting)
<1>1. AtTask /\ Others /\ Data /\ AreStacks(stack) /\ OwnStacks BY TaskRuns
<1>2. /\ current \in Tasks /\ on = current /\ stack[current] = <<>> /\ stack[Exc] = <<>>
      /\ irq_act = {}
  BY <1>1 DEF AtTask, Data
<1>3. PICK st : st = Put(stack, current, <<Frame(c)>>) OBVIOUS
<1>4. Append(stack[current], Frame(c)) = <<Frame(c)>> BY <1>2, PairStack
<1>5. st = [stack EXCEPT ![on] = Append(@, Frame(c))] BY <1>2, <1>3, <1>4 DEF Put
<1>6. PICK act : act = {} OBVIOUS
<1>7. Dispatcher(st, current, how, act, nesting, tasks, depth) BY <1>2, <1>5, <1>6
<1>8. current \in Stacks /\ Exc \in Stacks /\ current # Exc /\ Tasks \subseteq Stacks
  BY <1>2, TaskAssumption DEF Stacks
<1>9. /\ AreStacks(st) /\ st[current] = <<Frame(c)>>
      /\ \A t \in Stacks : t # current => st[t] = stack[t]
  <2>1. IsStack(<<Frame(c)>>) BY PairStack
  <2> QED BY ONLY <2>1, <1>1, <1>3, <1>8, OneStack
<1>10. st[Exc] = <<>> /\ AllLeft(st, current)
  BY <1>1, <1>2, <1>8, <1>9 DEF Others, AllLeft
<1>11. \A t \in Tasks :
         TaskAt(t)' = IF t = current THEN At(c, nesting) ELSE SavedAt(st[t])
  <2>1. OwnStacks /\ current \in Tasks /\ irq_act \subseteq Levels /\ act = {}
    BY <1>1, <1>2, <1>6
  <2>2. AreStacks(st) /\ st[Exc] = <<>> /\ st[current] = <<Frame(c)>> /\ AllLeft(st, current)
    BY <1>9, <1>10
  <2>3. /\ how \in {"start", "call", "interrupt", "exception"}
        /\ how = "interrupt" => AtMostOne(irq_act)
        /\ depth = 0 => c.pc # "held"
        /\ OfTask(c, current, nesting)
    OBVIOUS
  <2> QED BY ONLY <2>1, <2>2, <2>3, <1>7, SwitchLeaves
<1>12. ASSUME NEW t \in Tasks, t # current PROVE Stays(t)
  <2>1. TaskAt(t)' = SavedAt(st[t]) BY <1>11, <1>12
  <2>2. st[t] = stack[t] BY <1>8, <1>9, <1>12
  <2>3. TaskAt(t) = SavedAt(stack[t])
    <3>1. IsLeft(t) BY <1>12 DEF IsLeft
    <3> QED BY <3>1, <1>1, LeftAt
  <2> QED BY <2>1, <2>2, <2>3 DEF Stays
<1> QED BY <1>11, <1>12 DEF Arrives

LEMMA TaskWalks ==
  ASSUME TaskInv, ctx.of \in Tasks, ctx'.of = ctx.of, UNCHANGED <<stack, top, current>>
  PROVE  Arrives(ctx', crit')
<1>1. OwnStacks /\ current \in Tasks BY TaskRuns DEF Data
<1>2. ctx.of # Boot /\ ctx'.of # Boot BY TaskAssumption
<1>3. PICK c, nesting : c = ctx' /\ nesting = crit' OBVIOUS
<1>4. ASSUME NEW t \in Tasks
      PROVE  IF t = current THEN TaskAt(t)' = At(c, nesting) ELSE Stays(t)
  <2>1. CASE t = current BY <1>2, <1>3, <2>1 DEF TaskAt, IsLeft, Interrupted, At
  <2>2. CASE t # current BY <1>1, <1>2, <2>2 DEF Stays, TaskAt, IsLeft, OwnStacks
  <2> QED BY <2>1, <2>2
<1> QED BY <1>3, <1>4 DEF Arrives

\* A task that does not end up in ulTaskNotifyTake and gives nothing.
LEMMA PlainMove ==
  ASSUME ctx.of \in Tasks, NEW c, NEW nesting, Arrives(c, nesting),
         c.pc \notin Taking, \A t \in Tasks \ {current} : value'[t] = value[t],
         ready' \cup pending' \subseteq ready \cup pending
  PROVE  TaskMoves
<1>1. Accounted(c) BY DEF Accounted
<1>2. \A t \in Tasks \ {current} : KeepsPaying(t) BY DEF KeepsPaying
<1> QED BY <1>1, <1>2 DEF TaskMoves

LEMMA CriticalMoves == TaskInv /\ EnterCritical => TaskMoves
<1> SUFFICES ASSUME TaskInv, EnterCritical PROVE TaskMoves OBVIOUS
<1>1. /\ ctx.of \in Tasks
      /\ ctx' = [ctx EXCEPT !.pc = "critical", !.ie = FALSE]
      /\ UNCHANGED <<stack, top, current, ready, pending, value>>
  BY DEF EnterCritical, Running, lists, notes
<1>2. ctx \in Contexts BY <1>1, RunningTask
<1>3. ctx'.of = ctx.of /\ ctx'.pc = "critical" BY <1>1, <1>2 DEF Contexts
<1>4. PICK c, nesting : c = ctx' /\ nesting = crit' OBVIOUS
<1>5. Arrives(c, nesting) BY <1>1, <1>3, <1>4, TaskWalks
<1>6. c.pc \notin Taking BY <1>3, <1>4 DEF Taking
<1> QED BY <1>1, <1>5, <1>6, PlainMove

LEMMA ExitMoves ==
  ASSUME TaskInv,
         NEW inside \in {"critical", "taking", "leaving"}, NEW then \in {"run", "taken"},
         then = "taken" => inside = "taking",
         ExitCritical(inside, then)
  PROVE  TaskMoves
<1>1. /\ ctx.of \in Tasks /\ ctx.pc = inside
      /\ ctx' = [ctx EXCEPT !.pc = IF crit > 1 THEN @ ELSE then, !.ie = @ \/ crit = 1]
      /\ UNCHANGED <<stack, top, current, ready, pending, value>>
  BY DEF ExitCritical, Running, lists, notes
<1>2. ctx \in Contexts /\ current \in ready BY <1>1, RunningTask DEF Highest
<1>3. ctx'.of = ctx.of /\ ctx'.pc \in {inside, then}
  <2>1. ctx'.of = ctx.of /\ ctx'.pc = IF crit > 1 THEN ctx.pc ELSE then
    BY <1>1, <1>2 DEF Contexts
  <2> QED BY <1>1, <2>1
<1>4. PICK c, nesting : c = ctx' /\ nesting = crit' OBVIOUS
<1>5. Arrives(c, nesting) BY <1>1, <1>3, <1>4, TaskWalks
<1>6. Accounted(c)
  <2>1. c.pc \in Taking => ctx.pc \in Taking BY <1>1, <1>3, <1>4 DEF Taking
  <2> QED BY <2>1, <1>1, <1>2 DEF Accounted
<1>7. \A t \in Tasks \ {current} : KeepsPaying(t) BY <1>1 DEF KeepsPaying
<1> QED BY <1>1, <1>5, <1>6, <1>7 DEF TaskMoves

LEMMA YieldMoves == TaskInv /\ vPortYield => TaskMoves
<1> SUFFICES ASSUME TaskInv, vPortYield PROVE TaskMoves OBVIOUS
<1>1. /\ ctx.of \in Tasks /\ ctx.pc \in {"run", "held"}
      /\ Dispatch(ctx, crit, ready, suspended)
      /\ UNCHANGED <<ready, pending, value>>
  BY DEF vPortYield, Running, lists, notes
<1>2. /\ Data /\ crit \in Nat /\ ctx \in Contexts /\ OfTask(ctx, current, crit)
      /\ suspended \in {0, 1} /\ (suspended = 1 <=> ctx.pc = "held")
  BY <1>1, RunningTask
<1>3. PICK c, nesting, tasks, depth :
        c = ctx /\ nesting = crit /\ tasks = ready /\ depth = suspended
  OBVIOUS
<1>4. Dispatcher([stack EXCEPT ![on] = Append(@, Frame(c))], on,
                 "call", irq_act, nesting, tasks, depth)
  BY <1>1, <1>3 DEF Dispatch
<1>5. /\ c \in Contexts /\ nesting \in Nat /\ OfTask(c, current, nesting)
      /\ tasks \in SUBSET Tasks /\ depth \in {0, 1} /\ (depth = 0 => c.pc # "held")
  BY <1>2, <1>3 DEF Data
<1>6. Arrives(c, nesting) BY <1>1, <1>4, <1>5, TaskSwitches
<1>7. c.pc \notin Taking BY <1>1, <1>3 DEF Taking
<1> QED BY <1>1, <1>6, <1>7, PlainMove

LEMMA TrapMoves == TaskInv /\ ctx.of \in Tasks /\ Trap => TaskMoves
<1> SUFFICES ASSUME TaskInv, ctx.of \in Tasks, Trap PROVE TaskMoves OBVIOUS
<1>1. /\ Data /\ crit \in Nat /\ ctx \in Contexts /\ OfTask(ctx, current, crit)
      /\ exc_nest_count = 0 /\ irq_act = {}
      /\ suspended \in {0, 1} /\ (suspended = 1 <=> ctx.pc = "held")
  BY RunningTask
<1>2. /\ ctx.pc \in {"run", "critical", "held"}
      /\ Dispatcher([stack EXCEPT ![on] = Append(@, Frame(ctx))], on,
                    "exception", irq_act, crit, ready, suspended)
      /\ UNCHANGED <<ready, pending, value>>
  BY <1>1, LevelAssumption DEF Trap, lists, notes
<1>3. PICK c, nesting, tasks, depth :
        c = ctx /\ nesting = crit /\ tasks = ready /\ depth = suspended
  OBVIOUS
<1>4. Dispatcher([stack EXCEPT ![on] = Append(@, Frame(c))], on,
                 "exception", irq_act, nesting, tasks, depth)
  BY <1>2, <1>3
<1>5. /\ c \in Contexts /\ nesting \in Nat /\ OfTask(c, current, nesting)
      /\ tasks \in SUBSET Tasks /\ depth \in {0, 1} /\ (depth = 0 => c.pc # "held")
  BY <1>1, <1>3 DEF Data
<1>6. Arrives(c, nesting) BY <1>4, <1>5, TaskSwitches
<1>7. c.pc \notin Taking BY <1>2, <1>3 DEF Taking
<1> QED BY <1>2, <1>6, <1>7, PlainMove

LEMMA TakeMoves == TaskInv /\ ulTaskNotifyTake => TaskMoves
<1> SUFFICES ASSUME TaskInv, ulTaskNotifyTake PROVE TaskMoves OBVIOUS
<1> DEFINE then == Context(current, "taking", FALSE)
<1>1. ctx.of \in Tasks /\ pending' = pending /\ suspended' = suspended /\ value' = value
  BY DEF ulTaskNotifyTake, Running
<1>2. /\ Data /\ current \in Tasks /\ crit \in Nat /\ OfTask(ctx, current, crit)
      /\ suspended = 0 /\ pending = {}
  <2>1. ctx.pc = "run" BY DEF ulTaskNotifyTake, Running
  <2> QED BY <1>1, <2>1, RunningTask
<1>3. then \in Contexts /\ then.of = current /\ then.pc = "taking" /\ then.ie = FALSE
  BY <1>2 DEF Contexts, Context, PCs
<1>4. crit + 1 \in Nat /\ crit + 1 > 0 /\ crit + 1 # 0 BY <1>2
<1>5. OfTask(then, current, crit + 1) BY <1>3, <1>4 DEF OfTask, TaskPCs
<1> HIDE DEF then
<1>6. CASE value[current] = 0
  <2>1. ready' = ready \ {current} /\ Dispatch(then, crit + 1, ready', suspended)
    BY <1>6 DEF ulTaskNotifyTake, then
  <2>2. PICK c, nesting, tasks, depth :
          c = then /\ nesting = crit + 1 /\ tasks = ready' /\ depth = 0
    OBVIOUS
  <2>3. Dispatcher([stack EXCEPT ![on] = Append(@, Frame(c))], on,
                   "call", irq_act, nesting, tasks, depth)
    BY <1>2, <2>1, <2>2 DEF Dispatch
  <2>4. /\ c \in Contexts /\ nesting \in Nat /\ OfTask(c, current, nesting)
        /\ tasks \in SUBSET Tasks /\ depth \in {0, 1} /\ (depth = 0 => c.pc # "held")
    BY <1>2, <1>3, <1>4, <1>5, <2>1, <2>2 DEF Data
  <2>5. Arrives(c, nesting) BY ONLY TaskInv, <1>1, <2>3, <2>4, TaskSwitches
  <2>6. current \notin ready' \cup pending' BY <1>1, <1>2, <2>1
  <2>7. \A t \in Tasks \ {current} : KeepsPaying(t) BY <1>1, <2>1 DEF KeepsPaying
  <2> QED BY <1>1, <2>5, <2>6, <2>7 DEF TaskMoves, Accounted
<1>7. CASE value[current] # 0
  <2>1. ctx' = then /\ UNCHANGED <<stack, top, current, ready>>
    BY <1>7 DEF ulTaskNotifyTake, then
  <2>2. top' = top BY <2>1
  <2>3. ctx'.of = ctx.of BY <1>2, <1>3, <2>1 DEF OfTask
  <2>4. PICK c, nesting : c = ctx' /\ nesting = crit' OBVIOUS
  <2>5. Arrives(c, nesting) BY <1>1, <2>1, <2>3, <2>4, TaskWalks
  <2>6. value'[current] > 0
    <3>1. value[current] \in Nat BY <1>2 DEF Data
    <3> QED BY <3>1, <1>1, <1>7
  <2>7. \A t \in Tasks \ {current} : KeepsPaying(t) BY <1>1, <2>1 DEF KeepsPaying
  <2> QED BY <1>1, <2>5, <2>6, <2>7 DEF TaskMoves, Accounted
<1> QED BY <1>6, <1>7

LEMMA CountMoves == TaskInv /\ TakeCount => TaskMoves
<1> SUFFICES ASSUME TaskInv, TakeCount PROVE TaskMoves OBVIOUS
<1>1. /\ ctx.of \in Tasks /\ ctx' = [ctx EXCEPT !.pc = "run"]
      /\ value' = [value EXCEPT ![current] = IF @ = 0 THEN 0 ELSE @ - 1]
      /\ UNCHANGED <<stack, top, current, ready, pending>>
  BY DEF TakeCount, Running, port, lists
<1>2. ctx \in Contexts /\ Data BY <1>1, RunningTask
<1>3. ctx'.of = ctx.of /\ ctx'.pc = "run" BY <1>1, <1>2 DEF Contexts
<1>4. PICK c, nesting : c = ctx' /\ nesting = crit' OBVIOUS
<1>5. Arrives(c, nesting) BY <1>1, <1>3, <1>4, TaskWalks
<1>6. c.pc \notin Taking BY <1>3, <1>4 DEF Taking
<1>7. \A t \in Tasks \ {current} : value'[t] = value[t] BY <1>1, <1>2 DEF Data
<1> QED BY <1>1, <1>5, <1>6, <1>7, PlainMove

LEMMA GiveMoves ==
  ASSUME TaskInv, NEW u \in Tasks, xTaskNotifyGive(u)
  PROVE  TaskMoves
<1> DEFINE then == Context(current, "leaving", FALSE)
           urgent == notifyState[u] = "waiting" /\ Priority[u] > Priority[current]
<1>1. /\ ctx.of \in Tasks /\ ctx.pc = "run"
      /\ value' = [value EXCEPT ![u] = @ + 1]
      /\ ready' = IF notifyState[u] = "waiting" THEN ready \cup {u} ELSE ready
      /\ pending' = pending /\ suspended' = suspended
  BY DEF xTaskNotifyGive, Running
<1>2. /\ Data /\ current \in Tasks /\ crit \in Nat /\ ctx \in Contexts
      /\ OfTask(ctx, current, crit) /\ suspended = 0
  BY <1>1, RunningTask
<1>3. then \in Contexts /\ then.of = current /\ then.pc = "leaving" /\ then.ie = FALSE
  BY <1>2 DEF Contexts, Context, PCs
<1>4. crit + 1 \in Nat /\ crit + 1 > 0 /\ crit + 1 # 0 BY <1>2
<1>5. OfTask(then, current, crit + 1) BY <1>3, <1>4 DEF OfTask, TaskPCs
<1>6. ready' \in SUBSET Tasks BY <1>1, <1>2 DEF Data
<1>7. \A t \in Tasks \ {current} : KeepsPaying(t)
  <2> SUFFICES ASSUME NEW t \in Tasks PROVE KeepsPaying(t) OBVIOUS
  <2>1. value[t] \in Nat /\ (t # u => value'[t] = value[t]) /\ (t = u => value'[t] = value[t] + 1)
    BY <1>1, <1>2 DEF Data
  <2>2. CASE t = u
    <3>1. value'[t] > 0 BY <2>1, <2>2
    <3> QED BY <3>1 DEF KeepsPaying
  <2>3. CASE t # u BY <2>1, <2>3, <1>1 DEF KeepsPaying
  <2> QED BY <2>2, <2>3
<1> HIDE DEF then
<1>8. CASE urgent
  <2>1. Dispatch(then, crit + 1, ready', suspended) BY <1>8 DEF xTaskNotifyGive, then
  <2>2. PICK c, nesting, tasks, depth :
          c = then /\ nesting = crit + 1 /\ tasks = ready' /\ depth = 0
    OBVIOUS
  <2>3. Dispatcher([stack EXCEPT ![on] = Append(@, Frame(c))], on,
                   "call", irq_act, nesting, tasks, depth)
    BY <1>2, <2>1, <2>2 DEF Dispatch
  <2>4. /\ c \in Contexts /\ nesting \in Nat /\ OfTask(c, current, nesting)
        /\ tasks \in SUBSET Tasks /\ depth \in {0, 1} /\ (depth = 0 => c.pc # "held")
    BY <1>3, <1>4, <1>5, <1>6, <2>2
  <2>5. Arrives(c, nesting) BY ONLY TaskInv, <1>1, <2>3, <2>4, TaskSwitches
  <2>6. Accounted(c) BY <1>3, <2>2 DEF Accounted, Taking
  <2> QED BY <1>1, <1>7, <2>5, <2>6 DEF TaskMoves
<1>9. CASE ~urgent
  <2>1. UNCHANGED <<ctx, stack, top, current>> BY <1>9 DEF xTaskNotifyGive
  <2>2. PICK c, nesting : c = ctx' /\ nesting = crit' OBVIOUS
  <2>3. ctx'.of = ctx.of /\ ctx'.pc = "run" BY <1>1, <2>1
  <2>4. Arrives(c, nesting) BY <1>1, <2>1, <2>2, <2>3, TaskWalks
  <2>5. Accounted(c) BY <2>2, <2>3 DEF Accounted, Taking
  <2> QED BY <1>1, <1>7, <2>4, <2>5 DEF TaskMoves
<1> QED BY <1>8, <1>9

LEMMA SuspendMoves == TaskInv /\ (vTaskSuspendAll \/ StoreSuspended) => TaskMoves
<1> SUFFICES ASSUME TaskInv, vTaskSuspendAll \/ StoreSuspended PROVE TaskMoves OBVIOUS
<1>1. /\ ctx.of \in Tasks /\ UNCHANGED <<stack, top, current, ready, pending, value>>
      /\ \/ ctx' = [ctx EXCEPT !.pc = "suspending", !.n = suspended]
         \/ ctx' = [ctx EXCEPT !.pc = "held", !.n = 0]
  BY DEF vTaskSuspendAll, StoreSuspended, Running, port, lists, notes
<1>2. ctx \in Contexts BY <1>1, RunningTask
<1>3. ctx'.of = ctx.of /\ ctx'.pc \in {"suspending", "held"} BY <1>1, <1>2 DEF Contexts
<1>4. PICK c, nesting : c = ctx' /\ nesting = crit' OBVIOUS
<1>5. Arrives(c, nesting) BY <1>1, <1>3, <1>4, TaskWalks
<1>6. c.pc \notin Taking BY <1>3, <1>4 DEF Taking
<1> QED BY <1>1, <1>5, <1>6, PlainMove

LEMMA ResumeMoves == TaskInv /\ xTaskResumeAll => TaskMoves
<1> SUFFICES ASSUME TaskInv, xTaskResumeAll PROVE TaskMoves OBVIOUS
<1> DEFINE then == Context(current, "leaving", FALSE)
<1>1. ctx.of \in Tasks /\ ctx.pc = "held" /\ suspended' = suspended - 1 /\ value' = value
  BY DEF xTaskResumeAll, Running, notes
<1>2. /\ Data /\ current \in Tasks /\ crit \in Nat /\ ctx \in Contexts
      /\ OfTask(ctx, current, crit) /\ suspended = 1
  BY <1>1, RunningTask
<1>3. then \in Contexts /\ then.of = current /\ then.pc = "leaving" /\ then.ie = FALSE
  BY <1>2 DEF Contexts, Context, PCs
<1>4. crit + 1 \in Nat /\ crit + 1 > 0 /\ crit + 1 # 0 BY <1>2
<1>5. OfTask(then, current, crit + 1) BY <1>3, <1>4 DEF OfTask, TaskPCs
<1>6. suspended' = 0 /\ ready' = ready \cup pending /\ pending' = {}
  BY <1>1, <1>2 DEF xTaskResumeAll
<1>7. ready' \in SUBSET Tasks BY <1>2, <1>6 DEF Data
<1>8. CASE YieldAtResume
  <2>1. Dispatch(then, crit + 1, ready', suspended') BY <1>2, <1>8 DEF xTaskResumeAll
  <2> HIDE DEF then
  <2>2. PICK c, nesting, tasks, depth :
          c = then /\ nesting = crit + 1 /\ tasks = ready' /\ depth = 0
    OBVIOUS
  <2>3. Dispatcher([stack EXCEPT ![on] = Append(@, Frame(c))], on,
                   "call", irq_act, nesting, tasks, depth)
    BY <1>6, <2>1, <2>2 DEF Dispatch
  <2>4. /\ c \in Contexts /\ nesting \in Nat /\ OfTask(c, current, nesting)
        /\ tasks \in SUBSET Tasks /\ depth \in {0, 1} /\ (depth = 0 => c.pc # "held")
    BY <1>3, <1>4, <1>5, <1>7, <2>2
  <2>5. Arrives(c, nesting) BY ONLY TaskInv, <1>1, <2>3, <2>4, TaskSwitches
  <2>6. c.pc \notin Taking BY <1>3, <2>2 DEF Taking
  <2> QED BY <1>1, <1>6, <2>5, <2>6, PlainMove
<1>9. CASE ~YieldAtResume
  <2>1. /\ ctx' = [ctx EXCEPT !.pc = IF suspended = 1 THEN "run" ELSE "held"]
        /\ UNCHANGED <<stack, top, current>>
    <3> HIDE DEF then
    <3>1. /\ ctx' = [ctx EXCEPT !.pc = IF suspended = 1 THEN "run" ELSE "held"]
          /\ UNCHANGED <<on, stack, top, irq_act, crit, current, yieldPending>>
      BY <1>2, <1>9 DEF xTaskResumeAll
    <3> QED BY <3>1
  <2>2. ctx'.of = ctx.of /\ ctx'.pc = "run" BY <1>2, <2>1 DEF Contexts
  <2>3. PICK c, nesting : c = ctx' /\ nesting = crit' OBVIOUS
  <2>4. Arrives(c, nesting) BY <1>1, <2>1, <2>2, <2>3, TaskWalks
  <2>5. c.pc \notin Taking BY <2>2, <2>3 DEF Taking
  <2> QED BY <1>1, <1>6, <2>4, <2>5, PlainMove
<1> QED BY <1>8, <1>9

-----------------------------------------------------------------------------
(* The steps of handlers *)

\* A step after which the task below the handlers is in the same place.
LEMMA NobodyMoves ==
  ASSUME TaskInv, ctx.of # Boot, ctx'.of # Boot,
         UNCHANGED <<top, crit, current>>,
         \A t \in Tasks \ {current} : stack'[t] = stack[t],
         Interrupted' = Interrupted
  PROVE  \A t \in Tasks : Stays(t)
<1>1. OwnStacks BY DEF TaskInv
<1>2. ASSUME NEW t \in Tasks PROVE Stays(t)
  <2>1. CASE t = current BY <2>1 DEF Stays, TaskAt, IsLeft
  <2>2. CASE t # current
    <3>1. top[t] = t /\ top'[t] = t BY <1>1 DEF OwnStacks
    <3>2. IsLeft(t) /\ IsLeft(t)' BY <2>2 DEF IsLeft
    <3> QED BY <2>2, <3>1, <3>2 DEF Stays, TaskAt
  <2> QED BY <2>1, <2>2
<1> QED BY <1>2

\* The place of the interrupted task.
LEMMA HandlerAbove ==
  ASSUME TaskInv, ctx.of \in Levels
  PROVE  /\ current \in Tasks /\ current # Exc /\ ctx.of # Boot /\ ctx.of \notin Tasks
         /\ Interrupted = stack[current][1].ctx
         /\ AreStacks(stack) /\ Len(stack[current]) >= 1
         /\ IsStack(stack[current]) /\ Len(stack[current]) \in Nat
         /\ on \in {current, Exc} /\ ctx.of \in irq_act /\ ctx \in Contexts
<1>1. /\ Data /\ current \in Tasks /\ AreStacks(stack)
      /\ \E k \in Nat \ {0} : \E h \in [0 .. k -> Items] : Runs(h, k)
  BY RunningHandler
<1>2. PICK k \in Nat \ {0} : \E h \in [0 .. k -> Items] : Runs(h, k) BY <1>1
<1>3. PICK h \in [0 .. k -> Items] : Runs(h, k) BY <1>2
<1>4. Shape(h, k) /\ Linked(h, k, current, crit) /\ Placed(h, k, stack) /\ on = h[k].s
  BY <1>3 DEF Runs, Shape
<1>5. IsStack(stack[current]) /\ Len(stack[current]) \in Nat
  <2>1. IsStack(stack[current]) BY <1>1 DEF AreStacks, Stacks
  <2> QED BY <2>1, Pushed
<1>6. stack[current][1] = Frame(h[0].c) /\ Len(stack[current]) >= 1
  BY <1>4, <1>5, BottomFrame
<1>7. ctx.of # Boot /\ ctx.of \notin Tasks /\ current # Exc
  BY <1>1, LevelAssumption, TaskAssumption
<1>8. Interrupted = stack[current][1].ctx BY <1>7 DEF Interrupted
<1>9. on \in {current, Exc}
  <2>1. k \in 0 .. k OBVIOUS
  <2> QED BY <2>1, <1>4 DEF Linked
<1>10. ctx.of \in irq_act /\ ctx \in Contexts BY <1>1, <1>4, TopHandler
<1> QED BY <1>1, <1>5, <1>6, <1>7, <1>8, <1>9, <1>10

\* A handler works on its own.
LEMMA HandlerWorks ==
  ASSUME TaskInv, ctx.of \in Levels, ctx'.of = ctx.of,
         UNCHANGED <<stack, top, crit, current>>
  PROVE  \A t \in Tasks : Stays(t)
<1>1. ctx.of # Boot /\ ctx.of \notin Tasks BY HandlerAbove
<1>2. Interrupted' = Interrupted BY <1>1 DEF Interrupted
<1> QED BY <1>1, <1>2, NobodyMoves

\* A handler's push leaves the end of the task's stack.
LEMMA HandlerPushes ==
  ASSUME TaskInv, ctx.of \in Levels, ctx'.of \in Levels, NEW e,
         stack' = [stack EXCEPT ![on] = Append(@, e)],
         UNCHANGED <<top, crit, current>>
  PROVE  \A t \in Tasks : Stays(t)
<1>1. /\ current \in Tasks /\ current # Exc /\ ctx.of # Boot /\ ctx.of \notin Tasks
      /\ Interrupted = stack[current][1].ctx
      /\ AreStacks(stack) /\ Len(stack[current]) >= 1
      /\ IsStack(stack[current]) /\ Len(stack[current]) \in Nat
      /\ on \in {current, Exc}
  BY HandlerAbove
<1>2. ctx'.of # Boot /\ ctx'.of \notin Tasks BY LevelAssumption
<1>3. \A s \in Stacks : stack'[s] = IF s = on THEN Append(stack[s], e) ELSE stack[s]
  BY <1>1 DEF AreStacks
<1>4. Tasks \subseteq Stacks BY DEF Stacks
<1>5. stack'[current][1] = stack[current][1]
  <2>1. Append(stack[current], e)[1] = stack[current][1]
    <3>1. 1 \in 1 .. Len(stack[current]) BY <1>1
    <3> QED BY <3>1, <1>1, Pushed
  <2> QED BY <2>1, <1>1, <1>3, <1>4
<1>6. Interrupted' = Interrupted
  <2>1. Interrupted' = stack'[current][1].ctx BY <1>2 DEF Interrupted
  <2> QED BY <2>1, <1>1, <1>5
<1>7. \A t \in Tasks \ {current} : stack'[t] = stack[t]
  BY <1>1, <1>3, <1>4, TaskAssumption
<1> QED BY <1>1, <1>2, <1>6, <1>7, NobodyMoves

LEMMA QuietPays ==
  ASSUME UNCHANGED <<ready, pending, value>>, \A t \in Tasks : Stays(t)
  PROVE  AllStay
BY DEF AllStay, KeepsPaying

LEMMA InterruptStays ==
  ASSUME TaskInv, NEW p \in Levels, Interrupt(p)
  PROVE  AllStay
<1>1. /\ ctx.ie
      /\ stack' = [stack EXCEPT ![on] = Append(@, Frame(ctx))]
      /\ ctx' = Context(p, "entry", TRUE)
      /\ UNCHANGED <<top, crit, current, ready, pending, value>>
  BY DEF Interrupt, lists, notes
<1>2. ctx'.of = p /\ ctx'.of \in Levels /\ ctx'.of # Boot /\ ctx'.of \notin Tasks
  BY <1>1, LevelAssumption DEF Context
<1>3. ctx.of # Boot
  <2>1. ctx.of = Boot => ctx.ie = FALSE BY DEF TaskInv, Booting, Context
  <2> QED BY <1>1, <2>1
<1>4. ctx.of \in Levels \/ ctx.of \in Tasks
  <2>1. PICK k \in Nat : \E h \in [0 .. k -> Items] :
          (k > 0 <=> ctx.of \in Levels) /\ (k = 0 <=> ctx.of \in Tasks)
    BY <1>3, AnyChain
  <2> QED BY <2>1
<1>5. CASE ctx.of \in Levels
  <2>1. PICK e : e = Frame(ctx) OBVIOUS
  <2>2. \A t \in Tasks : Stays(t) BY <1>1, <1>2, <1>5, <2>1, HandlerPushes
  <2> QED BY <1>1, <2>2, QuietPays
<1>6. CASE ctx.of \in Tasks
  <2>1. AtTask /\ Data /\ AreStacks(stack) BY <1>6, TaskRuns
  <2>2. current \in Tasks /\ on = current /\ stack[current] = <<>> /\ DOMAIN stack = Stacks
    BY <2>1 DEF AtTask, Data, AreStacks
  <2>3. \A t \in Tasks : stack'[t] = IF t = current THEN Append(stack[t], Frame(ctx)) ELSE stack[t]
    BY <1>1, <2>2 DEF Stacks
  <2>4. stack'[current] = <<Frame(ctx)>> BY <2>2, <2>3, PairStack
  <2>5. Interrupted' = ctx /\ Interrupted = ctx
    <3>1. Interrupted' = stack'[current][1].ctx BY <1>1, <1>2 DEF Interrupted
    <3> QED BY <3>1, <2>4, <1>6 DEF Frame, Interrupted
  <2>6. \A t \in Tasks \ {current} : stack'[t] = stack[t] BY <2>3
  <2>7. \A t \in Tasks : Stays(t) BY <1>1, <1>2, <1>3, <2>5, <2>6, NobodyMoves
  <2> QED BY <1>1, <2>7, QuietPays
<1> QED BY <1>4, <1>5, <1>6

LEMMA CountStays == TaskInv /\ CountHandler => AllStay
<1> SUFFICES ASSUME TaskInv, CountHandler PROVE AllStay OBVIOUS
<1>1. /\ ctx.pc = "entry"
      /\ ctx' = [ctx EXCEPT !.pc = "count", !.n = exc_nest_count]
      /\ UNCHANGED <<stack, top, crit, current, ready, pending, value>>
  BY DEF CountHandler, lists, notes
<1>2. ctx.of \in Levels BY <1>1, HandlersOnly DEF HandlerPCs
<1>3. ctx \in Contexts BY <1>2, HandlerAbove
<1>4. ctx'.of = ctx.of BY <1>1, <1>3 DEF Contexts
<1> QED BY <1>1, <1>2, <1>4, HandlerWorks, QuietPays

LEMMA ChangeStackStays == TaskInv /\ ChangeStack => AllStay
<1> SUFFICES ASSUME TaskInv, ChangeStack PROVE AllStay OBVIOUS
<1>1. /\ ctx.pc = "count" /\ ctx' = [ctx EXCEPT !.pc = "body", !.n = 0]
      /\ UNCHANGED <<top, crit, current, ready, pending, value>>
  BY DEF ChangeStack, lists, notes
<1>2. ctx.of \in Levels BY <1>1, HandlersOnly DEF HandlerPCs
<1>3. /\ ctx \in Contexts /\ current \in Tasks /\ current # Exc
      /\ ctx.of # Boot /\ ctx.of \notin Tasks
  BY <1>2, HandlerAbove
<1>4. ctx'.of = ctx.of BY <1>1, <1>3 DEF Contexts
<1>5. CASE ctx.n = 0
  <2>1. stack' = [stack EXCEPT ![Exc] = <<SavedSp(on)>>] BY <1>5 DEF ChangeStack
  <2>2. \A t \in Tasks : stack'[t] = stack[t]
    <3>1. \A t \in Tasks : t \in DOMAIN stack /\ t # Exc
      BY TaskAssumption DEF TaskInv, AreStacks, Stacks
    <3> QED BY <2>1, <3>1
  <2>3. Interrupted' = Interrupted BY <1>1, <1>3, <1>4, <2>2 DEF Interrupted
  <2>4. \A t \in Tasks : Stays(t) BY <1>1, <1>3, <1>4, <2>2, <2>3, NobodyMoves
  <2> QED BY <1>1, <2>4, QuietPays
<1>6. CASE ctx.n # 0
  <2>1. stack' = [stack EXCEPT ![on] = Append(@, SavedSp(on))] BY <1>6 DEF ChangeStack
  <2>2. PICK e : e = SavedSp(on) OBVIOUS
  <2>3. \A t \in Tasks : Stays(t) BY <1>1, <1>2, <1>4, <2>1, <2>2, HandlerPushes
  <2> QED BY <1>1, <2>3, QuietPays
<1> QED BY <1>5, <1>6

LEMMA YieldFromIsrStays == TaskInv /\ vPortYieldFromIsr => AllStay
<1> SUFFICES ASSUME TaskInv, vPortYieldFromIsr PROVE AllStay OBVIOUS
<1>1. /\ ctx.of \in Levels /\ ctx' = [ctx EXCEPT !.pc = "leave"]
      /\ UNCHANGED <<stack, top, crit, current, ready, pending, value>>
  BY DEF vPortYieldFromIsr, lists, notes
<1>2. ctx \in Contexts BY <1>1, HandlerAbove
<1>3. ctx'.of = ctx.of BY <1>1, <1>2 DEF Contexts
<1> QED BY <1>1, <1>3, HandlerWorks, QuietPays

LEMMA HandlerTrapStays == TaskInv /\ ctx.of \in Levels /\ Trap => AllStay
<1> SUFFICES ASSUME TaskInv, ctx.of \in Levels, Trap PROVE AllStay OBVIOUS
<1>1. irq_act # {} BY HandlerAbove
<1>2. UNCHANGED <<ctx, stack, top, crit, current, ready, pending, value>>
  BY <1>1 DEF Trap, lists, notes
<1>3. ctx'.of = ctx.of BY <1>2
<1> QED BY <1>2, <1>3, HandlerWorks, QuietPays

LEMMA GiveFromIsrStays ==
  ASSUME TaskInv, NEW u \in Tasks, GiveFromISR(u)
  PROVE  AllStay
<1>1. /\ ctx.of \in Levels
      /\ ctx' = [ctx EXCEPT !.pc = "giving", !.n = value[u], !.to = u,
                            !.waited = (notifyState[u] = "waiting")]
      /\ UNCHANGED <<stack, top, crit, current, ready, pending, value>>
  BY LevelAssumption DEF GiveFromISR, lists, port
<1>2. ctx \in Contexts BY <1>1, HandlerAbove
<1>3. ctx'.of = ctx.of BY <1>1, <1>2 DEF Contexts
<1> QED BY <1>1, <1>3, HandlerWorks, QuietPays

LEMMA FinishGiveStays == TaskInv /\ FinishGive => AllStay
<1> SUFFICES ASSUME TaskInv, FinishGive PROVE AllStay OBVIOUS
<1> DEFINE u == ctx.to
<1>1. /\ ctx.pc = "giving"
      /\ value' = [value EXCEPT ![u] = ctx.n + 1]
      /\ ready' \subseteq ready \cup {u} /\ pending' \subseteq pending \cup {u}
      /\ ctx'.of = ctx.of
      /\ UNCHANGED <<stack, top, crit, current>>
  BY DEF FinishGive, lists, port, Context
<1>2. ctx.of \in Levels BY <1>1, HandlersOnly DEF HandlerPCs
<1>3. \A t \in Tasks : Stays(t) BY <1>1, <1>2, HandlerWorks
<1>4. ctx \in Contexts /\ value \in [Tasks -> Nat] BY <1>2, HandlerAbove DEF TaskInv, Data
<1>5. ctx.n \in Nat BY <1>4 DEF Contexts
<1> HIDE DEF u
<1>6. ASSUME NEW t \in Tasks PROVE KeepsPaying(t)
  <2>1. CASE t = u
    <3>1. value'[t] > 0 BY <1>1, <1>4, <1>5, <2>1
    <3> QED BY <3>1 DEF KeepsPaying
  <2>2. CASE t # u
    <3>1. value'[t] = value[t] BY <1>1, <1>4, <2>2
    <3> QED BY <1>1, <2>2, <3>1 DEF KeepsPaying
  <2> QED BY <2>1, <2>2
<1> QED BY <1>3, <1>6 DEF AllStay

\* A handler ends and what it interrupted goes on.
LEMMA ReturnStays ==
  ASSUME TaskInv, ReturnFromInterrupt,
         ~(Outermost(irq_act \ {ctx.of}) /\ reqflg)
  PROVE  AllStay
<1>1. PICK before : before = Last(stack[on]).on OBVIOUS
<1>2. PICK popped : popped = Put(stack, on, Front(stack[on])) OBVIOUS
<1>3. PICK after : after = Put(popped, before, Front(popped[before])) OBVIOUS
<1>4. /\ ctx.of \in Levels /\ ctx.pc \in {"body", "leave"}
      /\ ctx' = Last(popped[before]).ctx /\ stack' = after
      /\ UNCHANGED <<top, crit, current, ready, pending, value>>
  BY <1>1, <1>2, <1>3 DEF ReturnFromInterrupt, lists, notes, Put
<1>5. PICK k \in Nat \ {0} : \E h \in [0 .. k -> Items] : Runs(h, k) BY <1>4, RunningHandler
<1>6. PICK h \in [0 .. k -> Items] : Runs(h, k) BY <1>5
<1> DEFINE g == Shrunk(h, k)
<1>7. /\ Last(popped[before]) = Frame(h[k - 1].c)
      /\ AreStacks(after)
      /\ g \in [0 .. k - 1 -> Items] /\ Linked(g, k - 1, current, crit)
      /\ Placed(g, k - 1, after)
      /\ \A t \in Tasks \ {current} : after[t] = stack[t]
  BY <1>1, <1>2, <1>3, <1>4, <1>6, HandlerEnds
<1>8. \A i \in 0 .. k - 1 : g[i] = h[i] BY DEF Shrunk
<1>9. g[k - 1] = h[k - 1] /\ g[0] = h[0] BY <1>8
<1> HIDE DEF g
<1>10. /\ current \in Tasks /\ ctx.of # Boot /\ ctx.of \notin Tasks
       /\ Interrupted = stack[current][1].ctx
  BY <1>4, HandlerAbove
<1>11. Interrupted = h[0].c
  <2>1. Linked(h, k, current, crit) /\ Placed(h, k, stack) BY <1>6 DEF Runs, Shape
  <2>2. stack[current][1] = Frame(h[0].c) BY <2>1, BottomFrame
  <2> QED BY <1>10, <2>2 DEF Frame
<1>12. ctx' = g[k - 1].c BY <1>4, <1>7, <1>9 DEF Frame
<1>13. ctx'.of # Boot /\ Interrupted' = h[0].c
  <2>1. CASE k = 1
    <3>1. ctx' = h[0].c BY <1>9, <1>12, <2>1
    <3>2. ctx'.of = current BY <1>7, <1>9, <3>1 DEF Linked, OfTask
    <3> QED BY <1>4, <1>10, <3>1, <3>2, TaskAssumption DEF Interrupted
  <2>2. CASE k # 1
    <3>1. PICK j \in Nat \ {0} : j = k - 1 BY <2>2
    <3>2. g \in [0 .. j -> Items] /\ Linked(g, j, current, crit) /\ Placed(g, j, after)
      BY <1>7, <3>1
    <3>3. after[current][1] = Frame(h[0].c) BY <1>9, <3>2, BottomFrame
    <3>4. ctx'.of \in Levels
      <4>1. j \in 1 .. j OBVIOUS
      <4>2. Link(g[j - 1], g[j]) BY <3>2, <4>1 DEF Linked
      <4> QED BY <1>12, <3>1, <4>2 DEF Link, Handler
    <3>5. ctx'.of # Boot /\ ctx'.of \notin Tasks BY <3>4, LevelAssumption
    <3>6. Interrupted' = stack'[current'][1].ctx BY <3>5 DEF Interrupted
    <3> QED BY <1>4, <3>3, <3>5, <3>6 DEF Frame
  <2> QED BY <2>1, <2>2
<1>14. \A t \in Tasks \ {current} : stack'[t] = stack[t] BY <1>4, <1>7
<1>15. \A t \in Tasks : Stays(t)
  <2>1. Interrupted' = Interrupted BY <1>11, <1>13
  <2>2. UNCHANGED <<top, crit, current>> BY <1>4
  <2> QED BY <1>10, <1>13, <1>14, <2>1, <2>2, NobodyMoves
<1> QED BY <1>4, <1>15, QuietPays

\* The last handler ends and the kernel chooses a task.
LEMMA SwitchStays ==
  ASSUME TaskInv, ReturnFromInterrupt,
         Outermost(irq_act \ {ctx.of}) /\ reqflg
  PROVE  AllStay
<1>1. /\ ctx.of \in Levels /\ irq_act \subseteq Levels /\ AtMostOne(irq_act)
      /\ \E c \in Contexts : \E st :
           /\ OfTask(c, current, crit)
           /\ AreStacks(st) /\ st[Exc] = <<>> /\ st[current] = <<Frame(c)>>
           /\ \A t \in Tasks \ {current} : st[t] = stack[t]
           /\ stack[current][1] = Frame(c)
           /\ Scheduled(c, {ctx})
           /\ Dispatcher(st, current, "interrupt", {}, crit, ready, suspended)
  BY LastHandlerEnds
<1>2. PICK c \in Contexts : \E st :
        /\ OfTask(c, current, crit)
        /\ AreStacks(st) /\ st[Exc] = <<>> /\ st[current] = <<Frame(c)>>
        /\ \A t \in Tasks \ {current} : st[t] = stack[t]
        /\ stack[current][1] = Frame(c)
        /\ Scheduled(c, {ctx})
        /\ Dispatcher(st, current, "interrupt", {}, crit, ready, suspended)
  BY <1>1
<1>3. PICK st :
        /\ OfTask(c, current, crit)
        /\ AreStacks(st) /\ st[Exc] = <<>> /\ st[current] = <<Frame(c)>>
        /\ \A t \in Tasks \ {current} : st[t] = stack[t]
        /\ stack[current][1] = Frame(c)
        /\ Scheduled(c, {ctx})
        /\ Dispatcher(st, current, "interrupt", {}, crit, ready, suspended)
  BY <1>2
<1>4. /\ current \in Tasks /\ ctx.of # Boot /\ ctx.of \notin Tasks
      /\ Interrupted = stack[current][1].ctx
  BY <1>1, HandlerAbove
<1>5. Data /\ OwnStacks /\ Others BY <1>1, RunningHandler
<1>6. PICK how, nesting, tasks, depth, act :
        how = "interrupt" /\ nesting = crit /\ tasks = ready /\ depth = suspended /\ act = {}
  OBVIOUS
<1>7. /\ how \in {"start", "call", "interrupt", "exception"}
      /\ how = "interrupt" => AtMostOne(irq_act)
      /\ nesting \in Nat /\ OfTask(c, current, nesting)
      /\ tasks \in SUBSET Tasks /\ depth \in {0, 1} /\ (depth = 0 => c.pc # "held")
      /\ Dispatcher(st, current, how, act, nesting, tasks, depth)
      /\ act = {}
  BY <1>1, <1>3, <1>5, <1>6 DEF Data, Scheduled
<1>8. AllLeft(st, current) BY <1>3, <1>5 DEF Others, AllLeft
<1>9. \A t \in Tasks :
        TaskAt(t)' = IF t = current THEN At(c, nesting) ELSE SavedAt(st[t])
  <2>1. OwnStacks /\ current \in Tasks /\ irq_act \subseteq Levels /\ c \in Contexts
    BY <1>1, <1>4, <1>5
  <2>2. AreStacks(st) /\ st[Exc] = <<>> /\ st[current] = <<Frame(c)>> BY <1>3
  <2> QED BY ONLY <2>1, <2>2, <1>7, <1>8, SwitchLeaves
<1>10. ASSUME NEW t \in Tasks PROVE Stays(t)
  <2>1. CASE t = current
    <3>1. TaskAt(t)' = At(c, nesting) BY <1>9, <2>1
    <3>2. Interrupted = c BY <1>3, <1>4 DEF Frame
    <3>3. TaskAt(t) = At(c, nesting) BY <1>4, <1>6, <2>1, <3>2 DEF TaskAt, IsLeft, At
    <3> QED BY <3>1, <3>3 DEF Stays
  <2>2. CASE t # current
    <3>1. TaskAt(t)' = SavedAt(stack[t]) BY <1>3, <1>9, <2>2
    <3>2. IsLeft(t) BY <2>2 DEF IsLeft
    <3>3. TaskAt(t) = SavedAt(stack[t]) BY <1>5, <3>2, LeftAt
    <3> QED BY <3>1, <3>3 DEF Stays
  <2> QED BY <2>1, <2>2
<1>11. UNCHANGED <<ready, pending, value>> BY DEF ReturnFromInterrupt, lists, notes
<1> QED BY <1>10, <1>11, QuietPays

LEMMA StartStays == TaskInv /\ start_dispatch => AllStay
<1> SUFFICES ASSUME TaskInv, start_dispatch PROVE AllStay OBVIOUS
<1>1. /\ ctx.of = Boot
      /\ Resume(stack, top[current], irq_act)
      /\ UNCHANGED <<top, current, ready, pending, value>>
  BY DEF start_dispatch, lists, notes
<1>2. Data /\ AreStacks(stack) /\ OwnStacks /\ Booting /\ current \in Tasks
  BY <1>1 DEF TaskInv, Data
<1>3. PICK t, st : t = current /\ st = stack OBVIOUS
<1>4. top[current] = t /\ irq_act = {} BY <1>2, <1>3 DEF OwnStacks, Booting
<1>5. t \in Tasks /\ AreStacks(st) /\ Resume(st, t, {}) BY <1>1, <1>2, <1>3, <1>4
<1>6. Saved(st[t], t, TaskPCs \ {"held"}) BY <1>2, <1>3 DEF Booting, Left
<1>7. /\ OfTask(ctx', t, crit')
      /\ \A s \in Stacks : s # t => stack'[s] = st[s]
  BY ONLY <1>5, <1>6, SavedGoesOn
<1>8. ctx' = Last(Front(st[t])).ctx /\ crit' = Last(st[t]).crit BY <1>5 DEF Resume
<1>9. ctx'.of \in Tasks /\ ctx'.of # Boot BY <1>5, <1>7, TaskAssumption DEF OfTask
<1>10. ASSUME NEW u \in Tasks PROVE Stays(u)
  <2>1. TaskAt(u) = SavedAt(stack[u])
    <3>1. IsLeft(u) BY <1>1 DEF IsLeft
    <3> QED BY <3>1, <1>2, LeftAt
  <2>2. CASE u = t
    <3>1. TaskAt(u)' = At(ctx', crit')
      BY <1>1, <1>3, <1>9, <2>2 DEF TaskAt, IsLeft, Interrupted, At
    <3> QED BY <1>3, <1>8, <2>1, <2>2, <3>1 DEF SavedAt, Stays
  <2>3. CASE u # t
    <3>1. stack'[u] = stack[u] BY <1>3, <1>7, <2>3 DEF Stacks
    <3>2. top'[u] = u BY <1>1, <1>2 DEF OwnStacks
    <3>3. TaskAt(u)' = SavedAt(stack'[u])
      BY <1>1, <1>3, <2>3, <3>2 DEF TaskAt, IsLeft, SavedAt, At
    <3> QED BY <2>1, <3>1, <3>3 DEF Stays
  <2> QED BY <2>2, <2>3
<1> QED BY <1>1, <1>10, QuietPays

-----------------------------------------------------------------------------
(* Every step *)

LEMMA StutterStays == UNCHANGED vars => AllStay
<1> SUFFICES ASSUME UNCHANGED vars PROVE AllStay OBVIOUS
<1>1. UNCHANGED <<ctx, stack, top, crit, current, ready, pending, value>>
  BY DEF vars, port, lists, notes
<1>2. \A t \in Tasks : Stays(t)
  <2>1. Interrupted' = Interrupted BY <1>1 DEF Interrupted
  <2> QED BY <1>1, <2>1 DEF Stays, TaskAt, IsLeft
<1> QED BY <1>1, <1>2, QuietPays

LEMMA StepMoves == TaskInv /\ [Next]_vars => AllStay \/ TaskMoves
<1> SUFFICES ASSUME TaskInv, [Next]_vars PROVE AllStay \/ TaskMoves OBVIOUS
<1>1. CASE start_dispatch BY <1>1, StartStays
<1>2. CASE \E p \in Levels : Interrupt(p) BY <1>2, InterruptStays
<1>3. CASE CountHandler BY <1>3, CountStays
<1>4. CASE ChangeStack BY <1>4, ChangeStackStays
<1>5. CASE vPortYieldFromIsr BY <1>5, YieldFromIsrStays
<1>6. CASE ReturnFromInterrupt BY <1>6, ReturnStays, SwitchStays
<1>7. CASE Trap
  <2>1. ctx.of \in Tasks \/ ctx.of \in Levels BY <1>7 DEF Trap
  <2> QED BY <1>7, <2>1, TrapMoves, HandlerTrapStays
<1>8. CASE \E u \in Tasks \ {Idle} : GiveFromISR(u) BY <1>8, GiveFromIsrStays
<1>9. CASE \E u \in Tasks \ {Idle} : xTaskNotifyGive(u) BY <1>9, GiveMoves
<1>10. CASE FinishGive BY <1>10, FinishGiveStays
<1>11. CASE EnterCritical BY <1>11, CriticalMoves
<1>12. CASE Leave
  <2>1. CASE ExitCritical("critical", "run") BY <2>1, ExitMoves
  <2>2. CASE ExitCritical("taking", "taken") BY <2>2, ExitMoves
  <2>3. CASE ExitCritical("leaving", "run") BY <2>3, ExitMoves
  <2> QED BY <1>12, <2>1, <2>2, <2>3 DEF Leave
<1>13. CASE vPortYield BY <1>13, YieldMoves
<1>14. CASE ulTaskNotifyTake BY <1>14, TakeMoves
<1>15. CASE TakeCount BY <1>15, CountMoves
<1>16. CASE vTaskSuspendAll BY <1>16, SuspendMoves
<1>17. CASE StoreSuspended BY <1>17, SuspendMoves
<1>18. CASE xTaskResumeAll BY <1>18, ResumeMoves
<1>19. CASE UNCHANGED vars BY <1>19, StutterStays
<1> QED
  BY <1>1, <1>2, <1>3, <1>4, <1>5, <1>6, <1>7, <1>8, <1>9, <1>10, <1>11, <1>12,
     <1>13, <1>14, <1>15, <1>16, <1>17, <1>18, <1>19 DEF Next

LEMMA PaidAtFirst == Init => Paid
<1> SUFFICES ASSUME Init, NEW t \in Tasks PROVE TaskAt(t).at.pc \notin Taking
  BY DEF Paid
<1>1. PICK c : c = Context(t, "run", TRUE) OBVIOUS
<1>2. stack[t] = <<Frame(c), Switched("start", {}, 0)>>
  BY <1>1, TaskAssumption DEF Init
<1>3. SavedAt(stack[t]) = At(c, 0) BY <1>2, SavedPair
<1>4. TaskAt(t) = SavedAt(stack[t])
  <2>1. OwnStacks BY DEF Init, OwnStacks
  <2>2. IsLeft(t) BY DEF Init, IsLeft, Context
  <2> QED BY <2>1, <2>2, LeftAt
<1>5. c.pc = "run" BY <1>1 DEF Context
<1> QED BY <1>3, <1>4, <1>5 DEF At, Taking

LEMMA PaidKept == TaskInv /\ Paid /\ [Next]_vars => Paid'
<1> SUFFICES ASSUME TaskInv, Paid, [Next]_vars, NEW t \in Tasks,
                    TaskAt(t)'.at.pc \in Taking, t \in ready' \cup pending'
             PROVE  value'[t] > 0
  BY DEF Paid
<1>1. ASSUME Stays(t), KeepsPaying(t) PROVE value'[t] > 0
  <2>1. TaskAt(t).at.pc \in Taking BY <1>1 DEF Stays
  <2> QED BY <1>1, <2>1 DEF KeepsPaying, Paid
<1>2. CASE AllStay BY <1>1, <1>2 DEF AllStay
<1>3. CASE TaskMoves
  <2>1. CASE t # current BY <1>1, <1>3, <2>1 DEF TaskMoves, Arrives
  <2>2. CASE t = current
    <3>1. ctx.of \in Tasks BY <1>3 DEF TaskMoves
    <3>2. PICK c, nesting : Accounted(c) /\ Arrives(c, nesting) BY <1>3 DEF TaskMoves
    <3>3. c.pc \in Taking BY <2>2, <3>2 DEF Arrives, At
    <3>4. CASE value'[current] > 0 BY <2>2, <3>4
    <3>5. CASE ctx.pc \in Taking /\ value' = value /\ current \in ready
      <4>1. TaskAt(t).at = ctx BY <2>2, <3>1, RunningAt DEF At
      <4> QED BY <2>2, <3>5, <4>1 DEF Paid
    <3> QED BY <2>2, <3>2, <3>3, <3>4, <3>5 DEF Accounted
  <2> QED BY <2>1, <2>2
<1> QED BY <1>2, <1>3, StepMoves

-----------------------------------------------------------------------------
(* The theorems *)

\* A task finds its registers and its critical nesting as it left them: only
\* the task that executes moves, whatever handlers and other tasks push on
\* the stacks, pop from them and dispatch meanwhile. It is what Multitasking
\* says of the tasks.
THEOREM TasksStayPut == Spec => [][OthersStayPut]_vars
<1>1. TaskInv /\ [Next]_vars => OthersStayPut
  <2> SUFFICES ASSUME TaskInv, [Next]_vars PROVE OthersStayPut OBVIOUS
  <2>1. CASE AllStay BY <2>1 DEF AllStay, OthersStayPut
  <2>2. CASE TaskMoves BY <2>2 DEF TaskMoves, Arrives, OthersStayPut
  <2> QED BY <2>1, <2>2, StepMoves
<1> QED BY <1>1, TaskInvHolds, PTL DEF Spec

\* When the handlers that call the kernel share one level, a task that has
\* been notified is on the ready list or on the pending one, and
\* ulTaskNotifyTake never returns without a notification.
THEOREM NotifiedReady == OneKernelLevel /\ Spec => []NotifiedTasksAreReady
<1>1. Spec => []Paid BY PaidAtFirst, PaidKept, TaskInvHolds, PTL DEF Spec
<1>2. OneKernelLevel /\ TaskInv /\ Paid => NotifiedTasksAreReady
  <2> SUFFICES ASSUME OneKernelLevel, TaskInv, Paid PROVE NotifiedTasksAreReady OBVIOUS
  <2>1. ASSUME NEW t \in Tasks, sent[t] > 0 PROVE t \in ready \cup pending
    <3>1. CASE ctx.of = Boot BY <3>1 DEF TaskInv, Booting
    <3>2. CASE ctx.of # Boot
      <4>1. sent[t] # 0 BY <2>1 DEF TaskInv, Data
      <4> QED BY <3>2, <4>1 DEF TaskInv, Runs, Counting
    <3> QED BY <3>1, <3>2
  <2>2. ASSUME ctx.pc = "taken" PROVE value[current] > 0
    <3>1. ctx.of \in Tasks
      <4>1. ctx.of # Boot BY <2>2 DEF TaskInv, Booting, Context
      <4>2. ctx.of \notin Levels
        <5> SUFFICES ASSUME ctx.of \in Levels PROVE FALSE OBVIOUS
        <5>1. ctx.pc \in HandlerPCs
          <6>1. PICK k \in Nat \ {0} : \E h \in [0 .. k -> Items] : Runs(h, k)
            BY RunningHandler
          <6>2. PICK h \in [0 .. k -> Items] : Runs(h, k) BY <6>1
          <6> QED BY <6>2, HandlerKnows DEF Handler
        <5> QED BY <2>2, <5>1 DEF HandlerPCs
      <4>3. PICK k \in Nat : \E h \in [0 .. k -> Items] :
              (k > 0 <=> ctx.of \in Levels) /\ (k = 0 <=> ctx.of \in Tasks)
        BY <4>1, AnyChain
      <4> QED BY <4>2, <4>3
    <3>2. current \in Tasks /\ current \in ready BY <3>1, RunningTask DEF Data, Highest
    <3>3. TaskAt(current).at = ctx BY <3>1, <3>2, RunningAt DEF At
    <3> QED BY <2>2, <3>2, <3>3 DEF Paid, Taking
  <2> QED BY <2>1, <2>2 DEF NotifiedTasksAreReady
<1>3. OneKernelLevel => []OneKernelLevel
  <2>1. OneKernelLevel => OneKernelLevel' BY DEF OneKernelLevel
  <2> QED BY <2>1, PTL
<1> QED BY <1>1, <1>2, <1>3, TaskInvHolds, PTL

-----------------------------------------------------------------------------
(* Where the handlers are *)

(* The rest of the refinement: handlers nest. The abstract handlers are     *)
(* listed by level (Nest), and at each level HandlerAt finds the registers  *)
(* of the handler on the stacks. A step leaves all handlers alone but the   *)
(* last one.                                                                *)

\* As many elements as a descending list has.
LEMMA Descending ==
  ASSUME NEW k \in Nat, NEW f \in [1 .. k -> Nat],
         \A i, j \in 1 .. k : i < j => f[j] < f[i]
  PROVE  IsFiniteSet({f[i] : i \in 1 .. k}) /\ Cardinality({f[i] : i \in 1 .. k}) = k
<1> DEFINE T == {f[i] : i \in 1 .. k}
<1>1. f \in [1 .. k -> T] OBVIOUS
<1>2. \A i, j \in 1 .. k : f[i] = f[j] => i = j
  <2> SUFFICES ASSUME NEW i \in 1 .. k, NEW j \in 1 .. k, f[i] = f[j], i # j PROVE FALSE
    OBVIOUS
  <2>1. f[i] \in Nat /\ f[j] \in Nat OBVIOUS
  <2>2. i < j \/ j < i OBVIOUS
  <2> QED BY <2>1, <2>2
<1>3. \A t \in T : \E i \in 1 .. k : f[i] = t OBVIOUS
<1> HIDE DEF T
<1>4. f \in Bijection(1 .. k, T) BY <1>1, <1>2, <1>3, Fun_IsBij
<1>5. ExistsBijection(1 .. k, T) BY <1>4 DEF ExistsBijection
<1>6. IsFiniteSet(T) /\ Cardinality(T) = k
  BY <1>5, FS_NatBijection, FS_CountingElements
<1> QED BY <1>6 DEF T

\* The levels of the handlers, outermost first.
LEMMA LevelsInOrder ==
  ASSUME current \in Tasks, NEW k \in Nat, NEW h \in [0 .. k -> Items], Shape(h, k)
  PROVE  /\ IsFiniteSet(irq_act) /\ Cardinality(irq_act) = k
         /\ \A i \in 1 .. k : LevelOf(i) = h[i].c.of
         /\ \A i \in 1 .. k : h[i].c.of \in Nat
         /\ \A i, j \in 1 .. k : i < j => h[j].c.of < h[i].c.of
         /\ \A i \in 1 .. k : Cardinality({q \in irq_act : LevelOf(i) < q}) = i - 1
<1>1. \A i, j \in 1 .. k : i < j => h[j].c.of < h[i].c.of BY DEF Shape, Linked
<1>2. \A i \in 1 .. k : h[i].c.of \in Nat
  <2> SUFFICES ASSUME NEW i \in 1 .. k PROVE h[i].c.of \in Nat OBVIOUS
  <2>1. Link(h[i - 1], h[i]) BY DEF Shape, Linked
  <2> QED BY <2>1, LevelAssumption DEF Link, Handler
<1>3. PICK f : f = [i \in 1 .. k |-> h[i].c.of] OBVIOUS
<1>4. /\ f \in [1 .. k -> Nat] /\ \A i \in 1 .. k : f[i] = h[i].c.of
      /\ \A i, j \in 1 .. k : i < j => f[j] < f[i]
      /\ irq_act = {f[i] : i \in 1 .. k}
  <2>1. \A i \in 1 .. k : f[i] = h[i].c.of BY <1>3
  <2>2. f \in [1 .. k -> Nat] BY <1>2, <1>3
  <2>3. irq_act = {h[i].c.of : i \in 1 .. k} BY DEF Shape
  <2>4. {h[i].c.of : i \in 1 .. k} = {f[i] : i \in 1 .. k} BY <2>1
  <2> QED BY <1>1, <2>1, <2>2, <2>3, <2>4
<1>5. IsFiniteSet(irq_act) /\ Cardinality(irq_act) = k BY <1>4, Descending
<1>6. ASSUME NEW j \in 1 .. k
      PROVE  Cardinality({q \in irq_act : f[j] < q}) = j - 1
  <2>1. PICK n \in Nat : n = j - 1 OBVIOUS
  <2>2. PICK g : g = [i \in 1 .. n |-> f[i]] OBVIOUS
  <2>3. \A i \in 1 .. n : i \in 1 .. k /\ g[i] = f[i] /\ i < j BY <2>1, <2>2
  <2>4. g \in [1 .. n -> Nat] /\ \A i, m \in 1 .. n : i < m => g[m] < g[i]
    BY <1>4, <2>2, <2>3
  <2>5. Cardinality({g[i] : i \in 1 .. n}) = n BY <2>4, Descending
  <2>6. {q \in irq_act : f[j] < q} = {g[i] : i \in 1 .. n}
    <3>1. ASSUME NEW q \in irq_act, f[j] < q PROVE q \in {g[i] : i \in 1 .. n}
      <4>1. PICK i \in 1 .. k : q = f[i] BY <1>4
      <4>2. f[i] \in Nat /\ f[j] \in Nat /\ f[j] < f[i] BY <1>4, <3>1, <4>1
      <4>3. i # j /\ ~(j < i) BY <1>4, <4>2
      <4>4. i \in 1 .. n BY <2>1, <4>3
      <4> QED BY <2>3, <4>1, <4>4
    <3>2. ASSUME NEW i \in 1 .. n PROVE g[i] \in irq_act /\ f[j] < g[i]
      <4>1. i \in 1 .. k /\ g[i] = f[i] /\ i < j BY <2>3
      <4> QED BY <1>4, <4>1
    <3> QED BY <3>1, <3>2
  <2> QED BY <2>1, <2>5, <2>6
<1>7. ASSUME NEW i \in 1 .. k PROVE LevelOf(i) = f[i]
  <2>1. f[i] \in irq_act /\ Cardinality({q \in irq_act : f[i] < q}) = i - 1 BY <1>4, <1>6
  <2>2. /\ LevelOf(i) \in irq_act
        /\ Cardinality({q \in irq_act : LevelOf(i) < q}) = i - 1
    BY <2>1 DEF LevelOf
  <2>3. PICK j \in 1 .. k : LevelOf(i) = f[j] BY <1>4, <2>2
  <2>4. Cardinality({q \in irq_act : f[j] < q}) = j - 1 BY <1>6
  <2>5. j = i BY <2>2, <2>3, <2>4
  <2> QED BY <2>3, <2>5
<1>8. ASSUME NEW i \in 1 .. k PROVE Cardinality({q \in irq_act : LevelOf(i) < q}) = i - 1
  BY <1>6, <1>7
<1> QED BY <1>1, <1>2, <1>4, <1>5, <1>7, <1>8

\* The handler that executes is the last one of the list.
LEMMA LastLevel ==
  ASSUME TaskInv, ctx.of \in Levels
  PROVE  \E k \in Nat \ {0} :
           /\ IsFiniteSet(irq_act) /\ Cardinality(irq_act) = k
           /\ LevelOf(k) = ctx.of /\ ctx.of \in irq_act
           /\ \A i \in 1 .. k - 1 : LevelOf(i) \in irq_act \ {ctx.of} /\ ctx.of < LevelOf(i)
           /\ irq_act \subseteq Nat
           /\ \A q \in irq_act : q # ctx.of => ctx.of < q
           /\ Cardinality({q \in irq_act : ctx.of < q}) = k - 1
<1>1. PICK k \in Nat \ {0} : \E h \in [0 .. k -> Items] : Runs(h, k) BY RunningHandler
<1>2. PICK h \in [0 .. k -> Items] : Runs(h, k) BY <1>1
<1>3. current \in Tasks /\ Shape(h, k) BY <1>2, RunningHandler DEF Runs
<1>4. /\ IsFiniteSet(irq_act) /\ Cardinality(irq_act) = k
      /\ \A i \in 1 .. k : LevelOf(i) = h[i].c.of
      /\ \A i \in 1 .. k : h[i].c.of \in Nat
      /\ \A i, j \in 1 .. k : i < j => h[j].c.of < h[i].c.of
      /\ \A i \in 1 .. k : Cardinality({q \in irq_act : LevelOf(i) < q}) = i - 1
  BY <1>3, LevelsInOrder
<1>5. irq_act = {h[i].c.of : i \in 1 .. k} /\ ctx = h[k].c BY <1>3 DEF Shape
<1>6. k \in 1 .. k /\ LevelOf(k) = ctx.of /\ ctx.of \in irq_act /\ irq_act \subseteq Nat
  BY <1>4, <1>5
<1>7. ASSUME NEW i \in 1 .. k - 1
      PROVE  LevelOf(i) \in irq_act \ {ctx.of} /\ ctx.of < LevelOf(i)
  <2>1. i \in 1 .. k /\ i < k OBVIOUS
  <2>2. h[k].c.of < h[i].c.of /\ h[k].c.of \in Nat /\ h[i].c.of \in Nat BY <2>1, <1>4, <1>6
  <2>3. h[k].c.of # h[i].c.of BY <2>2
  <2> QED BY <1>4, <1>5, <2>1, <2>2, <2>3
<1>8. ASSUME NEW q \in irq_act, q # ctx.of PROVE ctx.of < q
  <2>1. PICK i \in 1 .. k : q = h[i].c.of BY <1>5
  <2>2. i < k BY <1>5, <1>8, <2>1
  <2> QED BY <1>4, <1>5, <2>1, <2>2
<1>9. Cardinality({q \in irq_act : ctx.of < q}) = k - 1 BY <1>4, <1>6
<1> QED BY <1>4, <1>6, <1>7, <1>8, <1>9

-----------------------------------------------------------------------------
(* The frames on a stack *)

Frames(s) == {s[i].ctx : i \in {j \in DOMAIN s : s[j].kind = "frame"}}

LEMMA FramesPushed ==
  ASSUME NEW s, IsStack(s), NEW e
  PROVE  /\ e.kind = "frame" => Frames(Append(s, e)) = Frames(s) \cup {e.ctx}
         /\ e.kind # "frame" => Frames(Append(s, e)) = Frames(s)
<1> DEFINE a == Append(s, e)
<1>1. /\ IsStack(a) /\ Len(s) \in Nat /\ Len(a) = Len(s) + 1
      /\ \A i \in 1 .. Len(s) : a[i] = s[i]
      /\ a[Len(s) + 1] = e
  BY Pushed
<1> HIDE DEF a
<1>2. \A t : IsStack(t) => DOMAIN t = 1 .. Len(t)
  <2> SUFFICES ASSUME NEW t, IsStack(t) PROVE DOMAIN t = 1 .. Len(t) OBVIOUS
  <2>1. PICK S : t \in Seq(S) BY DEF IsStack
  <2> QED BY <2>1, LenProperties
<1>3. PICK n \in Nat : n = Len(s) BY <1>1
<1>4. DOMAIN s = 1 .. n /\ DOMAIN a = 1 .. n + 1 BY <1>1, <1>2, <1>3
<1>5. DOMAIN a = DOMAIN s \cup {n + 1} /\ a[n + 1] = e /\ \A i \in DOMAIN s : a[i] = s[i]
  BY <1>1, <1>3, <1>4
<1>6. e.kind = "frame" => Frames(a) = Frames(s) \cup {e.ctx}
  BY ONLY <1>5 DEF Frames
<1>7. e.kind # "frame" => Frames(a) = Frames(s)
  BY ONLY <1>5 DEF Frames
<1> QED BY <1>6, <1>7 DEF a

LEMMA FramesPopped ==
  ASSUME NEW s, IsStack(s), Len(s) > 0
  PROVE  /\ Last(s).kind = "frame" => Frames(s) = Frames(Front(s)) \cup {Last(s).ctx}
         /\ Last(s).kind # "frame" => Frames(s) = Frames(Front(s))
<1>1. PICK S : s \in Seq(S) BY DEF IsStack
<1>2. IsStack(Front(s)) /\ Len(Front(s)) = Len(s) - 1
      /\ \A i \in 1 .. Len(s) - 1 : Front(s)[i] = s[i]
  BY Popped
<1>3. PICK f : f = Front(s) OBVIOUS
<1>4. PICK e : e = Last(s) OBVIOUS
<1>5. Append(f, e) = s
  <2>1. Len(s) \in Nat /\ e = s[Len(s)] BY <1>1, <1>4, LenProperties DEF Last
  <2>2. /\ IsStack(Append(f, e)) /\ Len(Append(f, e)) = Len(f) + 1 /\ Len(f) \in Nat
        /\ \A i \in 1 .. Len(f) : Append(f, e)[i] = f[i]
        /\ Append(f, e)[Len(f) + 1] = e
    BY <1>2, <1>3, Pushed
  <2>3. PICK T : Append(f, e) \in Seq(T) BY <2>2 DEF IsStack
  <2>4. PICK n \in Nat : n = Len(f) BY <2>2
  <2>5. Len(s) = n + 1 /\ Len(Append(f, e)) = n + 1 BY <1>2, <1>3, <2>1, <2>2, <2>4
  <2>6. \A i \in 1 .. n + 1 : Append(f, e)[i] = s[i]
    <3> SUFFICES ASSUME NEW i \in 1 .. n + 1 PROVE Append(f, e)[i] = s[i] OBVIOUS
    <3>1. CASE i = n + 1 BY <3>1, <2>1, <2>2, <2>4, <2>5
    <3>2. CASE i \in 1 .. n BY <3>2, <1>2, <1>3, <2>2, <2>4, <2>5
    <3> QED BY <3>1, <3>2, <2>4
  <2> QED BY <1>1, <2>3, <2>5, <2>6, SeqEqual
<1>6. /\ e.kind = "frame" => Frames(Append(f, e)) = Frames(f) \cup {e.ctx}
      /\ e.kind # "frame" => Frames(Append(f, e)) = Frames(f)
  BY <1>2, <1>3, FramesPushed
<1> QED BY <1>3, <1>4, <1>5, <1>6

\* The handler at a level, and the frames of the two stacks in use.
Seen(st) == Frames(st[current]) \cup Frames(st[Exc])

LEMMA HandlerSeen ==
  \A p : HandlerAt(p) = {c \in {ctx} \cup Seen(stack) : c.of = p}
BY DEF HandlerAt, FramesOn, Seen, Frames

\* A step that leaves alone what is not at its own level.
LEMMA HandlerUnseen ==
  ASSUME NEW p, UNCHANGED current,
         \A c : c.of = p => (c \in {ctx'} \cup Seen(stack') <=> c \in {ctx} \cup Seen(stack))
  PROVE  HandlerAt(p)' = HandlerAt(p)
<1>1. HandlerAt(p) = {c \in {ctx} \cup Seen(stack) : c.of = p} BY HandlerSeen
<1>2. HandlerAt(p)' = {c \in {ctx'} \cup Seen(stack') : c.of = p}
  BY DEF HandlerAt, FramesOn, Seen, Frames
<1>3. \A c : c \in HandlerAt(p)' <=> c \in HandlerAt(p) BY <1>1, <1>2
<1> QED BY <1>3

LEMMA SeenPushed ==
  ASSUME current \in Tasks, NEW st, AreStacks(st), NEW s, s \in {current, Exc}, NEW e,
         NEW after, after = Put(st, s, Append(st[s], e))
  PROVE  /\ AreStacks(after)
         /\ e.kind = "frame" => Seen(after) = Seen(st) \cup {e.ctx}
         /\ e.kind # "frame" => Seen(after) = Seen(st)
<1>1. s \in Stacks /\ current \in Stacks /\ Exc \in Stacks BY DEF Stacks
<1>2. PICK new : new = Append(st[s], e) OBVIOUS
<1>3. IsStack(st[s]) BY <1>1 DEF AreStacks
<1>4. IsStack(new) BY <1>2, <1>3, Pushed
<1>5. after = Put(st, s, new) BY <1>2
<1>6. AreStacks(after) /\ after[s] = new /\ \A t \in Stacks : t # s => after[t] = st[t]
  BY <1>1, <1>4, <1>5, OneStack
<1>7. /\ e.kind = "frame" => Frames(new) = Frames(st[s]) \cup {e.ctx}
      /\ e.kind # "frame" => Frames(new) = Frames(st[s])
  BY <1>2, <1>3, FramesPushed
<1>8. /\ e.kind = "frame" => Seen(after) = Seen(st) \cup {e.ctx}
      /\ e.kind # "frame" => Seen(after) = Seen(st)
  <2>1. current # Exc BY TaskAssumption
  <2>2. CASE s = current
    <3>1. after[Exc] = st[Exc] BY <1>1, <1>6, <2>1, <2>2
    <3> QED BY <1>6, <1>7, <2>2, <3>1 DEF Seen
  <2>3. CASE s = Exc
    <3>1. after[current] = st[current] BY <1>1, <1>6, <2>1, <2>3
    <3> QED BY <1>6, <1>7, <2>3, <3>1 DEF Seen
  <2> QED BY <2>2, <2>3
<1> QED BY <1>6, <1>8

LEMMA SeenPopped ==
  ASSUME current \in Tasks, NEW st, AreStacks(st), NEW s, s \in {current, Exc}, Len(st[s]) > 0,
         NEW after, after = Put(st, s, Front(st[s])),
         NEW e, e = Last(st[s])
  PROVE  /\ AreStacks(after)
         /\ e.kind = "frame" => Seen(st) = Seen(after) \cup {e.ctx}
         /\ e.kind # "frame" => Seen(st) = Seen(after)
<1>1. s \in Stacks /\ current \in Stacks /\ Exc \in Stacks BY DEF Stacks
<1>2. PICK new : new = Front(st[s]) OBVIOUS
<1>3. IsStack(st[s]) BY <1>1 DEF AreStacks
<1>4. IsStack(new) BY <1>2, <1>3, Popped
<1>5. after = Put(st, s, new) BY <1>2
<1>6. AreStacks(after) /\ after[s] = new /\ \A t \in Stacks : t # s => after[t] = st[t]
  BY <1>1, <1>4, <1>5, OneStack
<1>7. /\ e.kind = "frame" => Frames(st[s]) = Frames(new) \cup {e.ctx}
      /\ e.kind # "frame" => Frames(st[s]) = Frames(new)
  BY <1>2, <1>3, FramesPopped
<1>8. /\ e.kind = "frame" => Seen(st) = Seen(after) \cup {e.ctx}
      /\ e.kind # "frame" => Seen(st) = Seen(after)
  <2>1. current # Exc BY TaskAssumption
  <2>2. CASE s = current
    <3>1. after[Exc] = st[Exc] BY <1>1, <1>6, <2>1, <2>2
    <3> QED BY <1>6, <1>7, <2>2, <3>1 DEF Seen
  <2>3. CASE s = Exc
    <3>1. after[current] = st[current] BY <1>1, <1>6, <2>1, <2>3
    <3> QED BY <1>6, <1>7, <2>3, <3>1 DEF Seen
  <2> QED BY <2>2, <2>3
<1> QED BY <1>6, <1>8

-----------------------------------------------------------------------------
(* The list of handlers *)

LEMMA ListFront ==
  ASSUME NEW k \in Nat, NEW s, s = [i \in 1 .. k |-> s[i]]
  PROVE  /\ Len(s) = k /\ (k = 0 <=> s = <<>>)
         /\ k > 0 => Front(s) = [i \in 1 .. k - 1 |-> s[i]]
<1>1. PICK S : S = {s[i] : i \in 1 .. k} OBVIOUS
<1>2. \A i \in 1 .. k : s[i] \in S BY <1>1
<1>3. s \in [1 .. k -> S] BY <1>2
<1>4. s \in Seq(S) /\ Len(s) = k BY <1>3, IsASeq, LenProperties
<1>5. k = 0 <=> s = <<>> BY <1>4, EmptySeq
<1>6. ASSUME k > 0 PROVE Front(s) = [i \in 1 .. k - 1 |-> s[i]]
  <2>1. IsStack(s) BY <1>4 DEF IsStack
  <2>2. PICK n \in Nat : n = k - 1 BY <1>6
  <2>3. /\ IsStack(Front(s)) /\ Len(Front(s)) = n
        /\ \A i \in 1 .. n : Front(s)[i] = s[i]
    BY <1>4, <1>6, <2>1, <2>2, Popped
  <2>4. PICK T : Front(s) \in Seq(T) BY <2>3 DEF IsStack
  <2>5. Front(s) = [i \in 1 .. n |-> Front(s)[i]] BY <2>3, <2>4, LenProperties
  <2> QED BY <2>2, <2>3, <2>5
<1> QED BY <1>4, <1>5, <1>6

\* The abstract list, one place for each level.
LEMMA NestAt ==
  ASSUME NEW k \in Nat, Cardinality(irq_act) = k
  PROVE  /\ Nest = [i \in 1 .. k |-> Nest[i]]
         /\ \A i \in 1 .. k : Nest[i] = HandlerAt(LevelOf(i))
BY DEF Nest

\* and after a step.
LEMMA NestAfter ==
  ASSUME NEW k \in Nat, Cardinality(irq_act)' = k
  PROVE  /\ Nest' = [i \in 1 .. k |-> Nest'[i]]
         /\ \A i \in 1 .. k : \A p : LevelOf(i)' = p => Nest'[i] = HandlerAt(p)'
<1>1. Nest' = [i \in 1 .. k |-> HandlerAt(LevelOf(i))'] BY DEF Nest
<1>2. \A i \in 1 .. k : Nest'[i] = HandlerAt(LevelOf(i))' BY <1>1
<1>3. ASSUME NEW i \in 1 .. k, NEW p, LevelOf(i)' = p PROVE HandlerAt(LevelOf(i))' = HandlerAt(p)'
  BY <1>3 DEF HandlerAt
<1> QED BY <1>1, <1>2, <1>3

\* The three things that can happen to the list.
Begins == Len(Nest') = Len(Nest) + 1 /\ Front(Nest') = Nest

Works == Nest # <<>> /\ Len(Nest') = Len(Nest) /\ Front(Nest') = Front(Nest)

Ends == Nest # <<>> /\ Nest' = Front(Nest)

LEMMA NoHandlers ==
  /\ irq_act = {} => Nest = <<>>
  /\ irq_act' = {} => Nest' = <<>>
<1>1. Cardinality({}) = 0 BY FS_EmptySet
<1>2. ASSUME irq_act = {} PROVE Nest = <<>> BY <1>1, <1>2, NestAt, ListFront
<1>3. ASSUME irq_act' = {} PROVE Nest' = <<>>
  <2>1. Cardinality(irq_act)' = 0 BY <1>1, <1>3
  <2>2. PICK s : s = Nest' OBVIOUS
  <2>3. s = [i \in 1 .. 0 |-> s[i]] BY <2>1, <2>2, NestAfter
  <2> QED BY <2>2, <2>3, ListFront
<1> QED BY <1>2, <1>3

LEMMA ListWorks ==
  ASSUME TaskInv, ctx.of \in Levels, UNCHANGED irq_act,
         \A p \in irq_act : p # ctx.of => HandlerAt(p)' = HandlerAt(p)
  PROVE  Works
<1>1. PICK k \in Nat \ {0} :
        /\ IsFiniteSet(irq_act) /\ Cardinality(irq_act) = k
        /\ \A i \in 1 .. k - 1 : LevelOf(i) \in irq_act \ {ctx.of}
  BY LastLevel
<1>2. k \in Nat /\ k > 0 BY <1>1
<1>3. Cardinality(irq_act)' = k /\ \A i : LevelOf(i)' = LevelOf(i)
  BY <1>1 DEF LevelOf
<1>4. PICK s : s = Nest OBVIOUS
<1>5. PICK z : z = Nest' OBVIOUS
<1>6. s = [i \in 1 .. k |-> s[i]] /\ \A i \in 1 .. k : s[i] = HandlerAt(LevelOf(i))
  BY <1>1, <1>2, <1>4, NestAt
<1>7. z = [i \in 1 .. k |-> z[i]] /\ \A i \in 1 .. k : \A p : LevelOf(i)' = p => z[i] = HandlerAt(p)'
  BY <1>2, <1>3, <1>5, NestAfter
<1>8. ASSUME NEW i \in 1 .. k - 1 PROVE z[i] = s[i]
  <2>1. PICK p : p = LevelOf(i) OBVIOUS
  <2>2. i \in 1 .. k /\ p \in irq_act /\ p # ctx.of /\ LevelOf(i)' = p BY <1>1, <1>3, <2>1
  <2>3. z[i] = HandlerAt(p)' BY <1>7, <2>2
  <2>4. s[i] = HandlerAt(p) BY <1>6, <2>1, <2>2
  <2> QED BY <2>2, <2>3, <2>4
<1>9. Len(s) = k /\ s # <<>> /\ Front(s) = [i \in 1 .. k - 1 |-> s[i]] BY <1>2, <1>6, ListFront
<1>10. Len(z) = k /\ Front(z) = [i \in 1 .. k - 1 |-> z[i]] BY <1>2, <1>7, ListFront
<1>11. Front(z) = Front(s) BY <1>8, <1>9, <1>10
<1> QED BY <1>4, <1>5, <1>9, <1>10, <1>11 DEF Works

\* The handler that ends is the last one.
LEMMA ListEnds ==
  ASSUME TaskInv, ctx.of \in Levels, irq_act' = irq_act \ {ctx.of},
         \A p \in irq_act : p # ctx.of => HandlerAt(p)' = HandlerAt(p)
  PROVE  Ends
<1>1. PICK k \in Nat \ {0} :
        /\ IsFiniteSet(irq_act) /\ Cardinality(irq_act) = k /\ LevelOf(k) = ctx.of
        /\ ctx.of \in irq_act
        /\ \A i \in 1 .. k - 1 : LevelOf(i) \in irq_act \ {ctx.of} /\ ctx.of < LevelOf(i)
        /\ irq_act \subseteq Nat
        /\ \A q \in irq_act : q # ctx.of => ctx.of < q
        /\ Cardinality({q \in irq_act : ctx.of < q}) = k - 1
  BY LastLevel
<1>2. PICK n \in Nat : n = k - 1 /\ k = n + 1 BY <1>1
<1>3. Cardinality(irq_act)' = n BY <1>1, <1>2, FS_RemoveElement
<1>4. ASSUME NEW q \in irq_act
      PROVE  {r \in irq_act' : q < r} = {r \in irq_act : q < r}
  <2>1. ~(q < ctx.of)
    <3>1. q \in Nat /\ ctx.of \in Nat BY <1>1
    <3>2. CASE q = ctx.of BY <3>1, <3>2
    <3>3. CASE q # ctx.of BY <3>1, <3>3, <1>1
    <3> QED BY <3>2, <3>3
  <2> QED BY <2>1
<1>5. ASSUME NEW i \in 1 .. n PROVE LevelOf(i)' = LevelOf(i)
  <2>1. i - 1 # n /\ i - 1 # k - 1 BY <1>2
  <2>2. \A p : /\ p \in irq_act /\ Cardinality({q \in irq_act : p < q}) = i - 1
               <=>
               /\ p \in irq_act' /\ Cardinality({q \in irq_act' : p < q}) = i - 1
    <3> SUFFICES ASSUME NEW p
                 PROVE  /\ p \in irq_act /\ Cardinality({q \in irq_act : p < q}) = i - 1
                        <=>
                        /\ p \in irq_act' /\ Cardinality({q \in irq_act' : p < q}) = i - 1
      OBVIOUS
    <3>1. CASE p = ctx.of BY <3>1, <1>1, <2>1
    <3>2. CASE p # ctx.of /\ p \in irq_act
      <4>1. {q \in irq_act' : p < q} = {q \in irq_act : p < q} BY <3>2, <1>4
      <4> QED BY <3>2, <4>1
    <3>3. CASE p # ctx.of /\ p \notin irq_act BY <3>3
    <3> QED BY <3>1, <3>2, <3>3
  <2>3. LevelOf(i) = CHOOSE p : p \in irq_act /\ Cardinality({q \in irq_act : p < q}) = i - 1
    BY DEF LevelOf
  <2>4. LevelOf(i)' =
          CHOOSE p : p \in irq_act' /\ Cardinality({q \in irq_act' : p < q}) = i - 1
    BY DEF LevelOf
  <2> QED BY <2>2, <2>3, <2>4
<1>6. PICK s : s = Nest OBVIOUS
<1>7. PICK z : z = Nest' OBVIOUS
<1>8. s = [i \in 1 .. k |-> s[i]] /\ \A i \in 1 .. k : s[i] = HandlerAt(LevelOf(i))
  BY <1>1, <1>6, NestAt
<1>9. z = [i \in 1 .. n |-> z[i]] /\ \A i \in 1 .. n : \A p : LevelOf(i)' = p => z[i] = HandlerAt(p)'
  BY <1>3, <1>7, NestAfter
<1>10. ASSUME NEW i \in 1 .. n PROVE z[i] = s[i]
  <2>1. PICK p : p = LevelOf(i) OBVIOUS
  <2>2. i \in 1 .. k /\ i \in 1 .. k - 1 BY <1>2
  <2>3. p \in irq_act /\ p # ctx.of /\ LevelOf(i)' = p BY <1>1, <1>5, <2>1, <2>2
  <2>4. z[i] = HandlerAt(p)' BY <1>9, <2>3
  <2>5. s[i] = HandlerAt(p) BY <1>8, <2>1, <2>2
  <2> QED BY <2>3, <2>4, <2>5
<1>11. s # <<>> /\ Front(s) = [i \in 1 .. n |-> s[i]]
  <2>1. k \in Nat /\ k > 0 BY <1>1
  <2>2. s # <<>> /\ Front(s) = [i \in 1 .. k - 1 |-> s[i]] BY <1>8, <2>1, ListFront
  <2> QED BY <1>2, <2>2
<1>12. z = Front(s) BY <1>9, <1>10, <1>11
<1> QED BY <1>6, <1>7, <1>11, <1>12 DEF Ends

\* The handler that begins is a new last one.
LEMMA ListBegins ==
  ASSUME NEW k \in Nat, IsFiniteSet(irq_act), Cardinality(irq_act) = k, irq_act \subseteq Nat,
         \A i \in 1 .. k : LevelOf(i) \in irq_act,
         NEW p \in Nat, irq_act' = irq_act \cup {p}, \A q \in irq_act : p < q,
         \A q \in irq_act : HandlerAt(q)' = HandlerAt(q)
  PROVE  Begins
<1>1. PICK n \in Nat : n = k + 1 /\ k = n - 1 /\ n > 0 OBVIOUS
<1>2. p \notin irq_act
  <2> SUFFICES ASSUME p \in irq_act PROVE FALSE OBVIOUS
  <2>1. p < p OBVIOUS
  <2> QED BY <2>1
<1>3. Cardinality(irq_act)' = n BY <1>1, <1>2, FS_AddElement
<1>4. ASSUME NEW q \in irq_act
      PROVE  {r \in irq_act' : q < r} = {r \in irq_act : q < r}
  <2>1. q \in Nat /\ p < q OBVIOUS
  <2>2. ~(q < p) BY <2>1
  <2> QED BY <2>2
<1>5. {r \in irq_act' : p < r} = irq_act
  <2>1. ~(p < p) OBVIOUS
  <2> QED BY <2>1
<1>6. ASSUME NEW i \in 1 .. k PROVE LevelOf(i)' = LevelOf(i)
  <2>1. k # i - 1 OBVIOUS
  <2>2. \A x : /\ x \in irq_act /\ Cardinality({q \in irq_act : x < q}) = i - 1
               <=>
               /\ x \in irq_act' /\ Cardinality({q \in irq_act' : x < q}) = i - 1
    <3> SUFFICES ASSUME NEW x
                 PROVE  /\ x \in irq_act /\ Cardinality({q \in irq_act : x < q}) = i - 1
                        <=>
                        /\ x \in irq_act' /\ Cardinality({q \in irq_act' : x < q}) = i - 1
      OBVIOUS
    <3>1. CASE x = p
      <4>1. Cardinality({q \in irq_act' : x < q}) = k BY <3>1, <1>5
      <4> QED BY <3>1, <4>1, <1>2, <2>1
    <3>2. CASE x \in irq_act
      <4>1. {q \in irq_act' : x < q} = {q \in irq_act : x < q} BY <3>2, <1>4
      <4> QED BY <3>2, <4>1
    <3>3. CASE x # p /\ x \notin irq_act BY <3>3
    <3> QED BY <3>1, <3>2, <3>3
  <2>3. LevelOf(i) = CHOOSE x : x \in irq_act /\ Cardinality({q \in irq_act : x < q}) = i - 1
    BY DEF LevelOf
  <2>4. LevelOf(i)' =
          CHOOSE x : x \in irq_act' /\ Cardinality({q \in irq_act' : x < q}) = i - 1
    BY DEF LevelOf
  <2> QED BY <2>2, <2>3, <2>4
<1>7. PICK s : s = Nest OBVIOUS
<1>8. PICK z : z = Nest' OBVIOUS
<1>9. s = [i \in 1 .. k |-> s[i]] /\ \A i \in 1 .. k : s[i] = HandlerAt(LevelOf(i))
  BY <1>7, NestAt
<1>10. z = [i \in 1 .. n |-> z[i]] /\ \A i \in 1 .. n : \A q : LevelOf(i)' = q => z[i] = HandlerAt(q)'
  BY <1>3, <1>8, NestAfter
<1>11. ASSUME NEW i \in 1 .. k PROVE z[i] = s[i]
  <2>1. PICK q : q = LevelOf(i) OBVIOUS
  <2>2. i \in 1 .. n BY <1>1
  <2>3. q \in irq_act /\ LevelOf(i)' = q BY <1>6, <2>1
  <2>4. z[i] = HandlerAt(q)' BY <1>10, <2>2, <2>3
  <2>5. s[i] = HandlerAt(q) BY <1>9, <2>1
  <2> QED BY <2>3, <2>4, <2>5
<1>12. Len(z) = n /\ Front(z) = [i \in 1 .. k |-> z[i]]
  <2>1. z = [i \in 1 .. n |-> z[i]] BY <1>10
  <2>2. Len(z) = n /\ Front(z) = [i \in 1 .. n - 1 |-> z[i]] BY ONLY <2>1, <1>1, n \in Nat, ListFront
  <2> QED BY <1>1, <2>2
<1>13. Len(s) = k BY <1>9, ListFront
<1>14. Front(z) = s BY <1>9, <1>11, <1>12
<1>15. Len(z) = Len(s) + 1 BY <1>1, <1>12, <1>13
<1> QED BY <1>7, <1>8, <1>14, <1>15 DEF Begins

-----------------------------------------------------------------------------
(* The steps of handlers, once more *)

LEMMA InterruptBegins ==
  ASSUME TaskInv, NEW p \in Levels, Interrupt(p)
  PROVE  Begins
<1>1. /\ ctx.ie /\ \A q \in irq_act : p < q
      /\ stack' = [stack EXCEPT ![on] = Append(@, Frame(ctx))]
      /\ ctx' = Context(p, "entry", TRUE)
      /\ irq_act' = irq_act \cup {p}
      /\ UNCHANGED current
  BY DEF Interrupt
<1>2. ctx.of # Boot
  <2>1. ctx.of = Boot => ctx.ie = FALSE BY DEF TaskInv, Booting, Context
  <2> QED BY <1>1, <2>1
<1>3. PICK k \in Nat : \E h \in [0 .. k -> Items] : Runs(h, k) /\ Shape(h, k)
  BY <1>2, AnyChain
<1>4. PICK h \in [0 .. k -> Items] : Runs(h, k) /\ Shape(h, k) BY <1>3
<1>5. current \in Tasks /\ AreStacks(stack) BY DEF TaskInv, Data
<1>6. /\ IsFiniteSet(irq_act) /\ Cardinality(irq_act) = k
      /\ \A i \in 1 .. k : LevelOf(i) = h[i].c.of /\ h[i].c.of \in Nat
  BY <1>4, <1>5, LevelsInOrder
<1>7. irq_act = {h[i].c.of : i \in 1 .. k} /\ on = h[k].s /\ h[k].s \in {current, Exc}
  BY <1>4 DEF Shape, Linked
<1>8. irq_act \subseteq Nat /\ \A i \in 1 .. k : LevelOf(i) \in irq_act BY <1>6, <1>7
<1>9. p \in Nat /\ \A q \in irq_act : q # p
  <2>1. p \in Nat BY LevelAssumption
  <2> QED BY <1>1, <1>8, <2>1
<1>10. PICK s : s = on OBVIOUS
<1>11. PICK e : e = Frame(ctx) OBVIOUS
<1>12. PICK after : after = Put(stack, s, Append(stack[s], e)) OBVIOUS
<1>13. e.kind = "frame" => Seen(after) = Seen(stack) \cup {e.ctx}
  <2>1. s \in {current, Exc} BY <1>7, <1>10
  <2> QED BY ONLY <1>5, <1>12, <2>1, SeenPushed
<1>14. stack' = after /\ e.kind = "frame" /\ e.ctx = ctx
  BY <1>1, <1>10, <1>11, <1>12 DEF Put, Frame
<1>15. Seen(stack') = Seen(stack) \cup {ctx} BY <1>13, <1>14
<1>16. ASSUME NEW q \in irq_act PROVE HandlerAt(q)' = HandlerAt(q)
  <2>1. ctx'.of # q BY <1>1, <1>9 DEF Context
  <2>2. \A c : c.of = q => (c \in {ctx'} \cup Seen(stack') <=> c \in {ctx} \cup Seen(stack))
    BY <1>15, <2>1
  <2> QED BY <1>1, <2>2, HandlerUnseen
<1> QED BY <1>1, <1>6, <1>8, <1>9, <1>16, ListBegins

\* A handler that leaves the stacks alone.
LEMMA SteadyWorks ==
  ASSUME TaskInv, ctx.of \in Levels, ctx'.of = ctx.of, UNCHANGED <<stack, current, irq_act>>
  PROVE  Works
<1>1. ASSUME NEW p \in irq_act, p # ctx.of PROVE HandlerAt(p)' = HandlerAt(p)
  <2>1. \A c : c.of = p => (c \in {ctx'} \cup Seen(stack') <=> c \in {ctx} \cup Seen(stack))
    BY <1>1
  <2> QED BY <2>1, HandlerUnseen
<1> QED BY <1>1, ListWorks

\* A handler that pushes what is not a frame.
LEMMA StackWorks ==
  ASSUME TaskInv, ctx.of \in Levels, ctx'.of = ctx.of, UNCHANGED <<current, irq_act>>,
         Seen(stack') = Seen(stack)
  PROVE  Works
<1>1. ASSUME NEW p \in irq_act, p # ctx.of PROVE HandlerAt(p)' = HandlerAt(p)
  <2>1. \A c : c.of = p => (c \in {ctx'} \cup Seen(stack') <=> c \in {ctx} \cup Seen(stack))
    BY <1>1
  <2> QED BY <2>1, HandlerUnseen
<1> QED BY <1>1, ListWorks

LEMMA CountWorks == TaskInv /\ CountHandler => Works
<1> SUFFICES ASSUME TaskInv, CountHandler PROVE Works OBVIOUS
<1>1. /\ ctx.pc = "entry"
      /\ ctx' = [ctx EXCEPT !.pc = "count", !.n = exc_nest_count]
      /\ UNCHANGED <<stack, current, irq_act>>
  BY DEF CountHandler
<1>2. ctx.of \in Levels BY <1>1, HandlersOnly DEF HandlerPCs
<1>3. ctx \in Contexts BY <1>2, HandlerAbove
<1>4. ctx'.of = ctx.of BY <1>1, <1>3 DEF Contexts
<1> QED BY <1>1, <1>2, <1>4, SteadyWorks

LEMMA YieldFromIsrWorks == TaskInv /\ vPortYieldFromIsr => Works
<1> SUFFICES ASSUME TaskInv, vPortYieldFromIsr PROVE Works OBVIOUS
<1>1. /\ ctx.of \in Levels /\ ctx' = [ctx EXCEPT !.pc = "leave"]
      /\ UNCHANGED <<stack, current, irq_act>>
  BY DEF vPortYieldFromIsr
<1>2. ctx \in Contexts BY <1>1, HandlerAbove
<1>3. ctx'.of = ctx.of BY <1>1, <1>2 DEF Contexts
<1> QED BY <1>1, <1>3, SteadyWorks

LEMMA HandlerTrapWorks == TaskInv /\ ctx.of \in Levels /\ Trap => Works
<1> SUFFICES ASSUME TaskInv, ctx.of \in Levels, Trap PROVE Works OBVIOUS
<1>1. irq_act # {} BY HandlerAbove
<1>2. UNCHANGED <<ctx, stack, current, irq_act>> BY <1>1 DEF Trap
<1>3. ctx'.of = ctx.of BY <1>2
<1> QED BY <1>2, <1>3, SteadyWorks

LEMMA GiveFromIsrWorks ==
  ASSUME TaskInv, NEW u \in Tasks, GiveFromISR(u)
  PROVE  Works
<1>1. /\ ctx.of \in Levels
      /\ ctx' = [ctx EXCEPT !.pc = "giving", !.n = value[u], !.to = u,
                            !.waited = (notifyState[u] = "waiting")]
      /\ UNCHANGED <<stack, current, irq_act>>
  BY LevelAssumption DEF GiveFromISR, port
<1>2. ctx \in Contexts BY <1>1, HandlerAbove
<1>3. ctx'.of = ctx.of BY <1>1, <1>2 DEF Contexts
<1> QED BY <1>1, <1>3, SteadyWorks

LEMMA FinishGiveWorks == TaskInv /\ FinishGive => Works
<1> SUFFICES ASSUME TaskInv, FinishGive PROVE Works OBVIOUS
<1>1. ctx.pc = "giving" /\ ctx'.of = ctx.of /\ UNCHANGED <<stack, current, irq_act>>
  BY DEF FinishGive, port, Context
<1>2. ctx.of \in Levels BY <1>1, HandlersOnly DEF HandlerPCs
<1> QED BY <1>1, <1>2, SteadyWorks

LEMMA ChangeStackWorks == TaskInv /\ ChangeStack => Works
<1> SUFFICES ASSUME TaskInv, ChangeStack PROVE Works OBVIOUS
<1>1. /\ ctx.pc = "count"
      /\ ctx' = [ctx EXCEPT !.pc = "body", !.n = 0]
      /\ UNCHANGED <<irq_act, current>>
  BY DEF ChangeStack
<1>2. ctx.of \in Levels BY <1>1, HandlersOnly DEF HandlerPCs
<1>3. /\ ctx \in Contexts /\ current \in Tasks /\ on \in {current, Exc} /\ AreStacks(stack)
  BY <1>2, HandlerAbove
<1>4. ctx'.of = ctx.of BY <1>1, <1>3 DEF Contexts
<1>5. \E s \in {current, Exc} : \E e :
        e.kind = "sp" /\ stack' = Put(stack, s, Append(stack[s], e))
  <2>1. CASE ctx.n = 0
    <3>1. stack' = [stack EXCEPT ![Exc] = <<SavedSp(on)>>] BY <2>1 DEF ChangeStack
    <3>2. PICK e : e = SavedSp(on) OBVIOUS
    <3>3. stack[Exc] = <<>> BY <1>1, <2>1, StackIsFree DEF ExceptionStackFree
    <3>4. Append(stack[Exc], e) = <<e>> BY <3>3, PairStack
    <3>5. e.kind = "sp" BY <3>2 DEF SavedSp
    <3>6. stack' = Put(stack, Exc, Append(stack[Exc], e)) BY <3>1, <3>2, <3>4 DEF Put
    <3> QED BY <3>5, <3>6
  <2>2. CASE ctx.n # 0
    <3>1. stack' = [stack EXCEPT ![on] = Append(@, SavedSp(on))] BY <2>2 DEF ChangeStack
    <3>2. PICK e : e = SavedSp(on) OBVIOUS
    <3>3. e.kind = "sp" BY <3>2 DEF SavedSp
    <3>4. stack' = Put(stack, on, Append(stack[on], e)) BY <3>1, <3>2 DEF Put
    <3> QED BY <1>3, <3>3, <3>4
  <2> QED BY <2>1, <2>2
<1>6. PICK s \in {current, Exc} : \E e :
        e.kind = "sp" /\ stack' = Put(stack, s, Append(stack[s], e))
  BY <1>5
<1>7. PICK e : e.kind = "sp" /\ stack' = Put(stack, s, Append(stack[s], e)) BY <1>6
<1>8. PICK after : after = Put(stack, s, Append(stack[s], e)) OBVIOUS
<1>9. e.kind # "frame" => Seen(after) = Seen(stack)
  BY ONLY <1>3, <1>8, s \in {current, Exc}, SeenPushed
<1>10. Seen(stack') = Seen(stack) BY <1>7, <1>8, <1>9
<1> QED BY <1>1, <1>2, <1>4, <1>10, StackWorks

\* What a handler's end pops: the frame of what it interrupted.
LEMMA ReturnEnds ==
  ASSUME TaskInv, ReturnFromInterrupt,
         ~(Outermost(irq_act \ {ctx.of}) /\ reqflg)
  PROVE  Ends
<1>1. PICK before : before = Last(stack[on]).on OBVIOUS
<1>2. PICK popped : popped = Put(stack, on, Front(stack[on])) OBVIOUS
<1>3. PICK after : after = Put(popped, before, Front(popped[before])) OBVIOUS
<1>4. /\ ctx.of \in Levels /\ ctx.pc \in {"body", "leave"}
      /\ ctx' = Last(popped[before]).ctx /\ stack' = after
      /\ irq_act' = irq_act \ {ctx.of} /\ UNCHANGED current
  BY <1>1, <1>2, <1>3 DEF ReturnFromInterrupt, Put
<1>5. PICK k \in Nat \ {0} : \E h \in [0 .. k -> Items] : Runs(h, k) BY <1>4, RunningHandler
<1>6. PICK h \in [0 .. k -> Items] : Runs(h, k) BY <1>5
<1>7. /\ before = h[k - 1].s /\ before \in {current, Exc}
      /\ Last(popped[before]) = Frame(h[k - 1].c)
      /\ Len(popped[before]) = h[k - 1].d + 1
      /\ AreStacks(popped)
  BY <1>1, <1>2, <1>3, <1>4, <1>6, HandlerEnds
<1>8. /\ Linked(h, k, current, crit) /\ Placed(h, k, stack) /\ ctx = h[k].c /\ on = h[k].s
  BY <1>6 DEF Runs, Shape
<1>9. current \in Tasks /\ AreStacks(stack) /\ on \in {current, Exc} BY <1>4, HandlerAbove
<1>10. h[k].d \in Nat /\ h[k].d > 0 /\ h[k - 1].d \in Nat
  <2>1. k \in 0 .. k /\ k - 1 \in 0 .. k /\ k \in 1 .. k OBVIOUS
  <2>2. h[k].d \in Nat /\ h[k - 1].d \in Nat BY <2>1 DEF Items
  <2>3. Link(h[k - 1], h[k]) BY <1>8, <2>1 DEF Linked
  <2>4. h[k].c.pc \notin Entering BY <1>4, <1>8 DEF Entering
  <2>5. h[k].d = h[k - 1].d + 2 \/ h[k].d = 1 BY <2>3, <2>4 DEF Link
  <2> QED BY <2>2, <2>5
<1>11. PICK last : last = Last(stack[on]) OBVIOUS
<1>12. Len(stack[on]) > 0 /\ last.kind = "sp"
  <2>1. Len(stack[on]) = h[k].d BY <1>8 DEF Placed
  <2>2. k \in 1 .. k /\ h[k].c.pc \notin Entering BY <1>4, <1>8 DEF Entering
  <2>3. stack[on][h[k].d] = SavedSp(h[k - 1].s) BY <1>8, <2>2 DEF Placed
  <2>4. last = SavedSp(h[k - 1].s) BY <1>11, <2>1, <2>3 DEF Last
  <2> QED BY <1>10, <2>1, <2>4 DEF SavedSp
<1>13. Seen(stack) = Seen(popped)
  <2>1. PICK s : s = on OBVIOUS
  <2>2. s \in {current, Exc} /\ Len(stack[s]) > 0 /\ popped = Put(stack, s, Front(stack[s]))
        /\ last = Last(stack[s])
    BY <1>2, <1>9, <1>11, <1>12, <2>1
  <2>3. last.kind # "frame" => Seen(stack) = Seen(popped)
    BY ONLY <1>9, <2>2, SeenPopped
  <2> QED BY <1>12, <2>3
<1>14. Seen(popped) = Seen(after) \cup {ctx'}
  <2>1. PICK e : e = Last(popped[before]) OBVIOUS
  <2>2. e.kind = "frame" /\ e.ctx = ctx' BY <1>4, <1>7, <2>1 DEF Frame
  <2>3. Len(popped[before]) > 0 BY <1>7, <1>10
  <2>4. e.kind = "frame" => Seen(popped) = Seen(after) \cup {e.ctx}
    BY ONLY <1>3, <1>7, <1>9, <2>1, <2>3, SeenPopped
  <2> QED BY <2>2, <2>4
<1>15. ASSUME NEW p \in irq_act, p # ctx.of PROVE HandlerAt(p)' = HandlerAt(p)
  <2>1. \A c : c.of = p => (c \in {ctx'} \cup Seen(stack') <=> c \in {ctx} \cup Seen(stack))
    BY <1>4, <1>13, <1>14, <1>15
  <2> QED BY <1>4, <2>1, HandlerUnseen
<1> QED BY <1>4, <1>15, ListEnds

\* The last handler may end with a switch, and is the only one then.
LEMMA SwitchEnds ==
  ASSUME TaskInv, ReturnFromInterrupt,
         Outermost(irq_act \ {ctx.of}) /\ reqflg
  PROVE  Ends /\ Len(Nest) = 1
<1>1. /\ ctx.of \in Levels /\ irq_act \subseteq Levels /\ AtMostOne(irq_act)
      /\ \E c \in Contexts : \E st :
           /\ OfTask(c, current, crit)
           /\ AreStacks(st) /\ st[Exc] = <<>> /\ st[current] = <<Frame(c)>>
           /\ \A t \in Tasks \ {current} : st[t] = stack[t]
           /\ Scheduled(c, {ctx})
           /\ Dispatcher(st, current, "interrupt", {}, crit, ready, suspended)
  BY LastHandlerEnds
<1>2. PICK c \in Contexts : \E st :
        /\ OfTask(c, current, crit)
        /\ AreStacks(st) /\ st[Exc] = <<>> /\ st[current] = <<Frame(c)>>
        /\ \A t \in Tasks \ {current} : st[t] = stack[t]
        /\ Scheduled(c, {ctx})
        /\ Dispatcher(st, current, "interrupt", {}, crit, ready, suspended)
  BY <1>1
<1>3. PICK st :
        /\ OfTask(c, current, crit)
        /\ AreStacks(st) /\ st[Exc] = <<>> /\ st[current] = <<Frame(c)>>
        /\ \A t \in Tasks \ {current} : st[t] = stack[t]
        /\ Scheduled(c, {ctx})
        /\ Dispatcher(st, current, "interrupt", {}, crit, ready, suspended)
  BY <1>2
<1>4. current \in Tasks /\ ctx.of \in irq_act BY <1>1, HandlerAbove
<1>5. Data /\ OwnStacks /\ Others BY <1>1, RunningHandler
<1>6. PICK how, nesting, tasks, depth, act :
        how = "interrupt" /\ nesting = crit /\ tasks = ready /\ depth = suspended /\ act = {}
  OBVIOUS
<1>7. /\ how \in {"start", "call", "interrupt", "exception"}
      /\ how = "interrupt" => AtMostOne(irq_act)
      /\ nesting \in Nat /\ OfTask(c, current, nesting)
      /\ tasks \in SUBSET Tasks /\ depth \in {0, 1} /\ (depth = 0 => c.pc # "held")
      /\ Dispatcher(st, current, how, act, nesting, tasks, depth)
      /\ act = {}
  BY <1>1, <1>3, <1>5, <1>6 DEF Data, Scheduled
<1>8. AllLeft(st, current) BY <1>3, <1>5 DEF Others, AllLeft
<1>9. irq_act' = {}
  <2>1. OwnStacks /\ current \in Tasks /\ irq_act \subseteq Levels /\ c \in Contexts
    BY <1>1, <1>4, <1>5
  <2>2. AreStacks(st) /\ st[Exc] = <<>> /\ st[current] = <<Frame(c)>> BY <1>3
  <2> QED BY ONLY <2>1, <2>2, <1>7, <1>8, SwitchGoesOn
<1>10. irq_act = {ctx.of} BY <1>1, <1>4 DEF AtMostOne
<1>11. irq_act' = irq_act \ {ctx.of} BY <1>9, <1>10
<1>12. \A p \in irq_act : p # ctx.of => HandlerAt(p)' = HandlerAt(p) BY <1>10
<1>13. Ends BY <1>1, <1>11, <1>12, ListEnds
<1>14. Len(Nest) = 1
  <2>1. PICK p : p = ctx.of OBVIOUS
  <2>2. Cardinality({p}) = 1 BY FS_Singleton
  <2>3. PICK k \in Nat : k = 1 OBVIOUS
  <2>4. Cardinality(irq_act) = k BY <1>10, <2>1, <2>2, <2>3
  <2>5. PICK s : s = Nest OBVIOUS
  <2>6. s = [i \in 1 .. k |-> s[i]] BY <2>4, <2>5, NestAt
  <2>7. Len(s) = k BY ONLY <2>6, ListFront
  <2> QED BY <2>3, <2>5, <2>7
<1> QED BY <1>13, <1>14

-----------------------------------------------------------------------------
(* The steps of tasks, once more *)

\* A task that gives the processor away finds or leaves no handler.
LEMMA QuietDispatch ==
  ASSUME TaskInv, ctx.of \in Tasks, current' \in Tasks,
         NEW c, NEW how, how # "interrupt", NEW act, act = {}, NEW nesting, NEW tasks, NEW depth,
         Dispatcher([stack EXCEPT ![on] = Append(@, Frame(c))], on,
                    how, act, nesting, tasks, depth)
  PROVE  irq_act' = {}
<1>1. AtTask /\ Others /\ Data /\ AreStacks(stack) /\ OwnStacks BY TaskRuns
<1>2. current \in Tasks /\ on = current /\ stack[current] = <<>> BY <1>1 DEF AtTask, Data
<1>3. PICK saved : saved = Switched(how, irq_act, nesting) OBVIOUS
<1>4. PICK new : new = <<Frame(c), saved>> OBVIOUS
<1>5. PICK left : left = Put(stack, current, new) OBVIOUS
<1>6. current \in Stacks /\ Tasks \subseteq Stacks BY <1>2 DEF Stacks
<1>7. left = [[stack EXCEPT ![on] = Append(@, Frame(c))] EXCEPT ![on] = Append(@, saved)]
  <2>1. PICK a : a = Frame(c) OBVIOUS
  <2>2. Append(stack[current], a) = <<a>> /\ Append(<<a>>, saved) = <<a, saved>>
    BY <1>2, PairStack
  <2>3. stack = [s \in Stacks |-> stack[s]] BY <1>1 DEF AreStacks
  <2>4. [[stack EXCEPT ![current] = Append(@, a)] EXCEPT ![current] = Append(@, saved)]
          = [stack EXCEPT ![current] = <<a, saved>>]
    BY <1>6, <2>2, <2>3
  <2> QED BY <1>2, <1>4, <1>5, <2>1, <2>4 DEF Put
<1>8. top' = [top EXCEPT ![current] = on] /\ Resume(left, top'[current'], act)
  <2>1. PICK st : st = [stack EXCEPT ![on] = Append(@, Frame(c))] OBVIOUS
  <2>2. Dispatcher(st, on, how, act, nesting, tasks, depth) BY <2>1
  <2>3. left = [st EXCEPT ![on] = Append(@, Switched(how, irq_act, nesting))]
    BY <1>3, <1>7, <2>1
  <2> QED BY <2>2, <2>3 DEF Dispatcher
<1>9. top'[current'] = current' BY <1>1, <1>2, <1>8 DEF OwnStacks
<1>10. PICK next : next = current' OBVIOUS
<1>11. next \in Tasks /\ Resume(left, next, {}) BY <1>8, <1>9, <1>10
<1>12. AreStacks(left) /\ left[current] = new /\ \A t \in Stacks : t # current => left[t] = stack[t]
  <2>1. IsStack(new) BY <1>4, PairStack
  <2> QED BY <1>1, <1>5, <1>6, <2>1, OneStack
<1>13. CASE next = current
  <2>1. Last(left[next]) = saved
    <3>1. PICK a : a = Frame(c) OBVIOUS
    <3>2. Last(<<a, saved>>) = saved BY PairStack
    <3> QED BY <1>4, <1>12, <1>13, <3>1, <3>2
  <2>2. irq_act' = IF saved.how = "interrupt"
                   THEN {q \in saved.act : \E p \in saved.act : p < q} ELSE {}
    BY <1>11, <2>1 DEF Resume
  <2>3. saved.how = how BY <1>3 DEF Switched
  <2> QED BY <2>2, <2>3
<1>14. CASE next # current
  <2>1. Saved(left[next], next, TaskPCs \ {"held"})
    BY <1>1, <1>6, <1>11, <1>12, <1>14 DEF Others, AllLeft, Left
  <2> QED BY ONLY <1>11, <1>12, <2>1, SavedGoesOn
<1> QED BY <1>13, <1>14

\* The kernel calls of tasks.
QuietSteps ==
  \/ Trap \/ EnterCritical \/ Leave \/ vPortYield \/ ulTaskNotifyTake \/ TakeCount
  \/ vTaskSuspendAll \/ StoreSuspended \/ xTaskResumeAll
  \/ \E u \in Tasks \ {Idle} : xTaskNotifyGive(u)

LEMMA TasksAreQuiet ==
  ASSUME TaskInv, ctx.of \in Tasks, current' \in Tasks, QuietSteps
  PROVE  irq_act = {} /\ irq_act' = {}
<1>1. irq_act = {} BY RunningTask
<1>2. ASSUME NEW c, NEW how, how # "interrupt", NEW act, act = {},
             NEW nesting, NEW tasks, NEW depth,
             Dispatcher([stack EXCEPT ![on] = Append(@, Frame(c))], on,
                        how, act, nesting, tasks, depth)
      PROVE  irq_act' = {}
  BY <1>2, QuietDispatch
<1>3. ASSUME NEW c, NEW nesting, NEW tasks, NEW depth, Dispatch(c, nesting, tasks, depth)
      PROVE  irq_act' = {}
  <2>1. PICK how, act : how = "call" /\ act = irq_act OBVIOUS
  <2>2. Dispatcher([stack EXCEPT ![on] = Append(@, Frame(c))], on,
                   how, act, nesting, tasks, depth)
    BY <1>3, <2>1 DEF Dispatch
  <2>3. how # "interrupt" /\ act = {} BY <1>1, <2>1
  <2> QED BY <1>2, <2>2, <2>3
<1>4. CASE Trap
  <2>1. PICK c, how, act, nesting, tasks, depth :
          /\ c = ctx /\ how = "exception" /\ act = irq_act
          /\ nesting = crit /\ tasks = ready /\ depth = suspended
    OBVIOUS
  <2>2. \/ Dispatcher([stack EXCEPT ![on] = Append(@, Frame(c))], on,
                      how, act, nesting, tasks, depth)
        \/ irq_act' = irq_act
    BY <1>4, <2>1 DEF Trap
  <2>3. how # "interrupt" /\ act = {} BY <1>1, <2>1
  <2> QED BY <1>1, <1>2, <2>2, <2>3
<1>5. CASE EnterCritical BY <1>1, <1>5 DEF EnterCritical
<1>6. CASE Leave BY <1>1, <1>6 DEF Leave, ExitCritical
<1>7. CASE vPortYield
  <2>1. PICK c, nesting, tasks, depth :
          c = ctx /\ nesting = crit /\ tasks = ready /\ depth = suspended
    OBVIOUS
  <2>2. Dispatch(c, nesting, tasks, depth) BY <1>7, <2>1 DEF vPortYield
  <2> QED BY <1>1, <1>3, <2>2
<1>8. CASE ulTaskNotifyTake
  <2>1. PICK then : then = Context(current, "taking", FALSE) OBVIOUS
  <2>2. Dispatch(then, crit + 1, ready', suspended) \/ irq_act' = irq_act
    BY <1>8, <2>1 DEF ulTaskNotifyTake
  <2>3. PICK nesting, tasks : nesting = crit + 1 /\ tasks = ready' OBVIOUS
  <2> QED BY <1>1, <1>3, <2>2, <2>3
<1>9. CASE TakeCount BY <1>1, <1>9 DEF TakeCount, port
<1>10. CASE vTaskSuspendAll BY <1>1, <1>10 DEF vTaskSuspendAll, port
<1>11. CASE StoreSuspended BY <1>1, <1>11 DEF StoreSuspended, port
<1>12. CASE xTaskResumeAll
  <2>1. PICK then : then = Context(current, "leaving", FALSE) OBVIOUS
  <2>2. Dispatch(then, crit + 1, ready', suspended') \/ irq_act' = irq_act
    BY <1>12, <2>1 DEF xTaskResumeAll
  <2>3. PICK nesting, tasks, depth : nesting = crit + 1 /\ tasks = ready' /\ depth = suspended'
    OBVIOUS
  <2> QED BY <1>1, <1>3, <2>2, <2>3
<1>13. ASSUME NEW u \in Tasks, xTaskNotifyGive(u) PROVE irq_act' = {}
  <2>1. PICK then : then = Context(current, "leaving", FALSE) OBVIOUS
  <2>2. Dispatch(then, crit + 1, ready', suspended) \/ irq_act' = irq_act
    BY <1>13, <2>1 DEF xTaskNotifyGive
  <2>3. PICK nesting, tasks : nesting = crit + 1 /\ tasks = ready' OBVIOUS
  <2> QED BY <1>1, <1>3, <2>2, <2>3
<1> QED BY <1>1, <1>4, <1>5, <1>6, <1>7, <1>8, <1>9, <1>10, <1>11, <1>12, <1>13 DEF QuietSteps

LEMMA StartIsQuiet == TaskInv /\ start_dispatch => irq_act = {} /\ irq_act' = {}
<1> SUFFICES ASSUME TaskInv, start_dispatch PROVE irq_act = {} /\ irq_act' = {} OBVIOUS
<1>1. ctx.of = Boot /\ Resume(stack, top[current], irq_act) BY DEF start_dispatch
<1>2. Data /\ AreStacks(stack) /\ OwnStacks /\ Booting /\ current \in Tasks
  BY <1>1 DEF TaskInv, Data
<1>3. PICK t, st : t = current /\ st = stack OBVIOUS
<1>4. top[current] = t /\ irq_act = {} BY <1>2, <1>3 DEF OwnStacks, Booting
<1>5. t \in Tasks /\ AreStacks(st) /\ Resume(st, t, {}) BY <1>1, <1>2, <1>3, <1>4
<1>6. Saved(st[t], t, TaskPCs \ {"held"}) BY <1>2, <1>3 DEF Booting, Left
<1>7. irq_act' = {} BY ONLY <1>5, <1>6, SavedGoesOn
<1> QED BY <1>4, <1>7

-----------------------------------------------------------------------------
(* Every step is one of Multitasking *)

LEMMA PlacesStay == AllStay => Places' = Places
<1> SUFFICES ASSUME AllStay PROVE Places' = Places OBVIOUS
<1>1. \A t \in Tasks : TaskAt(t)' = TaskAt(t) BY DEF AllStay, Stays
<1> QED BY <1>1 DEF Places

LEMMA OnlyOneMoves == AllStay \/ TaskMoves => \A t \in Tasks \ {current} : Places'[t] = Places[t]
<1> SUFFICES ASSUME AllStay \/ TaskMoves, NEW t \in Tasks \ {current} PROVE Places'[t] = Places[t]
  OBVIOUS
<1>1. Stays(t) BY DEF AllStay, TaskMoves, Arrives
<1>2. Places[t] = TaskAt(t) BY DEF Places
<1>3. Places'[t] = TaskAt(t)' BY DEF Places
<1> QED BY <1>1, <1>2, <1>3 DEF Stays

LEMMA StepIsAbstract == TaskInv /\ [Next]_vars => [M!Next]_(M!vars)
<1> SUFFICES ASSUME TaskInv, [Next]_vars PROVE [M!Next]_(M!vars) OBVIOUS
<1>1. current' \in Tasks
  <2>1. TaskInv' BY TaskInvKept
  <2> QED BY <2>1 DEF TaskInv, Data
<1>2. AllStay \/ TaskMoves BY StepMoves
<1>3. \A s : M!Front(s) = Front(s) BY DEF M!Front, Front
<1>4. ASSUME irq_act = {}, irq_act' = {} PROVE [M!Next]_(M!vars)
  <2>1. Nest = <<>> /\ Nest' = <<>> BY <1>4, NoHandlers
  <2>2. \A t \in Tasks \ {current} : Places'[t] = Places[t] BY <1>2, OnlyOneMoves
  <2>3. M!Execute BY <1>1, <2>1, <2>2 DEF M!Execute
  <2> QED BY <2>3 DEF M!Next
<1>5. ASSUME AllStay, UNCHANGED current, Works PROVE [M!Next]_(M!vars)
  <2>1. Places' = Places BY <1>5, PlacesStay
  <2>2. M!Work BY <1>3, <1>5, <2>1 DEF M!Work, Works
  <2> QED BY <2>2 DEF M!Next
<1>6. ASSUME QuietSteps, ctx.of \in Tasks PROVE [M!Next]_(M!vars)
  BY <1>1, <1>4, <1>6, TasksAreQuiet
<1>7. CASE start_dispatch BY <1>4, <1>7, StartIsQuiet
<1>8. ASSUME NEW p \in Levels, Interrupt(p) PROVE [M!Next]_(M!vars)
  <2>1. Begins /\ AllStay BY <1>8, InterruptBegins, InterruptStays
  <2>2. Places' = Places /\ current' = current BY <1>8, <2>1, PlacesStay DEF Interrupt
  <2>3. M!Begin BY <1>3, <2>1, <2>2 DEF M!Begin, Begins
  <2> QED BY <2>3 DEF M!Next
<1>9. CASE CountHandler
  <2>1. UNCHANGED current BY <1>9 DEF CountHandler
  <2> QED BY <1>5, <1>9, <2>1, CountWorks, CountStays
<1>10. CASE ChangeStack
  <2>1. UNCHANGED current BY <1>10 DEF ChangeStack
  <2> QED BY <1>5, <1>10, <2>1, ChangeStackWorks, ChangeStackStays
<1>11. CASE vPortYieldFromIsr
  <2>1. UNCHANGED current BY <1>11 DEF vPortYieldFromIsr
  <2> QED BY <1>5, <1>11, <2>1, YieldFromIsrWorks, YieldFromIsrStays
<1>12. CASE ReturnFromInterrupt
  <2>1. Ends BY <1>12, ReturnEnds, SwitchEnds
  <2>2. AllStay BY <1>12, ReturnStays, SwitchStays
  <2>3. current' \in IF Len(Nest) = 1 THEN Tasks ELSE {current}
    <3>1. CASE Outermost(irq_act \ {ctx.of}) /\ reqflg
      <4>1. Len(Nest) = 1 BY <1>12, <3>1, SwitchEnds
      <4> QED BY <1>1, <4>1
    <3>2. CASE ~(Outermost(irq_act \ {ctx.of}) /\ reqflg)
      <4>1. current' = current BY <1>12, <3>2 DEF ReturnFromInterrupt
      <4> QED BY <1>1, <4>1
    <3> QED BY <3>1, <3>2
  <2>4. Places' = Places BY <2>2, PlacesStay
  <2>5. M!Finish BY <1>3, <2>1, <2>3, <2>4 DEF M!Finish, Ends
  <2> QED BY <2>5 DEF M!Next
<1>13. CASE Trap
  <2>1. CASE ctx.of \in Tasks BY <1>6, <1>13, <2>1 DEF QuietSteps
  <2>2. CASE ctx.of \in Levels
    <3>1. irq_act # {} BY <2>2, HandlerAbove
    <3>2. UNCHANGED current BY <1>13, <3>1 DEF Trap
    <3> QED BY <1>5, <1>13, <2>2, <3>2, HandlerTrapWorks, HandlerTrapStays
  <2> QED BY <1>13, <2>1, <2>2 DEF Trap
<1>14. ASSUME NEW u \in Tasks, GiveFromISR(u) PROVE [M!Next]_(M!vars)
  <2>1. UNCHANGED current BY <1>14 DEF GiveFromISR
  <2> QED BY <1>5, <1>14, <2>1, GiveFromIsrWorks, GiveFromIsrStays
<1>15. ASSUME NEW u \in Tasks \ {Idle}, xTaskNotifyGive(u) PROVE [M!Next]_(M!vars)
  <2>1. ctx.of \in Tasks BY <1>15 DEF xTaskNotifyGive, Running
  <2>2. QuietSteps BY <1>15 DEF QuietSteps
  <2> QED BY <1>6, <2>1, <2>2
<1>16. CASE FinishGive
  <2>1. UNCHANGED current BY <1>16 DEF FinishGive
  <2> QED BY <1>5, <1>16, <2>1, FinishGiveWorks, FinishGiveStays
<1>17. ASSUME \/ EnterCritical \/ Leave \/ vPortYield \/ ulTaskNotifyTake \/ TakeCount
              \/ vTaskSuspendAll \/ StoreSuspended \/ xTaskResumeAll
       PROVE  [M!Next]_(M!vars)
  <2>1. ctx.of \in Tasks
    BY <1>17 DEF EnterCritical, Leave, ExitCritical, vPortYield, ulTaskNotifyTake, TakeCount,
                 vTaskSuspendAll, StoreSuspended, xTaskResumeAll, Running
  <2>2. QuietSteps BY <1>17 DEF QuietSteps
  <2> QED BY <1>6, <2>1, <2>2
<1>18. CASE UNCHANGED vars
  <2>1. UNCHANGED <<irq_act, ctx, stack, current>> BY <1>18 DEF vars, port
  <2>2. Places' = Places BY <1>18, StutterStays, PlacesStay
  <2>3. Nest' = Nest BY <2>1 DEF Nest, HandlerAt, FramesOn, LevelOf
  <2> QED BY <2>1, <2>2, <2>3 DEF M!vars
<1> QED
  BY <1>7, <1>8, <1>9, <1>10, <1>11, <1>12, <1>13, <1>14, <1>15, <1>16, <1>17, <1>18 DEF Next

LEMMA InitIsAbstract == Init => M!Init
<1> SUFFICES ASSUME Init PROVE M!Init OBVIOUS
<1>1. Nest = <<>> BY NoHandlers DEF Init
<1>2. current \in Tasks BY DEF Init
<1> QED BY <1>1, <1>2 DEF M!Init

-----------------------------------------------------------------------------
(* A handler is in one place *)

LEMMA LeastNumber ==
  ASSUME NEW T \in SUBSET Nat, T # {}
  PROVE  \E n \in T : \A m \in T : n <= m
<1>1. PICK R : R = {ss \in Nat \X Nat : ss[1] < ss[2]} OBVIOUS
<1>2. IsWellFoundedOn(R, Nat) BY <1>1, NatLessThanWellFounded DEF OpToRel
<1>3. PICK n \in T : \A m \in T : <<m, n>> \notin R
  BY <1>2, WFMin
<1>4. ASSUME NEW m \in T PROVE n <= m
  <2>1. n \in Nat /\ m \in Nat /\ ~(m < n) BY <1>1, <1>3
  <2> QED BY <2>1
<1> QED BY <1>4

\* What is pushed and not yet popped on the two stacks in use: the registers
\* of each interrupted item of the chain, and stack pointers.
LEMMA FramesAreItems ==
  ASSUME current \in Tasks, AreStacks(stack),
         NEW k \in Nat, NEW h \in [0 .. k -> Items], Shape(h, k)
  PROVE  Seen(stack) \subseteq {h[i].c : i \in 0 .. k}
<1>1. Linked(h, k, current, crit) /\ Placed(h, k, stack) BY DEF Shape
<1>2. ASSUME NEW i \in 0 .. k PROVE h[i].d \in Nat /\ h[i].s \in {current, Exc}
  BY <1>1 DEF Linked, Items
<1>3. ASSUME NEW s \in {current, Exc}, NEW j \in Nat, j > 0, j <= Len(stack[s]),
             stack[s][j].kind = "frame"
      PROVE  \E i \in 0 .. k : stack[s][j].ctx = h[i].c
  <2>1. ASSUME NEW i \in 0 .. k, i < k, h[i].s = s, j = h[i].d + 1
        PROVE  \E m \in 0 .. k : stack[s][j].ctx = h[m].c
    <3>1. stack[s][j] = Frame(h[i].c) BY <1>1, <2>1 DEF Placed
    <3> QED BY <3>1 DEF Frame
  <2> DEFINE T == {i \in 0 .. k : h[i].s = s /\ j <= h[i].d}
  \* Below the end of an item's part of the stack.
  <2>2. CASE T # {}
    <3>1. PICK i \in T : \A m \in T : i <= m
      <4>1. T \in SUBSET Nat OBVIOUS
      <4> HIDE DEF T
      <4> QED BY <2>2, <4>1, LeastNumber
    <3>2. i \in 0 .. k /\ h[i].s = s /\ j <= h[i].d OBVIOUS
    <3>3. i # 0 BY <1>1, <3>2, <1>3 DEF Linked
    <3>4. i \in 1 .. k /\ i - 1 \in 0 .. k /\ i - 1 < i /\ i - 1 < k BY <3>2, <3>3
    <3>5. Link(h[i - 1], h[i]) BY <1>1, <3>4 DEF Linked
    <3>6. h[i].d \in Nat /\ h[i - 1].d \in Nat BY <1>2, <3>4
    <3>7. CASE h[i - 1].s = s
      <4>1. i - 1 \notin T BY <3>1, <3>4
      <4>2. ~(j <= h[i - 1].d) BY <3>4, <3>7, <4>1
      <4>3. \/ h[i].d = h[i - 1].d + 1
            \/ h[i].c.pc \notin Entering /\ h[i].d = h[i - 1].d + 2
        BY <3>2, <3>5, <3>6, <3>7, <4>2 DEF Link, Entering
      <4>4. CASE j = h[i - 1].d + 1 BY <2>1, <3>4, <3>7, <4>4
      <4>5. CASE j # h[i - 1].d + 1
        <5>1. h[i].c.pc \notin Entering /\ j = h[i].d BY <3>2, <3>6, <4>2, <4>3, <4>5
        <5>2. stack[s][j] = SavedSp(h[i - 1].s) BY <1>1, <3>2, <3>4, <5>1 DEF Placed
        <5> QED BY <1>3, <5>2 DEF SavedSp
      <4> QED BY <4>4, <4>5
    <3>8. CASE h[i - 1].s # s
      <4>1. h[i].c.pc \notin Entering /\ h[i].d = 1
        BY <3>2, <3>5, <3>8 DEF Link, Entering
      <4>2. j = h[i].d BY <1>3, <3>2, <4>1
      <4>3. stack[s][j] = SavedSp(h[i - 1].s) BY <1>1, <3>2, <3>4, <4>1, <4>2 DEF Placed
      <4> QED BY <1>3, <4>3 DEF SavedSp
    <3> QED BY <3>7, <3>8
  \* At the end of the task's stack, when handlers are on the exception stack.
  <2>3. CASE T = {}
    <3>1. k \in 0 .. k /\ Len(stack[h[k].s]) = h[k].d BY <1>1 DEF Placed
    <3>2. h[k].s # s
      <4>1. k \notin T BY <2>3
      <4> QED BY <1>3, <3>1, <4>1
    <3>3. s = current /\ h[k].s = Exc
      <4>1. h[k].s # Exc => stack[Exc] = <<>> BY <1>1 DEF Placed
      <4>2. Len(<<>>) = 0 BY EmptyStack
      <4>3. h[k].s \in {current, Exc} BY <1>2, <3>1
      <4>4. CASE s = Exc
        <5>1. Len(stack[s]) = 0 BY <3>2, <4>1, <4>2, <4>4
        <5> QED BY <1>3, <5>1
      <4> QED BY <3>2, <4>3, <4>4
    <3>4. current # Exc BY TaskAssumption
    <3> DEFINE E == {i \in 0 .. k : h[i].s = Exc}
    <3>5. PICK i \in E : \A m \in E : i <= m
      <4>1. E \in SUBSET Nat /\ k \in E BY <3>1, <3>3
      <4> HIDE DEF E
      <4> QED BY <4>1, LeastNumber
    <3>6. i \in 0 .. k /\ h[i].s = Exc OBVIOUS
    <3>7. i # 0 BY <1>1, <3>4, <3>6 DEF Linked
    <3>8. i - 1 \in 0 .. k /\ i - 1 < i /\ i - 1 < k /\ (i - 1) + 1 = i BY <3>6, <3>7
    <3>9. i - 1 \notin E BY <3>5, <3>8
    <3>10. h[i - 1].s = s /\ h[i - 1].s # h[i].s BY <1>2, <3>3, <3>4, <3>6, <3>8, <3>9
    <3>11. Len(stack[s]) = h[i - 1].d + 1 BY <1>1, <3>8, <3>10 DEF Placed
    <3>12. i - 1 \notin T BY <2>3
    <3>13. ~(j <= h[i - 1].d) BY <3>8, <3>10, <3>12
    <3>14. h[i - 1].d \in Nat BY <1>2, <3>8
    <3>15. j = h[i - 1].d + 1 BY <1>3, <3>11, <3>13, <3>14
    <3> QED BY <2>1, <3>8, <3>10, <3>15
  <2> QED BY <2>2, <2>3
<1>4. ASSUME NEW s \in {current, Exc}, NEW c \in Frames(stack[s])
      PROVE  c \in {h[i].c : i \in 0 .. k}
  <2>1. PICK j \in DOMAIN stack[s] : stack[s][j].kind = "frame" /\ c = stack[s][j].ctx
    BY DEF Frames
  <2>2. IsStack(stack[s]) BY DEF AreStacks, Stacks
  <2>3. PICK S : stack[s] \in Seq(S) BY <2>2 DEF IsStack
  <2>4. j \in Nat /\ j > 0 /\ j <= Len(stack[s]) BY <2>1, <2>3, LenProperties
  <2> QED BY <1>3, <2>1, <2>4
<1> QED BY <1>4 DEF Seen

\* The registers of an unfinished handler are in one place: on the processor
\* or in one frame of a stack in use. None is lost, and none comes back.
OnePlaceEach == \A p \in irq_act : \E c : HandlerAt(p) = {c}

LEMMA ChainHasPlaces == TaskInv => OnePlaceEach
<1> SUFFICES ASSUME TaskInv, NEW p \in irq_act PROVE \E c : HandlerAt(p) = {c}
  BY DEF OnePlaceEach
<1>1. ctx.of # Boot BY DEF TaskInv, Booting
<1>2. PICK k \in Nat : \E h \in [0 .. k -> Items] : Shape(h, k) BY <1>1, AnyChain
<1>3. PICK h \in [0 .. k -> Items] : Shape(h, k) BY <1>2
<1>4. current \in Tasks /\ AreStacks(stack) BY DEF TaskInv, Data
<1>5. /\ Linked(h, k, current, crit) /\ Placed(h, k, stack) /\ ctx = h[k].c
      /\ irq_act = {h[i].c.of : i \in 1 .. k}
  BY <1>3 DEF Shape
<1>6. PICK i \in 1 .. k : p = h[i].c.of BY <1>5
<1>7. /\ \A m \in 1 .. k : h[m].c.of \in Nat
      /\ \A m, n \in 1 .. k : m < n => h[n].c.of < h[m].c.of
  BY <1>3, <1>4, LevelsInOrder
<1>8. \A m \in 1 .. k : h[m].c.of = p => m = i
  <2> SUFFICES ASSUME NEW m \in 1 .. k, h[m].c.of = p, m # i PROVE FALSE OBVIOUS
  <2>1. h[m].c.of \in Nat /\ h[i].c.of \in Nat /\ h[m].c.of = h[i].c.of BY <1>6, <1>7
  <2>2. m < i \/ i < m OBVIOUS
  <2> QED BY <1>7, <2>1, <2>2
<1>9. h[0].c.of # p
  <2>1. h[0].c.of = current BY <1>5 DEF Linked, OfTask
  <2>2. p \in Levels
    <3>1. Link(h[i - 1], h[i]) BY <1>5 DEF Linked
    <3> QED BY <1>6, <3>1 DEF Link, Handler
  <2> QED BY <1>4, <2>1, <2>2, LevelAssumption
<1>10. ASSUME NEW c \in {ctx} \cup Seen(stack), c.of = p PROVE c = h[i].c
  <2>1. PICK m \in 0 .. k : c = h[m].c
    <3>1. CASE c = ctx BY <1>5, <3>1
    <3>2. CASE c \in Seen(stack) BY <1>3, <1>4, <3>2, FramesAreItems
    <3> QED BY <3>1, <3>2
  <2>2. m # 0 BY <1>9, <1>10, <2>1
  <2>3. m \in 1 .. k BY <2>2
  <2> QED BY <1>8, <1>10, <2>1, <2>3
<1>11. h[i].c \in {ctx} \cup Seen(stack)
  <2>1. CASE i = k BY <1>5, <2>1
  <2>2. CASE i # k
    <3>1. i \in 0 .. k /\ i < k BY <2>2
    <3>2. /\ h[i].d < Len(stack[h[i].s])
          /\ stack[h[i].s][h[i].d + 1] = Frame(h[i].c)
          /\ h[i].s \in {current, Exc} /\ h[i].d \in Nat
      BY <1>5, <3>1 DEF Placed, Linked, Items
    <3>3. PICK s : s = stack[h[i].s] OBVIOUS
    <3>4. IsStack(s) BY <1>4, <3>2, <3>3 DEF AreStacks, Stacks
    <3>5. PICK S : s \in Seq(S) BY <3>4 DEF IsStack
    <3>6. h[i].d + 1 \in DOMAIN s BY <3>2, <3>3, <3>5, LenProperties
    <3>7. s[h[i].d + 1].kind = "frame" /\ s[h[i].d + 1].ctx = h[i].c BY <3>2, <3>3 DEF Frame
    <3>8. h[i].c \in Frames(s) BY <3>6, <3>7 DEF Frames
    <3> QED BY <3>2, <3>3, <3>8 DEF Seen
  <2> QED BY <2>1, <2>2
<1>12. HandlerAt(p) = {h[i].c}
  <2>1. HandlerAt(p) = {c \in {ctx} \cup Seen(stack) : c.of = p} BY HandlerSeen
  <2> QED BY <1>6, <1>10, <1>11, <2>1
<1> QED BY <1>12

\* Every unfinished handler has its registers in exactly one place, so the
\* list of handlers that the refinement shows is one of places, and its
\* length is that of the nesting.
THEOREM EveryHandlerHasOnePlace == Spec => []OnePlaceEach
BY ChainHasPlaces, TaskInvHolds, PTL

\* Tasks and handlers have what Multitasking promises: a task's registers and
\* nesting stand still while others execute; handlers nest, the last one to
\* begin the first to end, and nothing but that one's own steps changes where
\* it is; and the processor passes to another task only when the outermost
\* handler ends or the task itself gives it away.
THEOREM MultitaskingIsImplemented == Spec => ImplementsMultitasking
<1>1. TaskInv /\ [Next]_vars => [M!Next]_(M!vars) BY StepIsAbstract
<1>2. M!vars = <<Places, current, Nest>> BY DEF M!vars
<1> QED BY <1>1, InitIsAbstract, TaskInvHolds, PTL DEF Spec, ImplementsMultitasking, M!Spec
=============================================================================
