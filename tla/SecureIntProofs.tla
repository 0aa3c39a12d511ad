--------------------------- MODULE SecureIntProofs ---------------------------
(***************************************************************************)
(* Theorems about SecureInt, for any containers, interrupts and priorities.*)
(* The inductive invariant OwnersInv says besides the properties where an  *)
(* operation may be under way (OnlySecureRun), and that among normal       *)
(* containers a handler in the table is one of the owner's functions       *)
(* (HandlersOwned). That AUX_IRQ_SELECT stays in range needs that a loop   *)
(* over a finite set of interrupts has a first and a last one.             *)
(***************************************************************************)
EXTENDS SecureInt, FiniteSetTheorems, WellFoundedInduction, TLAPS

(* A finite set of interrupt numbers has a largest and a smallest element. *)
LEMMA LastIrq ==
  ASSUME NEW I \in SUBSET Irqs, I # {}
  PROVE  Max(I) \in I
<1> DEFINE Above(x) == {y \in I : y >= x}
           F == {Above(x) : x \in I}
<1>0. IsFiniteSet(I) /\ \A x \in I : x \in Nat
  BY IntAssumption, FS_Subset
<1>1. \A x \in I : Above(x) \in FiniteSubsetsOf(I)
  <2> TAKE x \in I
  <2>1. IsFiniteSet(Above(x))
    BY <1>0, FS_Subset
  <2> QED BY <2>1 DEF FiniteSubsetsOf
<1>2. F \subseteq FiniteSubsetsOf(I) /\ F # {}
  BY <1>1
<1>3. IsWellFoundedOn(StrictSubsetOrdering(I), FiniteSubsetsOf(I))
  BY FS_StrictSubsetOrderingWellFounded
<1>4. \E B \in F : \A C \in F : <<C, B>> \notin StrictSubsetOrdering(I)
  <2> HIDE DEF F
  <2> QED BY <1>2, <1>3, WFMin
<1>5. PICK m \in I : \A n \in I : <<Above(n), Above(m)>> \notin StrictSubsetOrdering(I)
  BY <1>4
<1>6. ASSUME NEW n \in I, n > m PROVE FALSE
  <2>1. Above(n) \subseteq Above(m) /\ m \in Above(m) /\ m \notin Above(n)
    <3>1. \A y \in I : y >= n => y >= m
      BY <1>0, <1>6
    <3>2. m >= m /\ ~(m >= n)
      BY <1>0, <1>6
    <3> QED BY <3>1, <3>2
  <2>2. <<Above(n), Above(m)>> \in StrictSubsetOrdering(I)
    BY <2>1 DEF StrictSubsetOrdering
  <2> QED BY <1>5, <2>2
<1>7. \A n \in I : m >= n
  BY <1>0, <1>6
<1> QED BY <1>7 DEF Max

LEMMA FirstIrq ==
  ASSUME NEW I \in SUBSET Irqs, I # {}
  PROVE  Min(I) \in I
<1> DEFINE Below(x) == {y \in I : y <= x}
           F == {Below(x) : x \in I}
<1>0. IsFiniteSet(I) /\ \A x \in I : x \in Nat
  BY IntAssumption, FS_Subset
<1>1. \A x \in I : Below(x) \in FiniteSubsetsOf(I)
  <2> TAKE x \in I
  <2>1. IsFiniteSet(Below(x))
    BY <1>0, FS_Subset
  <2> QED BY <2>1 DEF FiniteSubsetsOf
<1>2. F \subseteq FiniteSubsetsOf(I) /\ F # {}
  BY <1>1
<1>3. IsWellFoundedOn(StrictSubsetOrdering(I), FiniteSubsetsOf(I))
  BY FS_StrictSubsetOrderingWellFounded
<1>4. \E B \in F : \A C \in F : <<C, B>> \notin StrictSubsetOrdering(I)
  <2> HIDE DEF F
  <2> QED BY <1>2, <1>3, WFMin
<1>5. PICK m \in I : \A n \in I : <<Below(n), Below(m)>> \notin StrictSubsetOrdering(I)
  BY <1>4
<1>6. ASSUME NEW n \in I, n < m PROVE FALSE
  <2>1. Below(n) \subseteq Below(m) /\ m \in Below(m) /\ m \notin Below(n)
    <3>1. \A y \in I : y <= n => y <= m
      BY <1>0, <1>6
    <3>2. m <= m /\ ~(m <= n)
      BY <1>0, <1>6
    <3> QED BY <3>1, <3>2
  <2>2. <<Below(n), Below(m)>> \in StrictSubsetOrdering(I)
    BY <2>1 DEF StrictSubsetOrdering
  <2> QED BY <1>5, <2>2
<1>7. \A n \in I : m =< n
  BY <1>0, <1>6
<1> QED BY <1>7 DEF Min

-----------------------------------------------------------------------------
(* The invariant *)

\* Only a secure container is ever in the middle of an operation.
OnlySecureRun ==
  \A k \in DOMAIN chain :
    \/ chain[k].op = Idle
    \/ /\ chain[k].cont \in Secure
       /\ chain[k].op.irq \in Irqs /\ chain[k].op.asked \in Operations

HandlersOwned ==
  Secure = {} => \A i \in Irqs : table[i].handler \in {None, table[i].id}

OwnersInv ==
  TypeOK /\ OnlySecureRun /\ HandlersOwned /\ HandlerInItsContainer /\ LockHolds

ChainInv ==
  /\ chain \in Seq(Activities) /\ Len(chain) >= 1
  /\ OnlySecureRun /\ HandlerInItsContainer

(* The running activity, its operation and its container have their types. *)
LEMMA RunningTyped ==
  ASSUME OwnersInv
  PROVE  /\ Len(chain) \in 1 .. Len(chain) /\ DOMAIN chain = 1 .. Len(chain)
         /\ Running \in Activities /\ Running = chain[Len(chain)]
         /\ g_active_container \in Containers /\ g_active_container = Running.cont
         /\ Running.op \in Programs
         /\ Running.op # Idle =>
              /\ g_active_container \in Secure
              /\ Running.op.irq \in Irqs /\ Running.op.asked \in Operations
<1>1. chain \in Seq(Activities) /\ Len(chain) >= 1
  BY DEF OwnersInv, TypeOK
<1>2. Len(chain) \in 1 .. Len(chain) /\ DOMAIN chain = 1 .. Len(chain)
  BY <1>1
<1>3. Running = chain[Len(chain)] /\ Running \in Activities
  BY <1>1, <1>2 DEF Running, Last
<1>4. Running.cont \in Containers /\ Running.op \in Programs
  BY <1>3 DEF Activities
<1> QED BY <1>2, <1>3, <1>4 DEF OwnersInv, OnlySecureRun, g_active_container

(* The running activity may go on with any operation that it may be in.    *)
LEMMA SetOp ==
  ASSUME OwnersInv, system' = system, NEW p \in Programs,
         \/ p = Idle
         \/ /\ g_active_container \in Secure
            /\ p.irq \in Irqs /\ p.asked \in Operations,
         chain' = [chain EXCEPT ![Len(chain)].op = p]
  PROVE  ChainInv'
<1> DEFINE n == Len(chain)
<1>1. n \in 1 .. n /\ n \in DOMAIN chain /\ DOMAIN chain = 1 .. n
      /\ chain[n] \in Activities /\ g_active_container = chain[n].cont
  BY RunningTyped
<1>2. chain \in Seq(Activities)
  BY DEF OwnersInv, TypeOK
<1>3. [chain[n] EXCEPT !.op = p] \in Activities
      /\ [chain[n] EXCEPT !.op = p].cont = chain[n].cont
      /\ [chain[n] EXCEPT !.op = p].code = chain[n].code
      /\ [chain[n] EXCEPT !.op = p].op = p
  BY <1>1 DEF Activities
<1>4. chain' = [chain EXCEPT ![n] = [chain[n] EXCEPT !.op = p]]
  OBVIOUS
<1>5. Activities' = Activities /\ Secure' = Secure /\ Operations' = Operations
  BY DEF Activities, Programs, Secure, Operations
<1>6. chain' \in Seq(Activities) /\ Len(chain') = n /\ DOMAIN chain' = 1 .. n
  <2> HIDE DEF n
  <2>1. Len(chain) = n
    BY DEF n
  <2> QED BY <1>1, <1>2, <1>3, <1>4, <2>1
<1>7. \A k \in 1 .. n : chain'[k] = IF k = n THEN [chain[n] EXCEPT !.op = p] ELSE chain[k]
  BY <1>1, <1>4
<1>8. OnlySecureRun'
  <2> SUFFICES ASSUME NEW k \in 1 .. n
               PROVE  \/ chain'[k].op = Idle
                      \/ /\ chain'[k].cont \in Secure
                         /\ chain'[k].op.irq \in Irqs /\ chain'[k].op.asked \in Operations
    BY <1>5, <1>6 DEF OnlySecureRun, Idle
  <2>1. CASE k = n
    BY <2>1, <1>1, <1>3, <1>7
  <2>2. CASE k # n
    BY <2>2, <1>1, <1>7 DEF OwnersInv, OnlySecureRun
  <2> QED BY <2>1, <2>2
<1>9. HandlerInItsContainer'
  <2> SUFFICES ASSUME Secure = {}, NEW k \in 1 .. n
               PROVE  chain'[k].code = chain'[k].cont
    BY <1>5, <1>6 DEF HandlerInItsContainer
  <2>1. chain[k].code = chain[k].cont /\ chain[n].code = chain[n].cont
    BY <1>1 DEF OwnersInv, HandlerInItsContainer
  <2> QED BY <2>1, <1>1, <1>3, <1>7
<1> QED BY <1>1, <1>5, <1>6, <1>8, <1>9 DEF ChainInv

(* Each of the ways in which an operation goes on.                         *)
LEMMA GotoInv ==
  ASSUME OwnersInv, system' = system, Running.op # Idle,
         NEW pc \in {"check", "select", "write", "flag", "handler", "id"}, Goto(pc)
  PROVE  ChainInv' /\ finished' = Nothing
<1> DEFINE p == [Running.op EXCEPT !.pc = pc]
<1>1. p \in Programs /\ p.irq = Running.op.irq /\ p.asked = Running.op.asked
  BY RunningTyped DEF Programs
<1>2. chain' = [chain EXCEPT ![Len(chain)].op = p]
  BY RunningTyped DEF Goto
<1>3. g_active_container \in Secure /\ p.irq \in Irqs /\ p.asked \in Operations
  BY <1>1, RunningTyped
<1> HIDE DEF p
<1> QED BY <1>1, <1>2, <1>3, SetOp DEF Goto

LEMMA EndInv ==
  ASSUME OwnersInv, system' = system, Running.op # Idle, End
  PROVE  ChainInv' /\ finished' = <<g_active_container, Running.op.asked>>
<1>1. Idle \in Programs
  BY DEF Idle, Programs
<1> QED BY <1>1, SetOp DEF End

LEMMA NextIrqInv ==
  ASSUME OwnersInv, system' = system, Running.op # Idle, NextIrq
  PROVE  /\ ChainInv'
         /\ \/ finished' = Nothing
            \/ finished' = <<g_active_container, Running.op.asked>>
<1> DEFINE rest == {j \in Irqs : j > Running.op.irq}
<1>1. CASE rest = {}
  BY <1>1, EndInv DEF NextIrq
<1>2. CASE rest # {}
  <2> DEFINE p == [Running.op EXCEPT !.irq = Min(rest), !.pc = "check"]
  <2>1. Min(rest) \in Irqs
    BY <1>2, FirstIrq
  <2>2. p \in Programs /\ p.irq = Min(rest) /\ p.asked = Running.op.asked
    BY <2>1, RunningTyped DEF Programs
  <2>3. chain' = [chain EXCEPT ![Len(chain)].op = p]
    <3>1. chain' = [chain EXCEPT ![Len(chain)].op.irq = Min(rest),
                                 ![Len(chain)].op.pc = "check"]
      BY <1>2 DEF NextIrq
    <3>2. /\ chain[Len(chain)] = Running /\ Len(chain) \in DOMAIN chain
          /\ Running \in Activities /\ Running.op \in Programs
      BY RunningTyped
    <3> HIDE DEF rest
    <3> QED BY <3>1, <3>2
  <2>4. g_active_container \in Secure /\ p.irq \in Irqs /\ p.asked \in Operations
    BY <2>1, <2>2, RunningTyped
  <2>5. finished' = Nothing
    BY <1>2 DEF NextIrq
  <2> HIDE DEF p
  <2> QED BY <2>2, <2>3, <2>4, <2>5, SetOp
<1> QED BY <1>1, <1>2

-----------------------------------------------------------------------------
(* The steps *)

LEMMA InitOwners == Init => OwnersInv
<1> SUFFICES ASSUME Init PROVE OwnersInv
  OBVIOUS
<1>1. Max(Irqs) \in Irqs
  BY IntAssumption, LastIrq
<1>2. chain = <<[cont |-> 0, level |-> Thread, code |-> 0, op |-> Idle]>>
  BY DEF Init
<1>3. [cont |-> 0, level |-> Thread, code |-> 0, op |-> Idle] \in Activities
  BY IntAssumption DEF Activities, Programs, Idle
<1>4. chain \in Seq(Activities) /\ Len(chain) = 1 /\ DOMAIN chain = {1}
      /\ chain[1].op = Idle /\ chain[1].code = 0 /\ chain[1].cont = 0
  BY <1>2, <1>3
<1>5. Allocated \subseteq Entries /\ Free \in Entries
  <2>1. 0 \in Containers
    BY IntAssumption
  <2>2. \A c \in Containers : [id |-> c, handler |-> c, enabled |-> FALSE] \in Entries
    BY DEF Entries
  <2>3. Free \in Entries
    BY <2>1 DEF Free, Entries
  <2> QED BY <2>2, <2>3 DEF Allocated
<1>6. table \in [Irqs -> Entries]
  BY <1>5 DEF Init
<1>7. TypeOK
  BY <1>1, <1>4, <1>6, IntAssumption DEF Init, TypeOK, Nothing
<1>8. OnlySecureRun /\ HandlerInItsContainer
  BY <1>4 DEF OnlySecureRun, HandlerInItsContainer
<1>9. HandlersOwned
  <2>1. \A e \in Allocated \cup {Free} : e.handler \in {None, e.id}
    BY DEF Allocated, Free
  <2> QED BY <2>1 DEF Init, HandlersOwned
<1>10. LockHolds
  BY DEF Init, LockHolds
<1> QED BY <1>7, <1>8, <1>9, <1>10 DEF OwnersInv

\* What a step keeps of the invariant that says nothing of the chain.
TableInv ==
  /\ table \in [Irqs -> Entries] /\ irq_en \in [Irqs -> BOOLEAN]
  /\ irq_select \in Irqs /\ held \subseteq Irqs
  /\ HandlersOwned /\ LockHolds

\* The interrupts of other containers are left alone.
OthersKept ==
  \A i \in Irqs : table[i].id \notin {g_active_container, 0} =>
    table'[i] = table[i] /\ irq_en'[i] = irq_en[i]

LEMMA TrapInstallInv ==
  ASSUME OwnersInv, system' = system, NEW i \in Irqs,
         NEW f \in {g_active_container, None}, TrapInstall(i, f)
  PROVE  TableInv' /\ OthersKept
<1>1. g_active_container \in Containers /\ 0 \in Containers
  BY RunningTyped, IntAssumption
<1>2. CASE Installable(i)
  <2> DEFINE e == [table[i] EXCEPT !.handler = f,
                                   !.id = IF f = None THEN 0 ELSE g_active_container]
  <2>1. /\ table \in [Irqs -> Entries] /\ irq_en \in [Irqs -> BOOLEAN]
        /\ irq_select \in Irqs /\ held \subseteq Irqs
    BY DEF OwnersInv, TypeOK
  <2>2. e \in Entries /\ e.handler \in {None, e.id}
    <3>1. table[i] \in Entries
      BY <2>1
    <3>2. f # None => f = g_active_container
      OBVIOUS
    <3> QED BY <1>1, <3>1, <3>2 DEF Entries
  <2>3. table' = [table EXCEPT ![i] = e]
    BY <1>2, <2>1 DEF TrapInstall
  <2>4. held' = held \ {i} /\ irq_en' = irq_en /\ irq_select' = irq_select
    BY <1>2 DEF TrapInstall
  <2> HIDE DEF e
  <2>5. table' \in [Irqs -> Entries]
    BY <2>1, <2>2, <2>3
  <2>6. \A j \in Irqs : table'[j] = IF j = i THEN e ELSE table[j]
    BY <2>1, <2>3
  <2>7. HandlersOwned'
    BY <2>2, <2>6 DEF OwnersInv, HandlersOwned, Secure
  <2>8. LockHolds'
    BY <2>4, <2>6 DEF OwnersInv, TypeOK, LockHolds, Secure
  <2>9. OthersKept
    BY <1>2, <2>4, <2>6 DEF OthersKept, Installable
  <2> QED BY <2>1, <2>4, <2>5, <2>7, <2>8, <2>9 DEF TableInv
<1>3. CASE ~Installable(i)
  <2>1. UNCHANGED <<table, irq_en, irq_select, held>>
    BY <1>3 DEF TrapInstall
  <2> QED BY <2>1 DEF OwnersInv, TypeOK, TableInv, OthersKept, HandlersOwned, LockHolds,
                      Secure
<1> QED BY <1>2, <1>3

LEMMA TrapSetInv ==
  ASSUME OwnersInv, system' = system, ~IsSecure(g_active_container),
         NEW i \in Irqs, NEW on \in BOOLEAN, TrapSet(i, on)
  PROVE  TableInv' /\ OthersKept
<1>1. CASE secure_int_ac_check(i)
  <2> DEFINE e == [table[i] EXCEPT !.enabled = on]
  <2>1. /\ table \in [Irqs -> Entries] /\ irq_en \in [Irqs -> BOOLEAN]
        /\ irq_select \in Irqs /\ held \subseteq Irqs
    BY DEF OwnersInv, TypeOK
  <2>2. e \in Entries /\ e.handler = table[i].handler /\ e.id = table[i].id
    <3>1. table[i] \in Entries
      BY <2>1
    <3> QED BY <3>1 DEF Entries
  <2>3. table' = [table EXCEPT ![i] = e] /\ irq_en' = [irq_en EXCEPT ![i] = on]
        /\ held' = held \ {i}
    BY <1>1, <2>1 DEF TrapSet
  <2>4. irq_select' \in Irqs
    BY <1>1, LastIrq DEF TrapSet, Selected
  <2> HIDE DEF e
  <2>5. table' \in [Irqs -> Entries] /\ irq_en' \in [Irqs -> BOOLEAN]
    BY <2>1, <2>2, <2>3
  <2>6. \A j \in Irqs : /\ table'[j] = IF j = i THEN e ELSE table[j]
                        /\ irq_en'[j] = IF j = i THEN on ELSE irq_en[j]
    BY <2>1, <2>3
  <2>7. HandlersOwned'
    BY <2>2, <2>6 DEF OwnersInv, HandlersOwned, Secure
  <2>8. LockHolds'
    BY <2>3, <2>6 DEF OwnersInv, TypeOK, LockHolds, Secure
  <2>9. OthersKept
    BY <1>1, <2>6 DEF OthersKept, secure_int_ac_check
  <2> QED BY <2>1, <2>3, <2>4, <2>5, <2>7, <2>8, <2>9 DEF TableInv
<1>2. CASE ~secure_int_ac_check(i)
  <2>1. UNCHANGED <<table, irq_en, irq_select, held>>
    BY <1>2 DEF TrapSet
  <2> QED BY <2>1 DEF OwnersInv, TypeOK, TableInv, OthersKept, HandlersOwned, LockHolds,
                      Secure
<1> QED BY <1>1, <1>2

LEMMA TrapLockInv ==
  ASSUME OwnersInv, system' = system, NEW on \in BOOLEAN,
         NEW I \in SUBSET {i \in Irqs : Lockable(i)}, TrapLock(I, on)
  PROVE  TableInv' /\ OthersKept
<1>1. /\ table \in [Irqs -> Entries] /\ irq_en \in [Irqs -> BOOLEAN]
      /\ irq_select \in Irqs /\ held \subseteq Irqs
  BY DEF OwnersInv, TypeOK
<1>2. \A i \in I : i \in Irqs /\ table[i].id \in {g_active_container, 0}
  BY DEF Lockable
<1>3. /\ irq_en' = [i \in Irqs |-> IF i \in I THEN on ELSE irq_en[i]]
      /\ held' = IF on THEN held \ Owned(I) ELSE held \cup Owned(I)
      /\ table' = table
  BY DEF TrapLock
<1>4. irq_select' \in Irqs
  BY <1>1, <1>2, LastIrq DEF TrapLock, Selected
<1>5. Owned(I) \subseteq Irqs
  BY <1>2 DEF Owned
<1>6. irq_en' \in [Irqs -> BOOLEAN] /\ held' \subseteq Irqs
  BY <1>1, <1>3, <1>5
<1>7. HandlersOwned'
  BY <1>3 DEF OwnersInv, HandlersOwned, Secure
<1>8. LockHolds'
  <2> SUFFICES ASSUME Secure = {}, NEW i \in held', table[i].id # 0
               PROVE  ~irq_en'[i]
    BY <1>3 DEF LockHolds, Secure
  <2>0. i \in Irqs
    BY <1>6
  <2>1. CASE on
    <3>1. i \in held /\ i \notin Owned(I) /\ ~irq_en[i]
      BY <1>3, <2>1 DEF OwnersInv, LockHolds
    <3>2. i \notin I
      BY <1>2, <3>1 DEF Owned
    <3> QED BY <1>3, <2>0, <3>1, <3>2
  <2>2. CASE ~on
    <3>1. i \in I \/ (i \in held /\ ~irq_en[i])
      BY <1>3, <2>2 DEF OwnersInv, LockHolds, Owned
    <3> QED BY <1>3, <2>0, <2>2, <3>1
  <2> QED BY <2>1, <2>2
<1>9. OthersKept
  BY <1>2, <1>3 DEF OthersKept
<1> QED BY <1>1, <1>3, <1>4, <1>6, <1>7, <1>8, <1>9 DEF TableInv

(* Whatever a normal container asks for, it asks for in one step.          *)
LEMMA TrapInv ==
  ASSUME OwnersInv, NEW op \in Operations, NEW i \in Irqs, Trap(op, i)
  PROVE  TableInv' /\ OthersKept
<1>1. system' = system /\ ~IsSecure(g_active_container)
  BY DEF Trap
<1>2. CASE TrapInstall(i, g_active_container) \/ TrapInstall(i, None)
  BY <1>1, <1>2, TrapInstallInv
<1>3. CASE TrapSet(i, TRUE) \/ TrapSet(i, FALSE)
  BY <1>1, <1>3, TrapSetInv
<1>4. CASE TrapLock({j \in Irqs : Lockable(j)}, FALSE)
  BY <1>1, <1>4, TrapLockInv
<1>5. CASE TrapLock({j \in Irqs : Unlockable(j)}, TRUE)
  <2>1. {j \in Irqs : Unlockable(j)} \in SUBSET {j \in Irqs : Lockable(j)}
    BY DEF Unlockable
  <2> QED BY <1>1, <1>5, <2>1, TrapLockInv
<1> QED BY <1>2, <1>3, <1>4, <1>5 DEF Trap

\* Everything but the chain keeps its type.
StateTyped ==
  /\ table \in [Irqs -> Entries] /\ irq_en \in [Irqs -> BOOLEAN]
  /\ irq_select \in Irqs /\ held \subseteq Irqs

(* One access of a secure container, in the middle of its operation.       *)
LEMMA AccessInv ==
  ASSUME OwnersInv, Check \/ SetHandler \/ SetId \/ Select \/ Write \/ SetEnabled
  PROVE  /\ StateTyped' /\ ChainInv' /\ system' = system
         /\ Running.op # Idle
         /\ \/ finished' = Nothing
            \/ finished' = <<g_active_container, Running.op.asked>>
<1> DEFINE i == Running.op.irq
<1>0. StateTyped
  BY DEF OwnersInv, TypeOK, StateTyped
<1>1. Running.op # Idle /\ system' = system
  BY DEF Check, SetHandler, SetId, Select, Write, SetEnabled, Idle
<1>2. i \in Irqs /\ g_active_container \in Containers /\ 0 \in Containers
  BY <1>1, RunningTyped, IntAssumption
<1>3. table[i] \in Entries
  BY <1>0, <1>2 DEF StateTyped
<1>4. \/ \E pc \in {"check", "select", "write", "flag", "handler", "id"} : Goto(pc)
      \/ End \/ NextIrq
  BY DEF Check, SetHandler, SetId, Select, Write, SetEnabled
<1>5. /\ ChainInv'
      /\ \/ finished' = Nothing
         \/ finished' = <<g_active_container, Running.op.asked>>
  BY <1>1, <1>4, GotoInv, EndInv, NextIrqInv
<1>6. StateTyped'
  <2>1. CASE Check
    BY <1>0, <2>1 DEF Check, StateTyped
  <2>2. CASE SetHandler
    <3> DEFINE h == IF Running.op.body = "install" THEN g_active_container ELSE None
    <3>1. [table[i] EXCEPT !.handler = h] \in Entries
      BY <1>2, <1>3 DEF Entries
    <3>2. table' = [table EXCEPT ![i] = [table[i] EXCEPT !.handler = h]]
      BY <1>2, <2>2 DEF SetHandler
    <3> QED BY <1>0, <1>2, <2>2, <3>1, <3>2 DEF SetHandler, StateTyped
  <2>3. CASE SetId
    <3> DEFINE c == IF Running.op.body = "install" THEN g_active_container ELSE 0
    <3>1. [table[i] EXCEPT !.id = c] \in Entries
      BY <1>2, <1>3 DEF Entries
    <3>2. table' = [table EXCEPT ![i] = [table[i] EXCEPT !.id = c]]
      BY <1>2, <2>3 DEF SetId
    <3> QED BY <1>0, <1>2, <2>3, <3>1, <3>2 DEF SetId, StateTyped
  <2>4. CASE Select
    BY <1>0, <1>2, <2>4 DEF Select, StateTyped
  <2>5. CASE Write
    BY <1>0, <1>2, <2>5 DEF Write, StateTyped, Owned
  <2>6. CASE SetEnabled
    <3> DEFINE on == Running.op.body = "enable"
    <3>1. [table[i] EXCEPT !.enabled = on] \in Entries
      BY <1>3 DEF Entries
    <3>2. table' = [table EXCEPT ![i] = [table[i] EXCEPT !.enabled = on]]
      BY <1>2, <2>6 DEF SetEnabled
    <3> QED BY <1>0, <1>2, <2>6, <3>1, <3>2 DEF SetEnabled, StateTyped
  <2> QED BY <2>1, <2>2, <2>3, <2>4, <2>5, <2>6
<1> QED BY <1>1, <1>5, <1>6

(* A container is entered, for an interrupt or by a call, and left.        *)
LEMMA EnterInv ==
  ASSUME OwnersInv, system' = system, NEW a \in Activities, a.op = Idle,
         Secure = {} => a.code = a.cont, chain' = Append(chain, a)
  PROVE  ChainInv'
<1> DEFINE n == Len(chain)
<1>1. chain \in Seq(Activities) /\ n \in Nat /\ DOMAIN chain = 1 .. n
  BY DEF OwnersInv, TypeOK
<1>2. chain' \in Seq(Activities) /\ Len(chain') = n + 1 /\ DOMAIN chain' = 1 .. n + 1
  BY <1>1
<1>3. \A k \in 1 .. n + 1 : chain'[k] = IF k = n + 1 THEN a ELSE chain[k]
  BY <1>1
<1>4. \A k \in 1 .. n + 1 : k # n + 1 => k \in DOMAIN chain
  BY <1>1
<1>5. Activities' = Activities /\ Secure' = Secure /\ Operations' = Operations
  BY DEF Activities, Programs, Secure, Operations
<1>6. n + 1 >= 1
  BY <1>1
<1> HIDE DEF n
<1>7. OnlySecureRun'
  BY <1>2, <1>3, <1>4, <1>5 DEF OwnersInv, OnlySecureRun, Idle
<1>8. HandlerInItsContainer'
  BY <1>2, <1>3, <1>4, <1>5 DEF OwnersInv, HandlerInItsContainer
<1> QED BY <1>2, <1>5, <1>6, <1>7, <1>8 DEF ChainInv

LEMMA LeaveInv ==
  ASSUME OwnersInv, Leave
  PROVE  ChainInv'
<1> DEFINE n == Len(chain)
<1>1. chain \in Seq(Activities) /\ n \in Nat /\ n > 1 /\ DOMAIN chain = 1 .. n
  BY DEF OwnersInv, TypeOK, Leave
<1>2. chain' = SubSeq(chain, 1, n - 1)
  BY DEF Leave, Front
<1>3. chain' \in Seq(Activities) /\ Len(chain') = n - 1 /\ DOMAIN chain' = 1 .. n - 1
      /\ \A k \in 1 .. n - 1 : chain'[k] = chain[k]
  BY <1>1, <1>2
<1>4. 1 .. n - 1 \subseteq DOMAIN chain /\ n - 1 >= 1
  BY <1>1
<1>5. Activities' = Activities /\ Secure' = Secure /\ Operations' = Operations
  BY DEF Leave, Activities, Programs, Secure, Operations
<1> HIDE DEF n
<1>6. OnlySecureRun'
  BY <1>3, <1>4, <1>5 DEF OwnersInv, OnlySecureRun, Idle
<1>7. HandlerInItsContainer'
  BY <1>3, <1>4, <1>5 DEF OwnersInv, HandlerInItsContainer
<1> QED BY <1>3, <1>4, <1>5, <1>6, <1>7 DEF ChainInv

-----------------------------------------------------------------------------
(* The theorems *)

(* What the parts of a step show is the invariant after it.                *)
LEMMA OwnersInvAfter ==
  ASSUME system' \in Systems, ChainInv', StateTyped', HandlersOwned', LockHolds',
         (finished \in Containers \X (Operations \cup {"none"}))'
  PROVE  OwnersInv'
BY DEF ChainInv, StateTyped, OwnersInv, TypeOK

LEMMA OwnersStep ==
  ASSUME OwnersInv, [Next]_vars PROVE OwnersInv'
<1>1. CASE UNCHANGED vars
  BY <1>1 DEF vars, OwnersInv, TypeOK, Activities, Programs, OnlySecureRun, HandlersOwned,
              HandlerInItsContainer, LockHolds, Secure, Operations, Idle
<1>2. ASSUME Next PROVE OwnersInv'
  <2>0. /\ system \in Systems /\ g_active_container \in Containers /\ 0 \in Containers
        /\ chain \in Seq(Activities) /\ Len(chain) >= 1
        /\ StateTyped /\ OnlySecureRun /\ HandlerInItsContainer
        /\ HandlersOwned /\ LockHolds
    BY RunningTyped, IntAssumption DEF OwnersInv, TypeOK, StateTyped
  <2>1. ASSUME NEW op \in Operations, NEW i \in Irqs, Trap(op, i)
        PROVE  OwnersInv'
    <3>1. TableInv' /\ system' = system /\ chain' = chain
          /\ finished' = <<g_active_container, op>>
      BY <2>1, TrapInv DEF Trap
    <3>2. Activities' = Activities /\ Secure' = Secure /\ Operations' = Operations
      BY <3>1 DEF Activities, Programs, Secure, Operations
    <3>3. ChainInv'
      BY <2>0, <3>1, <3>2 DEF ChainInv, OnlySecureRun, HandlerInItsContainer, Idle
    <3>4. (finished \in Containers \X (Operations \cup {"none"}))'
      BY <2>0, <3>1, <3>2
    <3> QED BY <2>0, <3>1, <3>3, <3>4, OwnersInvAfter DEF TableInv, StateTyped
  <2>2. ASSUME NEW op \in Operations, NEW i \in Irqs, Start(op, i)
        PROVE  OwnersInv'
    <3> DEFINE p == [asked |-> op, body |-> Body(op), pc |-> "check",
                     irq |-> IF op \in {"lock", "unlock"} THEN Min(Irqs) ELSE i]
    <3>1. /\ system' = system /\ chain' = [chain EXCEPT ![Len(chain)].op = p]
          /\ finished' = Nothing /\ g_active_container \in Secure
          /\ UNCHANGED <<table, irq_en, irq_select, held>>
      BY <2>2 DEF Start, IsSecure
    <3>2. Min(Irqs) \in Irqs
      BY FirstIrq, IntAssumption
    <3>3. op \in {"install", "release", "enable", "disable", "lock", "unlock"}
      BY <2>0, IntAssumption DEF Operations
    <3>4. p \in Programs /\ p.irq \in Irqs /\ p.asked \in Operations
      BY <3>2, <3>3 DEF Programs, Body
    <3> HIDE DEF p
    <3>5. ChainInv'
      BY <3>1, <3>4, SetOp
    <3>6. StateTyped' /\ HandlersOwned' /\ LockHolds'
      BY <2>0, <3>1 DEF StateTyped, HandlersOwned, LockHolds, Secure
    <3>7. (finished \in Containers \X (Operations \cup {"none"}))'
      BY <2>0, <3>1 DEF Nothing
    <3> QED BY <2>0, <3>1, <3>5, <3>6, <3>7, OwnersInvAfter
  <2>3. ASSUME Check \/ SetHandler \/ SetId \/ Select \/ Write \/ SetEnabled
        PROVE  OwnersInv'
    <3>1. /\ StateTyped' /\ ChainInv' /\ system' = system
          /\ Running.op # Idle
          /\ \/ finished' = Nothing
             \/ finished' = <<g_active_container, Running.op.asked>>
      BY <2>3, AccessInv
    <3>2. Secure' # {} /\ Operations' = Operations /\ Running.op.asked \in Operations
      BY <3>1, RunningTyped DEF Secure, Operations
    <3>3. HandlersOwned' /\ LockHolds'
      BY <3>2 DEF HandlersOwned, LockHolds
    <3>4. (finished \in Containers \X (Operations \cup {"none"}))'
      BY <2>0, <3>1, <3>2 DEF Nothing
    <3> QED BY <2>0, <3>1, <3>3, <3>4, OwnersInvAfter
  <2>4. ASSUME NEW i \in Irqs, InterruptNotInstalled(i) PROVE OwnersInv'
    <3>1. /\ system' = system /\ chain' = chain /\ table' = table /\ held' = held
          /\ irq_select' = i /\ irq_en' = [irq_en EXCEPT ![i] = FALSE]
          /\ finished' = Nothing
      BY <2>4 DEF InterruptNotInstalled
    <3>2. Activities' = Activities /\ Secure' = Secure /\ Operations' = Operations
      BY <3>1 DEF Activities, Programs, Secure, Operations
    <3>3. ChainInv'
      BY <2>0, <3>1, <3>2 DEF ChainInv, OnlySecureRun, HandlerInItsContainer, Idle
    <3>4. StateTyped' /\ HandlersOwned' /\ LockHolds'
      BY <2>0, <3>1, <3>2 DEF StateTyped, HandlersOwned, LockHolds
    <3>5. (finished \in Containers \X (Operations \cup {"none"}))'
      BY <2>0, <3>1 DEF Nothing
    <3> QED BY <2>0, <3>1, <3>3, <3>4, <3>5, OwnersInvAfter
  <2>5. ASSUME NEW a \in Activities, a.op = Idle, Secure = {} => a.code = a.cont,
               chain' = Append(chain, a), finished' = Nothing,
               UNCHANGED <<system, table, irq_en, irq_select, held>>
        PROVE  OwnersInv'
    <3>1. ChainInv'
      BY <2>5, EnterInv
    <3>2. StateTyped' /\ HandlersOwned' /\ LockHolds'
      BY <2>0, <2>5 DEF StateTyped, HandlersOwned, LockHolds, Secure
    <3>3. (finished \in Containers \X (Operations \cup {"none"}))'
      BY <2>0, <2>5 DEF Nothing
    <3> QED BY <2>0, <2>5, <3>1, <3>2, <3>3, OwnersInvAfter
  <2>6. ASSUME NEW i \in Irqs, InterruptEnter(i) PROVE OwnersInv'
    <3> DEFINE a == [cont |-> table[i].id, level |-> Pri[i],
                     code |-> table[i].handler, op |-> Idle]
    <3>1. table[i] \in Entries /\ table[i].handler # None
      BY <2>0, <2>6 DEF StateTyped, InterruptEnter
    <3>2. table[i].id \in Containers /\ table[i].handler \in Containers
      BY <3>1 DEF Entries
    <3>3. Idle \in Programs
      BY DEF Idle, Programs
    <3>4. a \in Activities /\ a.op = Idle
      BY <3>2, <3>3 DEF Activities
    <3>5. Secure = {} => a.code = a.cont
      BY <2>0, <3>1 DEF HandlersOwned
    <3> QED BY <2>5, <2>6, <3>4, <3>5 DEF InterruptEnter
  <2>7. ASSUME NEW d \in Containers, Call(d) PROVE OwnersInv'
    <3> DEFINE a == [cont |-> d, level |-> Thread, code |-> d, op |-> Idle]
    <3>1. Idle \in Programs
      BY DEF Idle, Programs
    <3>2. a \in Activities /\ a.op = Idle /\ a.code = a.cont
      BY <3>1 DEF Activities
    <3> QED BY <2>5, <2>7, <3>2 DEF Call
  <2>8. CASE Leave
    <3>1. ChainInv'
      BY <2>8, LeaveInv
    <3>2. StateTyped' /\ HandlersOwned' /\ LockHolds'
      BY <2>0, <2>8 DEF Leave, StateTyped, HandlersOwned, LockHolds, Secure
    <3>3. (finished \in Containers \X (Operations \cup {"none"}))' /\ system' = system
      BY <2>0, <2>8 DEF Leave, Nothing
    <3> QED BY <2>0, <3>1, <3>2, <3>3, OwnersInvAfter
  <2> QED BY <1>2, <2>1, <2>2, <2>3, <2>4, <2>6, <2>7, <2>8 DEF Next
<1> QED BY <1>1, <1>2

LEMMA AlwaysOwners == Spec => []OwnersInv
BY InitOwners, OwnersStep, PTL DEF Spec

(* The table, the chain of activities and the interrupt unit keep their    *)
(* types; AUX_IRQ_SELECT never names an interrupt outside the table.       *)
THEOREM TypeCorrect == Spec => []TypeOK
BY AlwaysOwners, PTL DEF OwnersInv

(* Among normal containers every handler runs in the container that        *)
(* installed it.                                                           *)
THEOREM HandlersStayHome == Spec => []HandlerInItsContainer
BY AlwaysOwners, PTL DEF OwnersInv

(* Among normal containers what cpu_lock disabled stays disabled until its *)
(* owner enables it, except for the background container's interrupts.     *)
THEOREM LocksHold == Spec => []LockHolds
BY AlwaysOwners, PTL DEF OwnersInv

(* No operation of a normal container reaches another one's interrupts.    *)
THEOREM NormalsNeverIntrude == Spec => NormalsKeepToTheirs
<1>1. OwnersInv /\ [Next]_vars =>
        [finished' # Nothing /\ ~IsSecure(g_active_container) => OthersKept]_vars
  <2> SUFFICES ASSUME OwnersInv, Next, finished' # Nothing,
                      ~IsSecure(g_active_container)
               PROVE  OthersKept
    OBVIOUS
  <2>1. ASSUME NEW op \in Operations, NEW i \in Irqs, Trap(op, i) PROVE OthersKept
    BY <2>1, TrapInv
  <2>2. CASE Check \/ SetHandler \/ SetId \/ Select \/ Write \/ SetEnabled
    BY <2>2, AccessInv, RunningTyped DEF IsSecure
  <2> QED BY <2>1, <2>2 DEF Next, Start, InterruptNotInstalled, InterruptEnter, Call, Leave
<1>2. [finished' # Nothing /\ ~IsSecure(g_active_container) => OthersKept]_vars
      <=> [finished' # Nothing /\ ~IsSecure(g_active_container) =>
             \A i \in Irqs : table[i].id \notin {g_active_container, 0} =>
               table'[i] = table[i] /\ irq_en'[i] = irq_en[i]]_vars
  BY DEF OthersKept
<1> QED BY <1>1, <1>2, AlwaysOwners, PTL DEF Spec, NormalsKeepToTheirs

(* Where only normal containers unlock, whose unlock is a trap, an unlock  *)
(* enables again whatever the container has enabled.                       *)
THEOREM UnlocksEnable ==
  ASSUME \A s \in Systems : s.secure = {} \/ "unlock" \notin s.operations
  PROVE  Spec => []UnlockEnables
<1>1. Init => UnlockEnables
  BY DEF Init, Nothing, UnlockEnables
<1>2. OwnersInv /\ UnlockEnables /\ [Next]_vars => UnlockEnables'
  <2> SUFFICES ASSUME OwnersInv, UnlockEnables, [Next]_vars PROVE UnlockEnables'
    OBVIOUS
  <2>1. CASE UNCHANGED vars
    BY <2>1 DEF vars, UnlockEnables
  <2>2. CASE finished' = Nothing
    BY <2>2 DEF Nothing, UnlockEnables
  <2>3. ASSUME NEW op \in Operations, NEW i \in Irqs, Trap(op, i)
        PROVE  UnlockEnables'
    <3>1. finished' = <<g_active_container, op>>
      BY <2>3 DEF Trap
    <3>2. CASE op # "unlock"
      BY <3>1, <3>2 DEF UnlockEnables
    <3>3. CASE op = "unlock"
      <4>1. TrapLock({j \in Irqs : Unlockable(j)}, TRUE)
        BY <2>3, <3>3 DEF Trap
      <4>2. /\ table' = table
            /\ \A j \in Irqs : Unlockable(j) => irq_en'[j]
        BY <4>1 DEF TrapLock
      <4> QED BY <3>1, <4>2 DEF UnlockEnables, Unlockable, Lockable
    <3> QED BY <3>2, <3>3
  <2>4. CASE Check \/ SetHandler \/ SetId \/ Select \/ Write \/ SetEnabled
    <3>1. Running.op # Idle
          /\ \/ finished' = Nothing
             \/ finished' = <<g_active_container, Running.op.asked>>
      BY <2>4, AccessInv
    <3>2. Secure # {} /\ Running.op.asked \in Operations
      BY <3>1, RunningTyped
    <3>3. system \in Systems
      BY DEF OwnersInv, TypeOK
    <3>4. "unlock" \notin Operations
      BY <3>2, <3>3 DEF Secure, Operations
    <3>5. CASE finished' = <<g_active_container, Running.op.asked>>
      BY <3>2, <3>4, <3>5 DEF UnlockEnables
    <3> QED BY <2>2, <3>1, <3>5
  <2> QED BY <2>1, <2>2, <2>3, <2>4
          DEF Next, Start, InterruptNotInstalled, InterruptEnter, Call, Leave
<1> QED BY <1>1, <1>2, AlwaysOwners, PTL DEF Spec
=============================================================================
