---------------------------- MODULE BootSwapProofs ----------------------------
(***************************************************************************)
(* Proofs about the image swap, for any images, any sizes and any number   *)
(* of sectors: the variables keep their types, no power loss costs an      *)
(* image, and the boot loader never fails.                                 *)
(*                                                                         *)
(* The inductive invariant says, for each flash operation, which area      *)
(* holds which sector of the two images (Point) and what the trailers      *)
(* tell of it (Told): what the next start reads from flash is where the    *)
(* exchange really stands.                                                 *)
(***************************************************************************)
EXTENDS BootSwap, TLAPS

P == seen.current
Q == seen.other

(* Sector k of an image, if the image has one, is whole in this area.      *)
Put(a, img, k)  == k < Size[img] => data[a][k] = Whole(img, k)
Spare(img, k)   == k < Size[img] => data[Scratch][0] = Whole(img, k)

(* The exchange of n sectors stands at the i-th from the end, in state st. *)
Point(n, i, st) ==
  LET s == n - 1 - i
  IN  /\ P \in Images /\ Q \in Images
      /\ Size[P] <= n /\ Size[Q] <= n
      /\ \A k \in Indices :
           /\ k < s => Put(Slot0, P, k) /\ Put(Slot1, Q, k)
           /\ k > s => Put(Slot1, P, k) /\ Put(Slot0, Q, k)
      /\ i < n => /\ st # 2 => Put(Slot0, P, s)
                  /\ st = 0 => Put(Slot1, Q, s)
                  /\ st # 0 => Spare(Q, s)
                  /\ st = 2 => Put(Slot1, P, s)

(* What the flash tells of an exchange that stands there.                  *)
InSlot0(n, p) ==
  /\ trailer[Slot0].magic /\ ~trailer[Slot0].copy_done
  /\ trailer[Slot0].size = n /\ trailer[Slot0].status = 1 .. p
InScratch(n, p) ==
  /\ n = NumSectors
  /\ trailer[Scratch].magic
  /\ trailer[Scratch].size = n /\ trailer[Scratch].status = 1 .. p
Told(n, i, st) ==
  \/ /\ InSlot0(n, 3 * i + st)
     /\ i = 0 /\ n = NumSectors => st = 2 /\ InScratch(n, 2)
  \/ ~trailer[Slot0].magic /\ i = 0 /\ InScratch(n, st)

(* No exchange is under way.                                               *)
Intact ==
  /\ P \in Images /\ Holds(Slot0, P)
  /\ Valid(Slot1) <=> Q \in Images
  /\ Q \in Images => Holds(Slot1, Q)
Silent ==
  /\ trailer[Slot0].magic => trailer[Slot0].copy_done \/ trailer[Slot0].status = {}
  /\ ~trailer[Slot0].magic =>
       /\ trailer[Slot0].status = {}
       /\ trailer[Scratch].magic => trailer[Scratch].status = {}
Fresh == trailer[Slot0].magic => trailer[Slot0].copy_done
(* The exchange cut off before its first status is asked for again.        *)
Redo  == trailer[Slot1].magic /\ Valid(Slot1) /\ SwapSize < NumSectors

-----------------------------------------------------------------------------
Off ==
  \/ Intact /\ Silent /\ (Fresh \/ Redo)
  \/ \E n \in 1 .. NumSectors, i \in 0 .. NumSectors, st \in 0 .. 2 :
       /\ i <= n /\ i + st > 0 /\ (i = n => st = 0)
       /\ Told(n, i, st) /\ Point(n, i, st)
       /\ i > 0 \/ st = 2 => ~trailer[Slot1].magic

AtRest == Intact /\ Silent /\ Fresh /\ seen = Slots

Discarding == Intact /\ Silent /\ Fresh /\ ~Valid(Slot1) /\ swap_type = "fail"

Exchanged ==
  /\ bs.idx = bs.size /\ InSlot0(bs.size, 3 * bs.size) /\ Point(bs.size, bs.size, 0)
  /\ ~trailer[Slot1].magic

Finishing ==
  \/ swap_type \in {"none", "fail"} /\ Intact /\ Silent /\ Fresh
  \/ swap_type \in {"test", "perm", "revert", "resumed"} /\ Exchanged

State0 == {"erase scratch", "copy to scratch", "erase slot0 trailer", "init image_ok",
           "init size", "init magic", "status 1"}
State1 == {"erase slot1", "copy to slot1", "erase slot1 trailer", "status 2"}
State2 == {"erase slot0", "copy to slot0", "move status", "move image_ok", "move size",
           "move magic", "status 0"}

(* The first sector of the exchange, before its first status is written.   *)
First ==
  /\ Intact /\ Silent
  /\ Valid(Slot1) /\ bs.size = SwapSize
  /\ swap_type \in {"test", "perm", "revert"}
  /\ swap_type # "revert" => trailer[Slot1].magic
  /\ use_scratch => Fresh
  /\ pc # "erase scratch" => trailer[Scratch].status = {}
  /\ pc \notin {"erase scratch", "copy to scratch"} => Spare(Q, Sector)
  /\ pc = "erase slot0 trailer" => ~use_scratch
  /\ pc \in {"init image_ok", "init size", "init magic", "status 1"} /\ ~use_scratch =>
       trailer[Slot0].status = {} /\ ~trailer[Slot0].copy_done
  /\ pc \in {"init magic", "status 1"} => trailer[StatusArea].size = bs.size
  /\ pc = "status 1" => trailer[StatusArea].magic

Later ==
  /\ pc \in {"erase scratch", "copy to scratch", "status 1"}
  /\ InSlot0(bs.size, 3 * bs.idx) /\ Point(bs.size, bs.idx, 0)
  /\ pc = "status 1" => Spare(Q, Sector)
  /\ ~trailer[Slot1].magic

Saved ==
  /\ Point(bs.size, bs.idx, 1)
  /\ IF use_scratch THEN InScratch(bs.size, 1) /\ Fresh ELSE InSlot0(bs.size, 3 * bs.idx + 1)
  /\ bs.idx > 0 => ~trailer[Slot1].magic
  /\ pc = "copy to slot1" /\ Sector = Last => ~trailer[Slot1].magic
  /\ pc = "erase slot1 trailer" => bs.idx = 0 /\ ~use_scratch
  /\ pc = "status 2" => ~trailer[Slot1].magic
  /\ pc \in {"erase slot1 trailer", "status 2"} => Put(Slot1, P, Sector)

Moved ==
  /\ Point(bs.size, bs.idx, 2)
  /\ ~trailer[Slot1].magic
  /\ use_scratch => InScratch(bs.size, 2)
  /\ ~use_scratch \/ pc = "status 0" => InSlot0(bs.size, 3 * bs.idx + 2)
  /\ use_scratch /\ pc = "erase slot0" => Fresh \/ InSlot0(bs.size, 2)
  /\ use_scratch /\ pc \notin {"erase slot0", "status 0"} =>
       ~trailer[Slot0].magic /\ ~trailer[Slot0].copy_done
  /\ pc \in {"move status", "move image_ok", "move size", "move magic"} => use_scratch
  /\ pc \in {"move image_ok", "move size", "move magic"} => trailer[Slot0].status = 1 .. 2
  /\ pc = "move magic" => trailer[Slot0].size = bs.size
  /\ pc \notin {"erase slot0", "copy to slot0"} => Put(Slot0, Q, Sector)

Exchanging ==
  /\ bs.size \in 1 .. NumSectors /\ bs.idx < bs.size
  /\ swap_type \in {"test", "perm", "revert", "resumed"}
  /\ pc \in State0 => IF bs.idx = 0 THEN First ELSE Later
  /\ pc \in State1 => Saved
  /\ pc \in State2 => Moved

Types ==
  /\ data \in [Areas -> [Indices -> Sectors]]
  /\ trailer \in [Areas -> Trailers]
  /\ bs \in [idx : 0 .. NumSectors, size : 0 .. NumSectors]

SwapInv ==
  /\ Types
  /\ pc \in {"off", "run", "pending", "validate", "discard", "finish", "copy_done"}
            \cup State0 \cup State1 \cup State2
  /\ pc = "off" => Off
  /\ Settled => AtRest
  /\ pc = "discard" => Discarding
  /\ pc = "finish" => Finishing
  /\ pc = "copy_done" => swap_type \in {"test", "perm", "revert"} /\ Exchanged
  /\ pc \in State0 \cup State1 \cup State2 => Exchanging

-----------------------------------------------------------------------------
USE DEF Slot0, Slot1, Scratch, Areas

LEMMA Numbers ==
  /\ NumSectors \in Nat \ {0} /\ Indices = 0 .. NumSectors - 1 /\ 0 \in Indices
  /\ \A img \in Images : Size[img] \in 1 .. NumSectors
  /\ "none" \notin Images /\ "damaged" \notin Images
BY SwapAssumption DEF Indices

LEMMA FieldsOfWhole ==
  ASSUME NEW img, NEW k
  PROVE  Whole(img, k).img = img /\ Blank # Whole(img, k)
BY DEF Whole, Blank

(* An image that is whole in a slot is the one its header names, and has a *)
(* size that can be read.                                                  *)
LEMMA HeaderOfWhole ==
  ASSUME NEW a \in Areas, NEW img \in Images, Holds(a, img)
  PROVE  Header(a) = img /\ Valid(a) /\ Sized(a) /\ SectorsOf(a) = Size[img]
<1>1. 0 \in 0 .. Size[img] - 1 /\ Size[img] - 1 \in 0 .. Size[img] - 1 /\ img # "none"
  BY Numbers
<1>2. data[a][0] = Whole(img, 0) /\ data[a][Size[img] - 1] = Whole(img, Size[img] - 1)
  BY <1>1 DEF Holds
<1>3. Header(a) = img
  BY <1>2, FieldsOfWhole DEF Header
<1> QED BY <1>1, <1>2, <1>3 DEF Valid, Sized, SectorsOf

(* The first run of written status bytes ends at the last one written.     *)
LEMMA EndOfRun ==
  ASSUME NEW a \in Areas, NEW p \in Nat \ {0}, trailer[a].status = 1 .. p
  PROVE  trailer[a].status # {} /\ StatusEnd(a) = p
<1>1. Min(1 .. p) = 1
  <2>1. 1 \in 1 .. p /\ \A y \in 1 .. p : 1 <= y
    OBVIOUS
  <2>2. \A x \in 1 .. p : x <= 1 => x = 1
    OBVIOUS
  <2> QED BY <2>1, <2>2 DEF Min
<1>2. p \in 1 .. p /\ 1 .. p \subseteq 1 .. p /\ p + 1 \notin 1 .. p
  OBVIOUS
<1>3. ASSUME NEW q \in 1 .. p, q + 1 \notin 1 .. p PROVE q = p
  BY <1>3
<1> QED BY <1>1, <1>2, <1>3 DEF StatusEnd

(* What the flash tells is what the next start reads from it.              *)
LEMMA ToldIsRead ==
  ASSUME NEW n \in 1 .. NumSectors, NEW i \in 0 .. NumSectors, NEW st \in 0 .. 2,
         i + st > 0, Told(n, i, st)
  PROVE  /\ Interrupted
         /\ StatusEnd(boot_status_source) = 3 * i + st
         /\ boot_read_swap_size = n
         /\ trailer[Slot0].magic \/ trailer[Scratch].magic
<1>0. 3 * i + st \in Nat \ {0} /\ 3 * 0 + st = st
  OBVIOUS
<1>1. CASE InSlot0(n, 3 * i + st)
  <2>1. boot_status_source = Slot0
    BY <1>1 DEF InSlot0, boot_status_source
  <2>2. trailer[Slot0].status # {} /\ StatusEnd(Slot0) = 3 * i + st
    BY <1>0, <1>1, EndOfRun DEF InSlot0
  <2> QED BY <1>1, <2>1, <2>2 DEF InSlot0, Interrupted, boot_read_swap_size
<1>2. CASE ~trailer[Slot0].magic /\ i = 0 /\ InScratch(n, st)
  <2>1. boot_status_source = Scratch
    BY <1>2 DEF InScratch, boot_status_source
  <2>2. trailer[Scratch].status # {} /\ StatusEnd(Scratch) = st
    BY <1>0, <1>2, EndOfRun DEF InScratch
  <2> QED BY <1>0, <1>2, <2>1, <2>2 DEF InScratch, Interrupted, boot_read_swap_size
<1> QED BY <1>1, <1>2 DEF Told

LEMMA SilentIsNotInterrupted == ASSUME Silent PROVE ~Interrupted
BY DEF Silent, Interrupted, boot_status_source

(* While the images are in their slots, nothing of them is lost, and one   *)
(* that is half exchanged is whole in three areas together.                *)
LEMMA IntactHasAll == ASSUME Intact PROVE NothingLost
<1> SUFFICES ASSUME NEW img \in {P, Q} \cap Images, NEW k \in 0 .. Size[img] - 1
             PROVE  \E a \in Areas, j \in Indices : data[a][j] = Whole(img, k)
  BY DEF NothingLost, P, Q
<1>1. k \in Indices
  BY Numbers
<1>2. Holds(Slot0, img) \/ Holds(Slot1, img)
  BY DEF Intact
<1> QED BY <1>1, <1>2 DEF Holds

LEMMA PointHasAll ==
  ASSUME NEW n \in 1 .. NumSectors, NEW i \in 0 .. NumSectors, NEW st \in 0 .. 2,
         i <= n, i = n => st = 0, Point(n, i, st)
  PROVE  NothingLost
<1> SUFFICES ASSUME NEW img \in {P, Q} \cap Images, NEW k \in 0 .. Size[img] - 1
             PROVE  \E a \in Areas, j \in Indices : data[a][j] = Whole(img, k)
  BY DEF NothingLost, P, Q
<1> DEFINE s == n - 1 - i
<1>1. k \in Indices /\ 0 \in Indices /\ k < Size[img] /\ k <= n - 1 /\ s \in Int
  BY Numbers DEF Point
<1>2. CASE k < s
  BY <1>1, <1>2 DEF Point, Put
<1>3. CASE k > s
  BY <1>1, <1>3 DEF Point, Put
<1>4. CASE k = s
  <2>1. i < n
    BY <1>1, <1>4
  <2>2. Put(Slot0, P, s) \/ Put(Slot1, P, s)
    BY <2>1 DEF Point
  <2>3. Put(Slot1, Q, s) \/ Spare(Q, s)
    BY <2>1 DEF Point
  <2> QED BY <1>1, <1>4, <2>2, <2>3 DEF Put, Spare
<1> QED BY <1>1, <1>2, <1>3, <1>4

-----------------------------------------------------------------------------
(* What the invariant has to say of the next state, for each value of pc.  *)
LEMMA ToExchanging ==
  ASSUME Types', pc' \in State0 \cup State1 \cup State2, Exchanging'
  PROVE  SwapInv'
BY DEF SwapInv, Settled, Running, State0, State1, State2

LEMMA ToRest ==
  ASSUME Types', pc' \in {"run", "pending", "validate"}, AtRest'
  PROVE  SwapInv'
BY DEF SwapInv, Settled, Running, State0, State1, State2

LEMMA ToOff == ASSUME Types', pc' = "off", Off' PROVE SwapInv'
BY DEF SwapInv, Settled, Running, State0, State1, State2

LEMMA ToDiscard == ASSUME Types', pc' = "discard", Discarding' PROVE SwapInv'
BY DEF SwapInv, Settled, Running, State0, State1, State2

LEMMA ToFinish == ASSUME Types', pc' = "finish", Finishing' PROVE SwapInv'
BY DEF SwapInv, Settled, Running, State0, State1, State2

LEMMA ToCopyDone ==
  ASSUME Types', pc' = "copy_done", swap_type' \in {"test", "perm", "revert"}, Exchanged'
  PROVE  SwapInv'
BY DEF SwapInv, Settled, Running, State0, State1, State2

(* Any exchange that goes on is at one of the sectors.                     *)
LEMMA SectorInSlot ==
  ASSUME Types, bs.size \in 1 .. NumSectors, bs.idx < bs.size
  PROVE  Sector \in Indices /\ Sector = bs.size - 1 - bs.idx /\ bs.idx \in 0 .. NumSectors - 1
BY Numbers DEF Types, Sector

LEMMA InvariantImplies ==
  ASSUME SwapInv
  PROVE  TypeOK /\ NothingLost /\ NeverFailed
<1>1. CASE pc \in State0 \cup State1 \cup State2
  <2>1. Exchanging /\ Types
    BY <1>1 DEF SwapInv
  <2>2. Sector \in Indices /\ bs.idx \in 0 .. NumSectors
    BY <2>1, SectorInSlot, Numbers DEF Exchanging
  <2>3. TypeOK
    BY <2>1, <2>2 DEF TypeOK, Types
  <2>4. ASSUME First PROVE NothingLost
    BY <2>4, IntactHasAll DEF First
  <2>5. ASSUME Later \/ Saved \/ Moved PROVE NothingLost
    <3>1. bs.size \in 1 .. NumSectors /\ bs.idx <= bs.size /\ bs.idx # bs.size
      BY <2>1, <2>2 DEF Exchanging
    <3>2. 0 \in 0 .. 2 /\ 1 \in 0 .. 2 /\ 2 \in 0 .. 2
      OBVIOUS
    <3>3. Point(bs.size, bs.idx, 0) \/ Point(bs.size, bs.idx, 1) \/ Point(bs.size, bs.idx, 2)
      BY <2>5 DEF Later, Saved, Moved
    <3> QED BY <2>2, <3>1, <3>2, <3>3, PointHasAll
  <2>6. (First /\ bs.idx = 0) \/ Later \/ Saved \/ Moved
    <3>1. \/ pc \in State0 /\ ((First /\ bs.idx = 0) \/ Later)
          \/ pc \in State1 /\ Saved
          \/ pc \in State2 /\ Moved
      BY <1>1, <2>1 DEF Exchanging
    <3> QED BY <3>1
  <2> QED BY <1>1, <2>3, <2>4, <2>5, <2>6 DEF NeverFailed, State0, State1, State2
<1>2. CASE pc \notin State0 \cup State1 \cup State2
  <2>1. pc \in {"off", "run", "pending", "validate", "discard", "finish", "copy_done"}
    BY <1>2 DEF SwapInv
  <2>2. TypeOK
    BY <2>1 DEF SwapInv, Types, TypeOK, Resting
  <2>3. Intact \/ \E n \in 1 .. NumSectors, i \in 0 .. NumSectors, st \in 0 .. 2 :
                    i <= n /\ (i = n => st = 0) /\ Point(n, i, st)
    <3>1. CASE pc \in {"off", "run", "pending", "validate", "discard"}
      BY <3>1 DEF SwapInv, Off, Settled, Running, AtRest, Discarding
    <3>2. CASE pc \in {"finish", "copy_done"}
      <4>1. Intact \/ Exchanged
        BY <3>2 DEF SwapInv, Finishing
      <4>2. ASSUME Exchanged PROVE bs.size \in 1 .. NumSectors
        BY <4>2, Numbers DEF Exchanged, Point, SwapInv, Types
      <4> QED BY <4>1, <4>2 DEF Exchanged
    <3> QED BY <2>1, <3>1, <3>2
  <2>4. NothingLost
    BY <2>3, IntactHasAll, PointHasAll
  <2> QED BY <2>1, <2>2, <2>4 DEF NeverFailed
<1> QED BY <1>1, <1>2

-----------------------------------------------------------------------------
(* Types after one write of a trailer field, one copy and one erasure.     *)
LEMMA TrailerTypes ==
  ASSUME Types, NEW a \in Areas, NEW field, NEW value,
         \/ field \in {"magic", "image_ok", "copy_done"} /\ value \in BOOLEAN
         \/ field = "size" /\ value \in 0 .. NumSectors
         \/ field = "status" /\ value \in SUBSET (0 .. 3 * NumSectors)
  PROVE  [trailer EXCEPT ![a][field] = value] \in [Areas -> Trailers]
<1>1. trailer[a] \in Trailers
  BY DEF Types
<1>2. [trailer[a] EXCEPT ![field] = value] \in Trailers
  BY <1>1 DEF Trailers
<1> QED BY <1>2 DEF Types

LEMMA CopyTypes ==
  ASSUME Types, NEW from \in Areas, NEW to \in Areas, NEW i \in Indices, NEW j \in Indices
  PROVE  /\ [data EXCEPT ![to][j] = data[from][i]] \in [Areas -> [Indices -> Sectors]]
         /\ [data EXCEPT ![to][j] = Torn(data[from][i])] \in [Areas -> [Indices -> Sectors]]
<1>1. data[from][i] \in Sectors /\ data[to] \in [Indices -> Sectors]
  BY DEF Types
<1>2. Torn(data[from][i]) \in Sectors
  BY <1>1 DEF Torn, Sectors
<1>3. /\ [data[to] EXCEPT ![j] = data[from][i]] \in [Indices -> Sectors]
      /\ [data[to] EXCEPT ![j] = Torn(data[from][i])] \in [Indices -> Sectors]
  BY <1>1, <1>2
<1> QED BY <1>3 DEF Types

LEMMA BlankTypes == Blank \in Sectors /\ BlankTrailer \in Trailers
<1>1. 0 \in Indices /\ 0 \in 0 .. NumSectors
  BY Numbers
<1> QED BY <1>1 DEF Blank, Sectors, BlankTrailer, Trailers

LEMMA ErasedTypes ==
  ASSUME Types, NEW a \in Areas, NEW S \in SUBSET Indices, Erased(a, S)
  PROVE  data' \in [Areas -> [Indices -> Sectors]] /\ trailer' \in [Areas -> Trailers]
<1>1. data[a] \in [Indices -> Sectors]
  BY DEF Types
<1>2. [k \in Indices |-> IF k \in S THEN Blank ELSE data[a][k]] \in [Indices -> Sectors]
  BY <1>1, BlankTypes
<1> QED BY <1>2, BlankTypes DEF Types, Erased

(* What an erasure does to the areas.                                      *)
LEMMA ErasedAreas ==
  ASSUME Types, NEW a \in Areas, NEW S \in SUBSET Indices, Erased(a, S)
  PROVE  /\ \A b \in Areas \ {a} : data'[b] = data[b] /\ trailer'[b] = trailer[b]
         /\ \A k \in Indices : data'[a][k] = IF k \in S THEN Blank ELSE data[a][k]
         /\ trailer'[a] = IF a = Scratch \/ Last \in S THEN BlankTrailer ELSE trailer[a]
BY DEF Types, Erased

LEMMA CopyAreas ==
  ASSUME Types, NEW from \in Areas, NEW to \in Areas, NEW i \in Indices, NEW j \in Indices,
         boot_copy_sector(from, i, to, j)
  PROVE  /\ \A b \in Areas \ {to} : data'[b] = data[b]
         /\ \A k \in Indices : data'[to][k] = IF k = j THEN data[from][i] ELSE data[to][k]
         /\ data' \in [Areas -> [Indices -> Sectors]] /\ trailer' \in [Areas -> Trailers]
         /\ trailer' = trailer /\ bs' = bs /\ swap_type' = swap_type /\ seen' = seen
<1>1. data[to] \in [Indices -> Sectors]
  BY DEF Types
<1>2. data' = [data EXCEPT ![to][j] = data[from][i]]
  BY DEF boot_copy_sector
<1>3. data' \in [Areas -> [Indices -> Sectors]]
  BY <1>2, CopyTypes
<1> QED BY <1>1, <1>2, <1>3 DEF Types, boot_copy_sector

-----------------------------------------------------------------------------
(* A step that leaves the slots alone, and one that changes only sectors   *)
(* that no image reaches, or the one the exchange stands at.               *)
LEMMA SlotsSame ==
  ASSUME data'[Slot0] = data[Slot0], data'[Slot1] = data[Slot1], seen' = seen
  PROVE  /\ Intact => Intact'
         /\ Valid(Slot1)' = Valid(Slot1)
         /\ SwapSize' = SwapSize
         /\ \A img, k : Put(Slot0, img, k)' = Put(Slot0, img, k)
         /\ \A img, k : Put(Slot1, img, k)' = Put(Slot1, img, k)
<1>1. Header(Slot0)' = Header(Slot0) /\ Header(Slot1)' = Header(Slot1)
  BY DEF Header
<1>2. \A img : Holds(Slot0, img)' = Holds(Slot0, img) /\ Holds(Slot1, img)' = Holds(Slot1, img)
  BY DEF Holds
<1>3. Valid(Slot1)' = Valid(Slot1)
  BY <1>1, <1>2 DEF Valid
<1>4. SwapSize' = SwapSize
  BY <1>1 DEF SwapSize, SectorsOf
<1>5. Intact => Intact'
  BY <1>2, <1>3 DEF Intact, P, Q
<1> QED BY <1>3, <1>4, <1>5 DEF Put

LEMMA PointStep ==
  ASSUME NEW n \in 1 .. NumSectors, NEW i \in 0 .. NumSectors, NEW st \in 0 .. 2,
         NEW st2 \in 0 .. 2, Point(n, i, st), seen' = seen,
         \A k \in Indices : k < n /\ k # n - 1 - i =>
           data'[Slot0][k] = data[Slot0][k] /\ data'[Slot1][k] = data[Slot1][k],
         i < n => /\ st2 # 2 => Put(Slot0, P, n - 1 - i)'
                  /\ st2 = 0 => Put(Slot1, Q, n - 1 - i)'
                  /\ st2 # 0 => Spare(Q, n - 1 - i)'
                  /\ st2 = 2 => Put(Slot1, P, n - 1 - i)'
  PROVE  Point(n, i, st2)'
<1>1. P' = P /\ Q' = Q /\ P \in Images /\ Q \in Images /\ Size[P] <= n /\ Size[Q] <= n
  BY DEF P, Q, Point
<1>2. ASSUME NEW k \in Indices
      PROVE  /\ k < n - 1 - i => (Put(Slot0, P, k) /\ Put(Slot1, Q, k))'
             /\ k > n - 1 - i => (Put(Slot1, P, k) /\ Put(Slot0, Q, k))'
  <2>1. /\ k < n - 1 - i => Put(Slot0, P, k) /\ Put(Slot1, Q, k)
        /\ k > n - 1 - i => Put(Slot1, P, k) /\ Put(Slot0, Q, k)
    BY DEF Point
  <2>2. k \in Int /\ Size[P] \in Int /\ Size[Q] \in Int
    BY <1>1, Numbers
  <2> QED BY <1>1, <2>1, <2>2 DEF Put
<1> QED BY <1>1, <1>2 DEF Point

LEMMA PointWithoutScratch ==
  ASSUME NEW n, NEW i, Point(n, i, 0), seen' = seen,
         data'[Slot0] = data[Slot0], data'[Slot1] = data[Slot1]
  PROVE  Point(n, i, 0)'
BY DEF Point, Put, P, Q

LEMMA PointAt ==
  ASSUME NEW n, NEW i, NEW st, i < n, Point(n, i, st)
  PROVE  /\ st # 2 => Put(Slot0, P, n - 1 - i)
         /\ st = 0 => Put(Slot1, Q, n - 1 - i)
         /\ st # 0 => Spare(Q, n - 1 - i)
         /\ st = 2 => Put(Slot1, P, n - 1 - i)
BY DEF Point

LEMMA StaysInState1 ==
  ASSUME NEW n \in 1 .. NumSectors, NEW i \in 0 .. NumSectors, i < n, Point(n, i, 1),
         seen' = seen, data'[Slot0] = data[Slot0], data'[Scratch] = data[Scratch],
         \A k \in Indices : k < n /\ k # n - 1 - i => data'[Slot1][k] = data[Slot1][k]
  PROVE  Point(n, i, 1)'
<1>1. Put(Slot0, P, n - 1 - i) /\ Spare(Q, n - 1 - i)
  BY PointAt
<1>2. Put(Slot0, P, n - 1 - i)' /\ Spare(Q, n - 1 - i)'
  BY <1>1 DEF Put, Spare, P, Q
<1>3. 1 \in 0 .. 2
  OBVIOUS
<1> QED BY <1>2, <1>3, PointStep

LEMMA StaysInState2 ==
  ASSUME NEW n \in 1 .. NumSectors, NEW i \in 0 .. NumSectors, i < n, Point(n, i, 2),
         seen' = seen, data'[Slot1] = data[Slot1], data'[Scratch] = data[Scratch],
         \A k \in Indices : k < n /\ k # n - 1 - i => data'[Slot0][k] = data[Slot0][k]
  PROVE  Point(n, i, 2)'
<1>1. Put(Slot1, P, n - 1 - i) /\ Spare(Q, n - 1 - i)
  BY PointAt
<1>2. Put(Slot1, P, n - 1 - i)' /\ Spare(Q, n - 1 - i)'
  BY <1>1 DEF Put, Spare, P, Q
<1>3. 2 \in 0 .. 2
  OBVIOUS
<1> QED BY <1>2, <1>3, PointStep

LEMMA PointSame ==
  ASSUME NEW n, NEW i, NEW st, Point(n, i, st), data' = data, seen' = seen
  PROVE  Point(n, i, st)'
BY DEF Point, Put, Spare, P, Q

LEMMA BsSame ==
  ASSUME bs' = bs
  PROVE  Sector' = Sector /\ use_scratch' = use_scratch /\ StatusArea' = StatusArea
BY DEF Sector, use_scratch, StatusArea

(* What every step of an exchange starts from.                             *)
LEMMA ExchangingFacts ==
  ASSUME SwapInv, pc \in State0 \cup State1 \cup State2
  PROVE  /\ Types /\ Exchanging
         /\ bs.size \in 1 .. NumSectors /\ bs.idx \in 0 .. NumSectors - 1 /\ bs.idx < bs.size
         /\ bs.size \in Nat /\ bs.idx \in Nat /\ bs.idx \in 0 .. NumSectors /\ NumSectors \in Nat
         /\ Sector = bs.size - 1 - bs.idx /\ Sector \in Indices
         /\ Last = NumSectors - 1 /\ Last \in Indices
         /\ use_scratch <=> bs.idx = 0 /\ bs.size = NumSectors
<1>1. Types /\ Exchanging /\ bs.size \in 1 .. NumSectors /\ bs.idx < bs.size
  BY DEF SwapInv, Exchanging
<1>2. Sector = bs.size - 1 - bs.idx /\ Sector \in Indices /\ bs.idx \in 0 .. NumSectors - 1
  BY <1>1, SectorInSlot
<1>3. Last = NumSectors - 1 /\ Last \in Indices
  BY Numbers DEF Last
<1>4. use_scratch <=> bs.idx = 0 /\ bs.size = NumSectors
  BY <1>1, <1>2, <1>3, Numbers DEF use_scratch
<1>5. bs.size \in Nat /\ bs.idx \in Nat /\ bs.idx \in 0 .. NumSectors /\ NumSectors \in Nat
  BY <1>1, <1>2, Numbers
<1> QED BY <1>1, <1>2, <1>3, <1>4, <1>5

(* In the first sector's state 0 both images are in their slots.           *)
LEMMA FirstIsPoint ==
  ASSUME SwapInv, pc \in State0, bs.idx = 0, First
  PROVE  Point(bs.size, 0, 0) /\ Size[P] <= bs.size /\ Size[Q] <= bs.size
<1>0. pc \in State0 \cup State1 \cup State2
  OBVIOUS
<1>1. P \in Images /\ Q \in Images /\ Holds(Slot0, P) /\ Holds(Slot1, Q)
  BY DEF First, Intact
<1>2. SectorsOf(Slot0) = Size[P] /\ SectorsOf(Slot1) = Size[Q]
  BY <1>1, HeaderOfWhole
<1>3. Size[P] \in Nat /\ Size[Q] \in Nat
  BY <1>1, Numbers
<1>4. SwapSize = IF Size[P] >= Size[Q] THEN Size[P] ELSE Size[Q]
  <2>1. SwapSize = Max({Size[P], Size[Q]})
    BY <1>2 DEF SwapSize
  <2>2. \A x \in {Size[P], Size[Q]} :
          (\A y \in {Size[P], Size[Q]} : x >= y) => x = IF Size[P] >= Size[Q] THEN Size[P] ELSE Size[Q]
    BY <1>3
  <2>3. LET m == IF Size[P] >= Size[Q] THEN Size[P] ELSE Size[Q]
        IN  m \in {Size[P], Size[Q]} /\ \A y \in {Size[P], Size[Q]} : m >= y
    BY <1>3
  <2> QED BY <2>1, <2>2, <2>3 DEF Max
<1>5. bs.size = SwapSize /\ bs.size \in 1 .. NumSectors /\ bs.size \in Nat
  <2>1. bs.size \in 1 .. NumSectors
    BY <1>0, ExchangingFacts
  <2>2. bs.size = SwapSize
    BY DEF First
  <2> QED BY <2>1, <2>2, Numbers
<1>6. Size[P] <= bs.size /\ Size[Q] <= bs.size
  BY <1>3, <1>4, <1>5
<1>7. \A k \in Indices : Put(Slot0, P, k) /\ Put(Slot1, Q, k)
  BY <1>1, <1>3, Numbers DEF Holds, Put
<1>8. \A k \in Indices : ~(k > bs.size - 1 - 0) \/ (k >= Size[P] /\ k >= Size[Q])
  BY <1>3, <1>5, <1>6, Numbers
<1>9. bs.size - 1 - 0 \in Indices
  BY <1>5, Numbers
<1> QED BY <1>1, <1>3, <1>6, <1>7, <1>8, <1>9, Numbers DEF Point, Put

-----------------------------------------------------------------------------
(* State 0: the erasure of the scratch area and the copy to it.            *)
LEMMA EraseScratchStep == ASSUME SwapInv, EraseScratch PROVE SwapInv'
<1>1. /\ pc = "erase scratch" /\ pc' = "copy to scratch"
      /\ bs' = bs /\ swap_type' = swap_type /\ seen' = seen
      /\ Erased(Scratch, {0})
  BY DEF EraseScratch, At, boot_erase_sector
<1>2. pc \in State0 /\ pc \in State0 \cup State1 \cup State2 /\ pc' \in State0
      /\ pc' \notin State1 /\ pc' \notin State2
  BY <1>1 DEF State0, State1, State2
<1>3. Types /\ Exchanging /\ bs.size \in 1 .. NumSectors /\ bs.idx \in 0 .. NumSectors - 1
      /\ bs.idx < bs.size
  BY <1>2, ExchangingFacts
<1>4. {0} \in SUBSET Indices
  BY Numbers
<1>5. /\ data'[Slot0] = data[Slot0] /\ data'[Slot1] = data[Slot1]
      /\ trailer'[Slot0] = trailer[Slot0] /\ trailer'[Slot1] = trailer[Slot1]
      /\ trailer'[Scratch] = BlankTrailer
  BY <1>1, <1>3, <1>4, ErasedAreas
<1>6. Types'
  BY <1>1, <1>3, <1>4, ErasedTypes DEF Types
<1>7. Sector' = Sector /\ use_scratch' = use_scratch
  BY <1>1, BsSame
<1>8. CASE bs.idx = 0
  <2>1. First
    BY <1>2, <1>3, <1>8 DEF Exchanging
  <2>2. Intact' /\ Valid(Slot1)' /\ SwapSize' = SwapSize
    BY <1>1, <1>5, <2>1, SlotsSame DEF First
  <2>3. Silent' /\ (Fresh => Fresh') /\ trailer'[Scratch].status = {}
    <3>1. ~trailer'[Scratch].magic /\ trailer'[Scratch].status = {}
      BY <1>5 DEF BlankTrailer
    <3>2. Silent
      BY <2>1 DEF First
    <3> QED BY <1>5, <3>1, <3>2 DEF Silent, Fresh
  <2>4. First'
    BY <1>1, <1>5, <1>7, <2>1, <2>2, <2>3 DEF First
  <2>5. Exchanging'
    BY <1>1, <1>2, <1>3, <1>8, <2>4 DEF Exchanging
  <2> QED BY <1>2, <1>6, <2>5, ToExchanging
<1>9. CASE bs.idx # 0
  <2>1. Later
    BY <1>2, <1>3, <1>9 DEF Exchanging
  <2>2. Point(bs.size, bs.idx, 0)'
    BY <1>1, <1>5, <2>1, PointWithoutScratch DEF Later
  <2>3. Later'
    BY <1>1, <1>5, <2>1, <2>2 DEF Later, InSlot0
  <2>4. Exchanging'
    BY <1>1, <1>2, <1>3, <1>9, <2>3 DEF Exchanging
  <2> QED BY <1>2, <1>6, <2>4, ToExchanging
<1> QED BY <1>8, <1>9

(* A step from one operation of the exchange to the next.                  *)
LEMMA Within ==
  ASSUME SwapInv, pc \in State0 \cup State1 \cup State2,
         pc' \in State0 \cup State1 \cup State2,
         bs' = bs, swap_type' = swap_type,
         data' \in [Areas -> [Indices -> Sectors]], trailer' \in [Areas -> Trailers],
         pc' \in State0 => IF bs.idx = 0 THEN First' ELSE Later',
         pc' \in State1 => Saved',
         pc' \in State2 => Moved'
  PROVE  SwapInv'
<1>1. Types /\ Exchanging
  BY ExchangingFacts
<1>2. Types'
  BY <1>1 DEF Types
<1>3. Exchanging'
  BY <1>1 DEF Exchanging
<1> QED BY <1>2, <1>3, ToExchanging

LEMMA CopyToScratchStep == ASSUME SwapInv, CopyToScratch PROVE SwapInv'
<1>1. /\ pc = "copy to scratch"
      /\ boot_copy_sector(Slot1, Sector, Scratch, 0)
  BY DEF CopyToScratch, At
<1>2. /\ pc \in State0 /\ pc \in State0 \cup State1 \cup State2
      /\ pc' \in State0 /\ pc' \notin State1 /\ pc' \notin State2
      /\ bs.idx # 0 => pc' = "status 1"
      /\ bs.idx = 0 => pc' = IF use_scratch THEN "init image_ok" ELSE "erase slot0 trailer"
  <2>1. use_scratch => bs.idx = 0
    BY DEF use_scratch
  <2>2. /\ bs.idx # 0 => pc' = "status 1"
        /\ bs.idx = 0 => pc' = IF use_scratch THEN "init image_ok" ELSE "erase slot0 trailer"
    BY <2>1 DEF CopyToScratch, At
  <2> QED BY <1>1, <2>2 DEF State0, State1, State2
<1>3. /\ Types /\ Exchanging /\ bs.size \in 1 .. NumSectors /\ bs.idx \in 0 .. NumSectors - 1
      /\ bs.idx < bs.size /\ Sector = bs.size - 1 - bs.idx /\ Sector \in Indices
  BY <1>2, ExchangingFacts
<1>4. /\ data'[Slot0] = data[Slot0] /\ data'[Slot1] = data[Slot1]
      /\ data'[Scratch][0] = data[Slot1][Sector]
      /\ bs' = bs /\ swap_type' = swap_type /\ seen' = seen /\ trailer' = trailer
      /\ data' \in [Areas -> [Indices -> Sectors]] /\ trailer' \in [Areas -> Trailers]
  <2>1. Types /\ Slot1 \in Areas /\ Scratch \in Areas /\ Sector \in Indices /\ 0 \in Indices
    BY <1>3, Numbers
  <2>2. /\ \A b \in Areas \ {Scratch} : data'[b] = data[b]
        /\ \A k \in Indices : data'[Scratch][k] = IF k = 0 THEN data[Slot1][Sector]
                                                          ELSE data[Scratch][k]
        /\ data' \in [Areas -> [Indices -> Sectors]] /\ trailer' \in [Areas -> Trailers]
        /\ trailer' = trailer /\ bs' = bs /\ swap_type' = swap_type /\ seen' = seen
    BY <1>1, <2>1, CopyAreas
  <2> QED BY <2>1, <2>2
<1>6. Sector' = Sector /\ use_scratch' = use_scratch
  BY <1>4, BsSame
<1>7. ASSUME Put(Slot1, Q, Sector) PROVE Spare(Q, Sector)'
  BY <1>4, <1>6, <1>7 DEF Put, Spare, Q
<1>8. CASE bs.idx = 0
  <2>1. First
    BY <1>2, <1>3, <1>8 DEF Exchanging
  <2>2. Put(Slot1, Q, Sector)
    <3>1. Point(bs.size, bs.idx, 0)
      BY <1>2, <1>8, <2>1, FirstIsPoint
    <3> QED BY <1>3, <3>1, PointAt
  <2>3. Intact' /\ Valid(Slot1)' /\ SwapSize' = SwapSize
    BY <1>4, <2>1, SlotsSame DEF First
  <2>4. pc' = IF use_scratch THEN "init image_ok" ELSE "erase slot0 trailer"
    BY <1>2, <1>8
  <2>5. Silent' /\ (use_scratch => Fresh') /\ trailer'[Scratch].status = {}
    BY <1>1, <1>4, <2>1 DEF First, Silent, Fresh
  <2>6. First'
    BY <1>4, <1>6, <1>7, <2>1, <2>2, <2>3, <2>4, <2>5 DEF First
  <2> QED BY <1>2, <1>4, <1>8, <2>6, Within
<1>9. CASE bs.idx # 0
  <2>1. Later
    BY <1>2, <1>3, <1>9 DEF Exchanging
  <2>2. Point(bs.size, bs.idx, 0)'
    BY <1>4, <2>1, PointWithoutScratch DEF Later
  <2>3. Put(Slot1, Q, Sector)
    BY <1>3, <2>1, PointAt DEF Later
  <2>4. pc' = "status 1"
    BY <1>2, <1>9
  <2>5. Later'
    BY <1>4, <1>7, <2>1, <2>2, <2>3, <2>4 DEF Later, InSlot0
  <2> QED BY <1>2, <1>4, <1>9, <2>5, Within
<1> QED BY <1>8, <1>9

(* What one write of a trailer field changes.                              *)
Wrote(a, field, value) == trailer' = [trailer EXCEPT ![a][field] = value]

LEMMA FieldWrite ==
  ASSUME Types, NEW a \in Areas, NEW field \in {"magic", "image_ok", "copy_done", "size", "status"},
         NEW value, Wrote(a, field, value),
         \/ field \in {"magic", "image_ok", "copy_done"} /\ value \in BOOLEAN
         \/ field = "size" /\ value \in 0 .. NumSectors
         \/ field = "status" /\ value \in SUBSET (0 .. 3 * NumSectors)
  PROVE  /\ \A b \in Areas \ {a} : trailer'[b] = trailer[b]
         /\ trailer'[a].magic     = IF field = "magic" THEN value ELSE trailer[a].magic
         /\ trailer'[a].image_ok  = IF field = "image_ok" THEN value ELSE trailer[a].image_ok
         /\ trailer'[a].copy_done = IF field = "copy_done" THEN value ELSE trailer[a].copy_done
         /\ trailer'[a].size      = IF field = "size" THEN value ELSE trailer[a].size
         /\ trailer'[a].status    = IF field = "status" THEN value ELSE trailer[a].status
         /\ trailer' \in [Areas -> Trailers]
<1>1. trailer[a] \in Trailers /\ trailer \in [Areas -> Trailers]
  BY DEF Types
<1>2. trailer'[a] = [trailer[a] EXCEPT ![field] = value]
  BY <1>1 DEF Wrote
<1>3. \A b \in Areas \ {a} : trailer'[b] = trailer[b]
  BY <1>1 DEF Wrote
<1>4. trailer' \in [Areas -> Trailers]
  BY TrailerTypes DEF Wrote
<1> QED BY <1>1, <1>2, <1>3, <1>4 DEF Trailers

LEMMA SizeWrite ==
  ASSUME Types, NEW a \in Areas, NEW n \in 0 .. NumSectors, Wrote(a, "size", n)
  PROVE  /\ \A b \in Areas \ {a} : trailer'[b] = trailer[b]
         /\ trailer'[a].magic = trailer[a].magic
         /\ trailer'[a].copy_done = trailer[a].copy_done
         /\ trailer'[a].status = trailer[a].status
         /\ trailer'[a].size = n
         /\ trailer' \in [Areas -> Trailers]
BY FieldWrite

LEMMA MagicWrite ==
  ASSUME Types, NEW a \in Areas, Wrote(a, "magic", TRUE)
  PROVE  /\ \A b \in Areas \ {a} : trailer'[b] = trailer[b]
         /\ trailer'[a].magic
         /\ trailer'[a].image_ok = trailer[a].image_ok
         /\ trailer'[a].copy_done = trailer[a].copy_done
         /\ trailer'[a].status = trailer[a].status
         /\ trailer'[a].size = trailer[a].size
         /\ trailer' \in [Areas -> Trailers]
<1>1. TRUE \in BOOLEAN
  OBVIOUS
<1> QED BY <1>1, FieldWrite

LEMMA ImageOkWrite ==
  ASSUME Types, NEW a \in Areas, NEW value \in BOOLEAN, Wrote(a, "image_ok", value)
  PROVE  /\ \A b \in Areas \ {a} : trailer'[b] = trailer[b]
         /\ trailer'[a].magic = trailer[a].magic
         /\ trailer'[a].copy_done = trailer[a].copy_done
         /\ trailer'[a].status = trailer[a].status
         /\ trailer'[a].size = trailer[a].size
         /\ trailer' \in [Areas -> Trailers]
BY FieldWrite

LEMMA StatusWrite ==
  ASSUME Types, NEW a \in Areas, NEW S \in SUBSET (0 .. 3 * NumSectors), Wrote(a, "status", S)
  PROVE  /\ \A b \in Areas \ {a} : trailer'[b] = trailer[b]
         /\ trailer'[a].magic = trailer[a].magic
         /\ trailer'[a].copy_done = trailer[a].copy_done
         /\ trailer'[a].status = S
         /\ trailer'[a].size = trailer[a].size
         /\ trailer' \in [Areas -> Trailers]
<1>1. trailer' \in [Areas -> Trailers]
  BY TrailerTypes DEF Wrote
<1>2. trailer'[a] = [trailer[a] EXCEPT !.status = S] /\ trailer[a] \in Trailers
      /\ \A b \in Areas \ {a} : trailer'[b] = trailer[b]
  BY DEF Wrote, Types
<1> QED BY <1>1, <1>2 DEF Trailers

LEMMA EraseOldTrailerStep == ASSUME SwapInv, EraseOldTrailer PROVE SwapInv'
<1>1. /\ pc = "erase slot0 trailer" /\ pc' = "init image_ok"
      /\ bs' = bs /\ swap_type' = swap_type /\ seen' = seen
      /\ Erased(Slot0, {Last})
  BY DEF EraseOldTrailer, At, boot_erase_sector
<1>2. /\ pc \in State0 /\ pc \in State0 \cup State1 \cup State2
      /\ pc' \in State0 /\ pc' \notin State1 /\ pc' \notin State2
  BY <1>1 DEF State0, State1, State2
<1>3. /\ Types /\ Exchanging /\ bs.size \in 1 .. NumSectors
      /\ Last = NumSectors - 1 /\ {Last} \in SUBSET Indices
      /\ use_scratch <=> bs.idx = 0 /\ bs.size = NumSectors
  BY <1>2, ExchangingFacts
<1>4. First /\ bs.idx = 0
  BY <1>1, <1>2, <1>3 DEF Exchanging, Later
<1>5. ~use_scratch /\ bs.size <= Last
  <2>1. ~use_scratch
    BY <1>1, <1>4 DEF First
  <2> QED BY <1>3, <1>4, <2>1, Numbers
<1>6. /\ data'[Slot1] = data[Slot1] /\ data'[Scratch] = data[Scratch]
      /\ trailer'[Slot1] = trailer[Slot1] /\ trailer'[Scratch] = trailer[Scratch]
      /\ trailer'[Slot0] = BlankTrailer
      /\ \A k \in Indices : k # Last => data'[Slot0][k] = data[Slot0][k]
  <2>1. Last \in {Last}
    OBVIOUS
  <2> QED BY <1>1, <1>3, <2>1, ErasedAreas
<1>7. data' \in [Areas -> [Indices -> Sectors]] /\ trailer' \in [Areas -> Trailers]
  BY <1>1, <1>3, ErasedTypes
<1>8. Sector' = Sector /\ use_scratch' = use_scratch /\ StatusArea' = StatusArea
  BY <1>1, BsSame
<1>9. Intact' /\ Valid(Slot1)' /\ SwapSize' = SwapSize
  <2>1. /\ P \in Images /\ Q \in Images /\ Holds(Slot0, P) /\ Holds(Slot1, Q) /\ Valid(Slot1)
        /\ Size[P] <= bs.size /\ P' = P /\ Q' = Q
    BY <1>1, <1>2, <1>4, FirstIsPoint DEF First, Intact, P, Q
  <2>2. \A k \in 0 .. Size[P] - 1 : k \in Indices /\ k # Last
    BY <1>3, <1>5, <2>1, Numbers
  <2>3. Holds(Slot0, P)'
    BY <1>6, <2>1, <2>2 DEF Holds
  <2>4. Header(Slot0)' = Header(Slot0)
    <3>1. 0 \in 0 .. Size[P] - 1
      BY <2>1, Numbers
    <3> QED BY <1>6, <2>2, <3>1 DEF Header
  <2>5. Header(Slot1)' = Header(Slot1) /\ Holds(Slot1, Q)' /\ Valid(Slot1)'
    BY <1>6, <2>1 DEF Header, Holds, Valid
  <2>6. SwapSize' = SwapSize
    BY <2>4, <2>5 DEF SwapSize, SectorsOf
  <2> QED BY <2>1, <2>3, <2>5, <2>6 DEF Intact
<1>10. Silent' /\ trailer'[Slot0].status = {} /\ ~trailer'[Slot0].copy_done
  <2>1. trailer[Scratch].status = {}
    BY <1>1, <1>4 DEF First
  <2> QED BY <1>6, <2>1 DEF Silent, BlankTrailer
<1>11. Spare(Q, Sector)' /\ trailer'[Scratch].status = {}
  BY <1>1, <1>4, <1>6, <1>8 DEF First, Spare, Q
<1>12. First'
  BY <1>1, <1>4, <1>5, <1>6, <1>8, <1>9, <1>10, <1>11 DEF First
<1> QED BY <1>1, <1>2, <1>4, <1>7, <1>12, Within

LEMMA StatusInitStep == ASSUME SwapInv, boot_status_init PROVE SwapInv'
<1> DEFINE a == StatusArea
<1>1. /\ \/ /\ pc = "init image_ok" /\ pc' = "init size"
            /\ Wrote(a, "image_ok", trailer[a].image_ok \/ trailer[Slot1].image_ok)
         \/ pc = "init size" /\ pc' = "init magic" /\ Wrote(a, "size", bs.size)
         \/ pc = "init magic" /\ pc' = "status 1" /\ Wrote(a, "magic", TRUE)
      /\ data' = data /\ bs' = bs /\ swap_type' = swap_type
  BY DEF boot_status_init, WriteTrailer, At, Keep, Wrote
<1>2. seen' = seen
  <2>1. ~Settled'
    BY <1>1 DEF Settled, Running
  <2>2. Remember
    BY DEF boot_status_init, WriteTrailer, Keep
  <2> QED BY <2>1, <2>2 DEF Remember
<1>3. /\ pc \in State0 /\ pc \in State0 \cup State1 \cup State2
      /\ pc' \in State0 /\ pc' \notin State1 /\ pc' \notin State2
      /\ pc \in {"init image_ok", "init size", "init magic"}
      /\ pc' \in {"init size", "init magic", "status 1"}
  BY <1>1 DEF State0, State1, State2
<1>4. Types /\ Exchanging /\ bs.size \in 0 .. NumSectors
  <2>1. Types /\ Exchanging
    BY <1>3, ExchangingFacts
  <2> QED BY <2>1 DEF Types
<1>5. First /\ bs.idx = 0
  BY <1>3, <1>4 DEF Exchanging, Later
<1>6. data' = data /\ bs' = bs /\ swap_type' = swap_type
  BY <1>1
<1>7. StatusArea \in Areas /\ (use_scratch => StatusArea = Scratch) /\ (~use_scratch => StatusArea = Slot0)
  BY DEF StatusArea
<1>8. /\ \A b \in Areas \ {a} : trailer'[b] = trailer[b]
      /\ trailer'[a].copy_done = trailer[a].copy_done /\ trailer'[a].status = trailer[a].status
      /\ pc' = "init magic" => trailer'[a].size = bs.size
      /\ pc' = "status 1" => trailer'[a].size = trailer[a].size /\ trailer'[a].magic
      /\ trailer' \in [Areas -> Trailers]
  <2>1. CASE pc = "init image_ok"
    <3>1. (trailer[a].image_ok \/ trailer[Slot1].image_ok) \in BOOLEAN
      OBVIOUS
    <3>2. pc' = "init size" /\ Wrote(a, "image_ok", trailer[a].image_ok \/ trailer[Slot1].image_ok)
      BY <1>1, <2>1
    <3> QED BY <1>4, <1>7, <3>1, <3>2, ImageOkWrite
  <2>2. CASE pc = "init size"
    <3>1. pc' = "init magic" /\ Wrote(a, "size", bs.size)
      BY <1>1, <2>2
    <3> QED BY <1>4, <1>7, <3>1, SizeWrite
  <2>3. CASE pc = "init magic"
    <3>1. pc' = "status 1" /\ Wrote(a, "magic", TRUE)
      BY <1>1, <2>3
    <3> QED BY <1>4, <1>7, <3>1, MagicWrite
  <2> QED BY <1>1, <2>1, <2>2, <2>3
<1>10. Sector' = Sector /\ use_scratch' = use_scratch /\ StatusArea' = StatusArea
  BY <1>6, BsSame
<1>11. Intact' /\ Valid(Slot1)' /\ SwapSize' = SwapSize
  BY <1>2, <1>5, <1>6, SlotsSame DEF First
<1>12. /\ trailer[Scratch].status = {} /\ trailer'[Scratch].status = {}
       /\ trailer'[Slot1] = trailer[Slot1]
  BY <1>3, <1>5, <1>7, <1>8 DEF First
<1>13. Silent' /\ (use_scratch => Fresh')
  <2>1. CASE use_scratch
    BY <1>5, <1>7, <1>8, <1>12, <2>1 DEF First, Silent, Fresh
  <2>2. CASE ~use_scratch
    BY <1>3, <1>5, <1>7, <1>8, <1>12, <2>2 DEF First, Silent
  <2> QED BY <2>1, <2>2
<1>14. ~use_scratch => trailer'[Slot0].status = {} /\ ~trailer'[Slot0].copy_done
  BY <1>3, <1>5, <1>7, <1>8 DEF First
<1>15. /\ pc' \in {"init magic", "status 1"} => trailer'[a].size = bs.size
       /\ pc' = "status 1" => trailer'[a].magic
  BY <1>1, <1>5, <1>8 DEF First
<1>16. Spare(Q, Sector)'
  BY <1>2, <1>3, <1>5, <1>6, <1>10 DEF First, Spare, Q
<1>17. First'
  BY <1>3, <1>5, <1>6, <1>10, <1>11, <1>12, <1>13, <1>14, <1>15, <1>16 DEF First
<1> QED BY <1>3, <1>4, <1>5, <1>6, <1>8, <1>17, Within DEF Types

-----------------------------------------------------------------------------
(* A status byte: the run of written bytes grows by one.                   *)
LEMMA StatusByte ==
  ASSUME Types, NEW a \in Areas, NEW p \in 0 .. 3 * NumSectors, WriteStatus(a, p)
  PROVE  /\ \A b \in Areas \ {a} : trailer'[b] = trailer[b]
         /\ trailer'[a].magic = trailer[a].magic
         /\ trailer'[a].copy_done = trailer[a].copy_done
         /\ trailer'[a].status = trailer[a].status \cup {p}
         /\ trailer'[a].size = trailer[a].size
         /\ trailer' \in [Areas -> Trailers]
         /\ data' = data /\ swap_type' = swap_type /\ seen' = seen
<1>1. trailer[a].status \cup {p} \in SUBSET (0 .. 3 * NumSectors)
  BY DEF Types, Trailers
<1>2. Wrote(a, "status", trailer[a].status \cup {p})
  BY DEF WriteStatus, Wrote
<1>3. data' = data /\ swap_type' = swap_type /\ seen' = seen
  BY DEF WriteStatus
<1> QED BY <1>1, <1>2, <1>3, StatusWrite

LEMMA RunGrows == ASSUME NEW p \in Nat PROVE (1 .. p) \cup {p + 1} = 1 .. (p + 1)
OBVIOUS

(* How the exchange gets on at its sector.                                 *)
LEMMA Saving ==
  ASSUME NEW n \in 1 .. NumSectors, NEW i \in 0 .. NumSectors, i < n,
         Point(n, i, 0), Spare(Q, n - 1 - i)
  PROVE  Point(n, i, 1)
BY DEF Point

LEMMA Moving ==
  ASSUME NEW n \in 1 .. NumSectors, NEW i \in 0 .. NumSectors, i < n,
         Point(n, i, 1), Put(Slot1, P, n - 1 - i)
  PROVE  Point(n, i, 2)
BY DEF Point

LEMMA Advancing ==
  ASSUME NEW n \in 1 .. NumSectors, NEW i \in 0 .. NumSectors, i < n,
         Point(n, i, 2), Put(Slot0, Q, n - 1 - i)
  PROVE  Point(n, i + 1, 0)
<1> DEFINE s == n - 1 - i
           r == n - 1 - (i + 1)
<1>1. r = s - 1 /\ s \in Int /\ P \in Images /\ Q \in Images /\ Size[P] <= n /\ Size[Q] <= n
  BY DEF Point
<1>2. \A k \in Indices : /\ k < s => Put(Slot0, P, k) /\ Put(Slot1, Q, k)
                         /\ k > s => Put(Slot1, P, k) /\ Put(Slot0, Q, k)
  BY DEF Point
<1>3. Put(Slot1, P, s) /\ Put(Slot0, Q, s)
  BY PointAt
<1>4. \A k \in Indices : /\ k < r => Put(Slot0, P, k) /\ Put(Slot1, Q, k)
                         /\ k > r => Put(Slot1, P, k) /\ Put(Slot0, Q, k)
  <2> TAKE k \in Indices
  <2>1. k \in Int /\ (k < r => k < s) /\ (k > r => k > s \/ k = s)
    BY <1>1, Numbers
  <2> QED BY <1>2, <1>3, <2>1
<1>5. i + 1 < n => Put(Slot0, P, r) /\ Put(Slot1, Q, r)
  <2>1. i + 1 < n => r \in Indices /\ r < s
    BY <1>1, Numbers
  <2> QED BY <1>2, <2>1
<1> QED BY <1>1, <1>4, <1>5 DEF Point

LEMMA Status1Step == ASSUME SwapInv, Status1 PROVE SwapInv'
<1>1. /\ pc = "status 1" /\ pc' = "erase slot1" /\ bs' = bs
      /\ WriteStatus(StatusArea, 3 * bs.idx + 1)
  BY DEF Status1, At
<1>2. /\ pc \in State0 /\ pc \in State0 \cup State1 \cup State2
      /\ pc' \in State1 /\ pc' \notin State0 /\ pc' \notin State2
  BY <1>1 DEF State0, State1, State2
<1>3. /\ Types /\ Exchanging /\ bs.size \in 1 .. NumSectors /\ bs.idx \in 0 .. NumSectors - 1
      /\ bs.idx < bs.size /\ Sector = bs.size - 1 - bs.idx
      /\ use_scratch <=> bs.idx = 0 /\ bs.size = NumSectors
  BY <1>2, ExchangingFacts
<1>4. StatusArea \in Areas /\ (use_scratch => StatusArea = Scratch) /\ (~use_scratch => StatusArea = Slot0)
  BY DEF StatusArea
<1>5. 3 * bs.idx + 1 \in 0 .. 3 * NumSectors /\ 3 * bs.idx \in Nat
      /\ bs.idx \in 0 .. NumSectors
  BY <1>3, Numbers
<1> DEFINE a == StatusArea
<1>6. /\ \A b \in Areas \ {a} : trailer'[b] = trailer[b]
      /\ trailer'[a].magic = trailer[a].magic
      /\ trailer'[a].copy_done = trailer[a].copy_done
      /\ trailer'[a].status = trailer[a].status \cup {3 * bs.idx + 1}
      /\ trailer'[a].size = trailer[a].size
      /\ trailer' \in [Areas -> Trailers]
      /\ data' = data /\ swap_type' = swap_type /\ seen' = seen
  BY <1>1, <1>3, <1>4, <1>5, StatusByte
<1>7. Sector' = Sector /\ use_scratch' = use_scratch
  BY <1>1, BsSame
<1>8. ASSUME Point(bs.size, bs.idx, 0), Spare(Q, Sector)
      PROVE  Point(bs.size, bs.idx, 1)'
  <2>1. Point(bs.size, bs.idx, 1)
    BY <1>3, <1>5, <1>8, Saving
  <2> QED BY <1>1, <1>6, <2>1, PointSame
<1>9. data' \in [Areas -> [Indices -> Sectors]]
  BY <1>3, <1>6 DEF Types
<1>10. CASE bs.idx = 0
  <2>1. First
    BY <1>2, <1>3, <1>10 DEF Exchanging
  <2>2. Point(bs.size, bs.idx, 0)
    BY <1>2, <1>10, <2>1, FirstIsPoint
  <2>3. Point(bs.size, bs.idx, 1)'
    BY <1>1, <1>8, <2>1, <2>2 DEF First
  <2>4. /\ trailer[a].magic /\ trailer[a].size = bs.size /\ trailer[Scratch].status = {}
        /\ use_scratch => Fresh
        /\ ~use_scratch => trailer[Slot0].status = {} /\ ~trailer[Slot0].copy_done
    BY <1>1, <2>1 DEF First
  <2>5. trailer'[a].status = 1 .. 1
    <3>1. trailer[a].status = {}
      BY <1>4, <2>4
    <3>2. 3 * bs.idx + 1 = 1 /\ 1 .. 1 = {1}
      BY <1>10
    <3> QED BY <1>6, <3>1, <3>2
  <2>6. ASSUME use_scratch PROVE InScratch(bs.size, 1)' /\ Fresh'
    <3>1. InScratch(bs.size, 1)'
      BY <1>1, <1>3, <1>4, <1>6, <2>4, <2>5, <2>6 DEF InScratch
    <3>2. Fresh'
      BY <1>4, <1>6, <2>4, <2>6 DEF Fresh
    <3> QED BY <3>1, <3>2
  <2>7. ASSUME ~use_scratch PROVE InSlot0(bs.size, 3 * bs.idx + 1)'
    <3>1. 3 * bs.idx + 1 = 1
      BY <1>10
    <3> QED BY <1>1, <1>4, <1>6, <2>4, <2>5, <2>7, <3>1 DEF InSlot0
  <2>8. Saved'
    <3>1. bs' = bs /\ bs'.idx = 0
      BY <1>1, <1>10
    <3>2. ~(bs'.idx > 0)
      BY <3>1
    <3>3. pc' = "erase slot1"
      BY <1>1
    <3> QED BY <1>7, <2>3, <2>6, <2>7, <3>2, <3>3 DEF Saved
  <2> QED BY <1>1, <1>2, <1>6, <1>9, <2>8, Within
<1>11. CASE bs.idx # 0
  <2>1. Later /\ ~use_scratch
    BY <1>2, <1>3, <1>11 DEF Exchanging
  <2>2. Point(bs.size, bs.idx, 1)'
    BY <1>1, <1>8, <2>1 DEF Later
  <2>3. InSlot0(bs.size, 3 * bs.idx)
    BY <2>1 DEF Later
  <2>4. trailer'[Slot0].status = 1 .. (3 * bs.idx + 1)
    BY <1>4, <1>5, <1>6, <2>1, <2>3, RunGrows DEF InSlot0
  <2>5. InSlot0(bs.size, 3 * bs.idx + 1)'
    BY <1>1, <1>4, <1>6, <2>1, <2>3, <2>4 DEF InSlot0
  <2>6. ~trailer'[Slot1].magic
    BY <1>4, <1>6, <2>1 DEF Later
  <2>7. Saved'
    BY <1>1, <1>7, <2>1, <2>2, <2>5, <2>6 DEF Saved
  <2> QED BY <1>1, <1>2, <1>6, <1>9, <2>7, Within
<1> QED BY <1>10, <1>11

-----------------------------------------------------------------------------
(* State 1: slot 0's sector goes to slot 1.                                *)
LEMMA EraseSlot1Step == ASSUME SwapInv, EraseSlot1 PROVE SwapInv'
<1>1. /\ pc = "erase slot1" /\ pc' = "copy to slot1"
      /\ bs' = bs /\ swap_type' = swap_type /\ seen' = seen
      /\ Erased(Slot1, {Sector})
  BY DEF EraseSlot1, At, boot_erase_sector
<1>2. /\ pc \in State1 /\ pc \in State0 \cup State1 \cup State2
      /\ pc' \in State1 /\ pc' \notin State0 /\ pc' \notin State2
  BY <1>1 DEF State0, State1, State2
<1>3. /\ Types /\ Exchanging /\ bs.size \in 1 .. NumSectors /\ bs.idx \in 0 .. NumSectors
      /\ bs.idx \in Nat /\ bs.idx < bs.size /\ Sector = bs.size - 1 - bs.idx /\ {Sector} \in SUBSET Indices
  BY <1>2, ExchangingFacts
<1>4. Saved
  BY <1>2, <1>3 DEF Exchanging
<1>5. /\ data'[Slot0] = data[Slot0] /\ data'[Scratch] = data[Scratch]
      /\ trailer'[Slot0] = trailer[Slot0] /\ trailer'[Scratch] = trailer[Scratch]
      /\ trailer'[Slot1] = IF Last \in {Sector} THEN BlankTrailer ELSE trailer[Slot1]
      /\ \A k \in Indices : k # Sector => data'[Slot1][k] = data[Slot1][k]
  <2>1. Slot1 # Scratch
    OBVIOUS
  <2> QED BY <1>1, <1>3, <2>1, ErasedAreas
<1>6. data' \in [Areas -> [Indices -> Sectors]] /\ trailer' \in [Areas -> Trailers]
  BY <1>1, <1>3, ErasedTypes
<1>7. Sector' = Sector /\ use_scratch' = use_scratch
  BY <1>1, BsSame
<1>8. Point(bs.size, bs.idx, 1)'
  <2>1. Point(bs.size, bs.idx, 1)
    BY <1>4 DEF Saved
  <2>2. \A k \in Indices : k < bs.size /\ k # bs.size - 1 - bs.idx => data'[Slot1][k] = data[Slot1][k]
    BY <1>3, <1>5
  <2>3. bs' = bs /\ seen' = seen
    BY <1>1
  <2> QED BY <1>3, <1>5, <2>1, <2>2, <2>3, StaysInState1
<1>9. ~trailer[Slot1].magic \/ Last = Sector => ~trailer'[Slot1].magic
  BY <1>5 DEF BlankTrailer
<1>10. IF use_scratch THEN InScratch(bs.size, 1)' /\ Fresh' ELSE InSlot0(bs.size, 3 * bs.idx + 1)'
  BY <1>1, <1>4, <1>5 DEF Saved, InScratch, Fresh, InSlot0
<1>11. bs.idx > 0 => ~trailer'[Slot1].magic
  BY <1>4, <1>9 DEF Saved
<1>12. Last' = Last
  BY DEF Last
<1>13. Saved'
  BY <1>1, <1>7, <1>8, <1>9, <1>10, <1>11, <1>12 DEF Saved
<1> QED BY <1>1, <1>2, <1>6, <1>13, Within

LEMMA CopyToSlot1Step == ASSUME SwapInv, CopyToSlot1 PROVE SwapInv'
<1>1. /\ pc = "copy to slot1"
      /\ pc' = IF bs.idx = 0 /\ ~use_scratch THEN "erase slot1 trailer" ELSE "status 2"
      /\ boot_copy_sector(Slot0, Sector, Slot1, Sector)
  BY DEF CopyToSlot1, At
<1>2. /\ pc \in State1 /\ pc \in State0 \cup State1 \cup State2
      /\ pc' \in State1 /\ pc' \notin State0 /\ pc' \notin State2
  BY <1>1 DEF State0, State1, State2
<1>3. /\ Types /\ Exchanging /\ bs.size \in 1 .. NumSectors /\ bs.idx \in 0 .. NumSectors
      /\ bs.idx \in Nat /\ bs.idx < bs.size /\ Sector = bs.size - 1 - bs.idx /\ Sector \in Indices
      /\ Last = NumSectors - 1
      /\ use_scratch <=> bs.idx = 0 /\ bs.size = NumSectors
  BY <1>2, ExchangingFacts
<1>4. Saved
  BY <1>2, <1>3 DEF Exchanging
<1>5. /\ data'[Slot0] = data[Slot0] /\ data'[Scratch] = data[Scratch]
      /\ \A k \in Indices : data'[Slot1][k] = IF k = Sector THEN data[Slot0][Sector] ELSE data[Slot1][k]
      /\ bs' = bs /\ swap_type' = swap_type /\ seen' = seen /\ trailer' = trailer
      /\ data' \in [Areas -> [Indices -> Sectors]] /\ trailer' \in [Areas -> Trailers]
  <2>1. Types /\ Slot0 \in Areas /\ Slot1 \in Areas /\ Sector \in Indices
    BY <1>3
  <2>2. /\ \A b \in Areas \ {Slot1} : data'[b] = data[b]
        /\ \A k \in Indices : data'[Slot1][k] = IF k = Sector THEN data[Slot0][Sector]
                                                        ELSE data[Slot1][k]
        /\ data' \in [Areas -> [Indices -> Sectors]] /\ trailer' \in [Areas -> Trailers]
        /\ trailer' = trailer /\ bs' = bs /\ swap_type' = swap_type /\ seen' = seen
    BY <1>1, <2>1, CopyAreas
  <2> QED BY <2>1, <2>2
<1>6. Sector' = Sector /\ use_scratch' = use_scratch
  BY <1>5, BsSame
<1>7. Point(bs.size, bs.idx, 1)' /\ Put(Slot1, P, Sector)'
  <2>1. Point(bs.size, bs.idx, 1)
    BY <1>4 DEF Saved
  <2>2. Put(Slot0, P, bs.size - 1 - bs.idx)
    BY <1>3, <2>1, PointAt
  <2>3. \A k \in Indices : k < bs.size /\ k # bs.size - 1 - bs.idx => data'[Slot1][k] = data[Slot1][k]
    BY <1>3, <1>5
  <2>4. Point(bs.size, bs.idx, 1)'
    BY <1>3, <1>5, <2>1, <2>3, StaysInState1
  <2>5. Put(Slot1, P, Sector)'
    BY <1>3, <1>5, <1>6, <2>2 DEF Put, P
  <2> QED BY <2>4, <2>5
<1>8. pc' = "status 2" => ~trailer[Slot1].magic
  <2>1. use_scratch => Sector = Last
    BY <1>3
  <2>2. bs.idx # 0 => bs.idx > 0
    BY <1>3
  <2>3. pc' = "status 2" => bs.idx > 0 \/ Sector = Last
    BY <1>1, <2>1, <2>2
  <2> QED BY <1>1, <1>4, <2>3 DEF Saved
<1>9. IF use_scratch THEN InScratch(bs.size, 1)' /\ Fresh' ELSE InSlot0(bs.size, 3 * bs.idx + 1)'
  BY <1>4, <1>5 DEF Saved, InScratch, Fresh, InSlot0
<1>10. bs.idx > 0 => ~trailer'[Slot1].magic
  BY <1>4, <1>5 DEF Saved
<1>11. Saved'
  BY <1>1, <1>5, <1>6, <1>7, <1>8, <1>9, <1>10 DEF Saved
<1> QED BY <1>2, <1>5, <1>11, Within

LEMMA EraseRequestStep == ASSUME SwapInv, EraseRequest PROVE SwapInv'
<1>1. /\ pc = "erase slot1 trailer" /\ pc' = "status 2"
      /\ bs' = bs /\ swap_type' = swap_type /\ seen' = seen
      /\ Erased(Slot1, {Last})
  BY DEF EraseRequest, At, boot_erase_sector
<1>2. /\ pc \in State1 /\ pc \in State0 \cup State1 \cup State2
      /\ pc' \in State1 /\ pc' \notin State0 /\ pc' \notin State2
  BY <1>1 DEF State0, State1, State2
<1>3. /\ Types /\ Exchanging /\ bs.size \in 1 .. NumSectors /\ bs.idx \in 0 .. NumSectors
      /\ bs.idx \in Nat /\ bs.idx < bs.size /\ Sector = bs.size - 1 - bs.idx
      /\ Last = NumSectors - 1 /\ {Last} \in SUBSET Indices
      /\ use_scratch <=> bs.idx = 0 /\ bs.size = NumSectors
  BY <1>2, ExchangingFacts
<1>4. Saved /\ bs.idx = 0 /\ ~use_scratch /\ Put(Slot1, P, Sector)
  <2>1. Saved
    BY <1>2, <1>3 DEF Exchanging
  <2> QED BY <1>1, <2>1 DEF Saved
<1>5. bs.size <= Last /\ Sector < Last
  BY <1>3, <1>4, Numbers
<1>6. /\ data'[Slot0] = data[Slot0] /\ data'[Scratch] = data[Scratch]
      /\ trailer'[Slot0] = trailer[Slot0] /\ trailer'[Scratch] = trailer[Scratch]
      /\ trailer'[Slot1] = BlankTrailer
      /\ \A k \in Indices : k # Last => data'[Slot1][k] = data[Slot1][k]
  <2>1. Last \in {Last}
    OBVIOUS
  <2> QED BY <1>1, <1>3, <2>1, ErasedAreas
<1>7. data' \in [Areas -> [Indices -> Sectors]] /\ trailer' \in [Areas -> Trailers]
  BY <1>1, <1>3, ErasedTypes
<1>8. Sector' = Sector /\ use_scratch' = use_scratch
  BY <1>1, BsSame
<1>9. Sector \in Indices /\ Sector # Last /\ data'[Slot1][Sector] = data[Slot1][Sector]
  <2>1. Sector \in Indices /\ Sector # Last
    BY <1>2, <1>3, <1>5, ExchangingFacts
  <2> QED BY <1>6, <2>1
<1>10. Point(bs.size, bs.idx, 1)' /\ Put(Slot1, P, Sector)'
  <2>1. Point(bs.size, bs.idx, 1)
    BY <1>4 DEF Saved
  <2>2. \A k \in Indices : k < bs.size /\ k # bs.size - 1 - bs.idx => data'[Slot1][k] = data[Slot1][k]
    <3> TAKE k \in Indices
    <3>1. k < bs.size => k # Last
      BY <1>3, <1>5, Numbers
    <3> QED BY <1>6, <3>1
  <2>3. bs' = bs /\ seen' = seen
    BY <1>1
  <2>4. Point(bs.size, bs.idx, 1)'
    BY <1>3, <1>6, <2>1, <2>2, <2>3, StaysInState1
  <2>5. Put(Slot1, P, Sector)'
    BY <1>1, <1>4, <1>8, <1>9 DEF Put, P
  <2> QED BY <2>4, <2>5
<1>11. ~trailer'[Slot1].magic
  BY <1>6 DEF BlankTrailer
<1>12. InSlot0(bs.size, 3 * bs.idx + 1)'
  BY <1>1, <1>4, <1>6 DEF Saved, InSlot0
<1>13. Saved'
  BY <1>1, <1>4, <1>8, <1>10, <1>11, <1>12 DEF Saved
<1> QED BY <1>1, <1>2, <1>7, <1>13, Within

LEMMA Status2Step == ASSUME SwapInv, Status2 PROVE SwapInv'
<1>1. /\ pc = "status 2" /\ pc' = "erase slot0" /\ bs' = bs
      /\ WriteStatus(StatusArea, 3 * bs.idx + 2)
  BY DEF Status2, At
<1>2. /\ pc \in State1 /\ pc \in State0 \cup State1 \cup State2
      /\ pc' \in State2 /\ pc' \notin State0 /\ pc' \notin State1
  BY <1>1 DEF State0, State1, State2
<1>3. /\ Types /\ Exchanging /\ bs.size \in 1 .. NumSectors /\ bs.idx \in 0 .. NumSectors
      /\ bs.idx \in 0 .. NumSectors - 1 /\ NumSectors \in Nat
      /\ bs.idx < bs.size /\ Sector = bs.size - 1 - bs.idx
      /\ use_scratch <=> bs.idx = 0 /\ bs.size = NumSectors
  BY <1>2, ExchangingFacts
<1>4. StatusArea \in Areas /\ (use_scratch => StatusArea = Scratch) /\ (~use_scratch => StatusArea = Slot0)
  BY DEF StatusArea
<1>5. /\ 3 * bs.idx + 2 \in 0 .. 3 * NumSectors /\ 3 * bs.idx + 1 \in Nat
      /\ 3 * bs.idx + 2 = (3 * bs.idx + 1) + 1
  BY <1>3
<1> DEFINE a == StatusArea
<1>6. /\ \A b \in Areas \ {a} : trailer'[b] = trailer[b]
      /\ trailer'[a].magic = trailer[a].magic
      /\ trailer'[a].copy_done = trailer[a].copy_done
      /\ trailer'[a].status = trailer[a].status \cup {3 * bs.idx + 2}
      /\ trailer'[a].size = trailer[a].size
      /\ trailer' \in [Areas -> Trailers]
      /\ data' = data /\ swap_type' = swap_type /\ seen' = seen
  BY <1>1, <1>3, <1>4, <1>5, StatusByte
<1>7. Sector' = Sector /\ use_scratch' = use_scratch
  BY <1>1, BsSame
<1>8. Saved
  BY <1>2, <1>3 DEF Exchanging
<1>9. Point(bs.size, bs.idx, 2)'
  <2>1. Point(bs.size, bs.idx, 1) /\ Put(Slot1, P, bs.size - 1 - bs.idx)
    BY <1>1, <1>3, <1>8 DEF Saved
  <2>2. Point(bs.size, bs.idx, 2)
    BY <1>3, <2>1, Moving
  <2> QED BY <1>1, <1>6, <2>2, PointSame
<1>10. data' \in [Areas -> [Indices -> Sectors]]
  BY <1>3, <1>6 DEF Types
<1>11. ~trailer'[Slot1].magic
  BY <1>1, <1>4, <1>6, <1>8 DEF Saved
<1>12. ASSUME use_scratch PROVE InScratch(bs.size, 2)' /\ Fresh'
  <2>1. InScratch(bs.size, 1) /\ Fresh /\ bs.idx = 0
    BY <1>3, <1>8, <1>12 DEF Saved
  <2>2. 1 \in Nat /\ 3 * bs.idx + 2 = 1 + 1 /\ 1 + 1 = 2
    BY <2>1
  <2>3. trailer'[Scratch].status = 1 .. 2
    BY <1>4, <1>6, <1>12, <2>1, <2>2, RunGrows DEF InScratch
  <2>4. InScratch(bs.size, 2)'
    BY <1>1, <1>4, <1>6, <1>12, <2>1, <2>3 DEF InScratch
  <2>5. Fresh'
    BY <1>4, <1>6, <1>12, <2>1 DEF Fresh
  <2> QED BY <2>4, <2>5
<1>13. ASSUME ~use_scratch PROVE InSlot0(bs.size, 3 * bs.idx + 2)'
  <2>1. InSlot0(bs.size, 3 * bs.idx + 1)
    BY <1>8, <1>13 DEF Saved
  <2>2. trailer'[Slot0].status = 1 .. (3 * bs.idx + 2)
    BY <1>4, <1>5, <1>6, <1>13, <2>1, RunGrows DEF InSlot0
  <2> QED BY <1>1, <1>4, <1>6, <1>13, <2>1, <2>2 DEF InSlot0
<1>14. Moved'
  BY <1>1, <1>7, <1>9, <1>11, <1>12, <1>13 DEF Moved
<1> QED BY <1>1, <1>2, <1>6, <1>10, <1>14, Within

-----------------------------------------------------------------------------
(* State 2: the scratch area goes to slot 0, with the status it kept.      *)
LEMMA EraseSlot0Step == ASSUME SwapInv, EraseSlot0 PROVE SwapInv'
<1>1. /\ pc = "erase slot0" /\ pc' = "copy to slot0"
      /\ bs' = bs /\ swap_type' = swap_type /\ seen' = seen
      /\ Erased(Slot0, {Sector})
  BY DEF EraseSlot0, At, boot_erase_sector
<1>2. /\ pc \in State2 /\ pc \in State0 \cup State1 \cup State2
      /\ pc' \in State2 /\ pc' \notin State0 /\ pc' \notin State1
  BY <1>1 DEF State0, State1, State2
<1>3. /\ Types /\ Exchanging /\ bs.size \in 1 .. NumSectors /\ bs.idx \in 0 .. NumSectors
      /\ bs.idx \in Nat /\ NumSectors \in Nat /\ bs.idx < bs.size
      /\ Sector = bs.size - 1 - bs.idx /\ {Sector} \in SUBSET Indices /\ Last = NumSectors - 1
      /\ use_scratch <=> bs.idx = 0 /\ bs.size = NumSectors
  BY <1>2, ExchangingFacts
<1>4. Moved
  BY <1>2, <1>3 DEF Exchanging
<1>5. Last \in {Sector} <=> use_scratch
  BY <1>3
<1>6. /\ data'[Slot1] = data[Slot1] /\ data'[Scratch] = data[Scratch]
      /\ trailer'[Slot1] = trailer[Slot1] /\ trailer'[Scratch] = trailer[Scratch]
      /\ use_scratch => trailer'[Slot0] = BlankTrailer
      /\ ~use_scratch => trailer'[Slot0] = trailer[Slot0]
      /\ \A k \in Indices : k # Sector => data'[Slot0][k] = data[Slot0][k]
  <2>1. Slot0 # Scratch
    OBVIOUS
  <2>2. /\ \A b \in Areas \ {Slot0} : data'[b] = data[b] /\ trailer'[b] = trailer[b]
        /\ \A k \in Indices : data'[Slot0][k] = IF k \in {Sector} THEN Blank ELSE data[Slot0][k]
        /\ trailer'[Slot0] = IF Slot0 = Scratch \/ Last \in {Sector} THEN BlankTrailer ELSE trailer[Slot0]
    BY <1>1, <1>3, ErasedAreas
  <2> QED BY <1>5, <2>1, <2>2
<1>7. data' \in [Areas -> [Indices -> Sectors]] /\ trailer' \in [Areas -> Trailers]
  BY <1>1, <1>3, ErasedTypes
<1>8. Sector' = Sector /\ use_scratch' = use_scratch
  BY <1>1, BsSame
<1>9. Point(bs.size, bs.idx, 2)'
  <2>1. Point(bs.size, bs.idx, 2)
    BY <1>4 DEF Moved
  <2>2. \A k \in Indices : k < bs.size /\ k # bs.size - 1 - bs.idx => data'[Slot0][k] = data[Slot0][k]
    BY <1>3, <1>6
  <2>3. bs' = bs /\ seen' = seen
    BY <1>1
  <2> QED BY <1>3, <1>6, <2>1, <2>2, <2>3, StaysInState2
<1>10. /\ ~trailer'[Slot1].magic
       /\ use_scratch => InScratch(bs.size, 2)'
       /\ ~use_scratch => InSlot0(bs.size, 3 * bs.idx + 2)'
       /\ use_scratch => ~trailer'[Slot0].magic /\ ~trailer'[Slot0].copy_done
  <2>1. /\ ~trailer[Slot1].magic
        /\ use_scratch => InScratch(bs.size, 2)
        /\ ~use_scratch => InSlot0(bs.size, 3 * bs.idx + 2)
    BY <1>4 DEF Moved
  <2>2. bs' = bs
    BY <1>1
  <2>3. use_scratch => ~trailer'[Slot0].magic /\ ~trailer'[Slot0].copy_done
    BY <1>6 DEF BlankTrailer
  <2> QED BY <1>6, <2>1, <2>2, <2>3 DEF InScratch, InSlot0
<1>11. Moved'
  BY <1>1, <1>8, <1>9, <1>10 DEF Moved
<1> QED BY <1>1, <1>2, <1>7, <1>11, Within

LEMMA CopyToSlot0Step == ASSUME SwapInv, CopyToSlot0 PROVE SwapInv'
<1>1. /\ pc = "copy to slot0"
      /\ pc' = IF use_scratch THEN "move status" ELSE "status 0"
      /\ boot_copy_sector(Scratch, 0, Slot0, Sector)
  BY DEF CopyToSlot0, At
<1>2. /\ pc \in State2 /\ pc \in State0 \cup State1 \cup State2
      /\ pc' \in State2 /\ pc' \notin State0 /\ pc' \notin State1
  BY <1>1 DEF State0, State1, State2
<1>3. /\ Types /\ Exchanging /\ bs.size \in 1 .. NumSectors /\ bs.idx \in 0 .. NumSectors
      /\ bs.idx < bs.size /\ Sector = bs.size - 1 - bs.idx /\ Sector \in Indices
  BY <1>2, ExchangingFacts
<1>4. Moved
  BY <1>2, <1>3 DEF Exchanging
<1>5. /\ data'[Slot1] = data[Slot1] /\ data'[Scratch] = data[Scratch]
      /\ \A k \in Indices : data'[Slot0][k] = IF k = Sector THEN data[Scratch][0] ELSE data[Slot0][k]
      /\ bs' = bs /\ swap_type' = swap_type /\ seen' = seen /\ trailer' = trailer
      /\ data' \in [Areas -> [Indices -> Sectors]] /\ trailer' \in [Areas -> Trailers]
  <2>1. Types /\ Slot0 \in Areas /\ Scratch \in Areas /\ Sector \in Indices /\ 0 \in Indices
    BY <1>3, Numbers
  <2>2. /\ \A b \in Areas \ {Slot0} : data'[b] = data[b]
        /\ \A k \in Indices : data'[Slot0][k] = IF k = Sector THEN data[Scratch][0]
                                                        ELSE data[Slot0][k]
        /\ data' \in [Areas -> [Indices -> Sectors]] /\ trailer' \in [Areas -> Trailers]
        /\ trailer' = trailer /\ bs' = bs /\ swap_type' = swap_type /\ seen' = seen
    BY <1>1, <2>1, CopyAreas
  <2> QED BY <2>1, <2>2
<1>6. Sector' = Sector /\ use_scratch' = use_scratch
  BY <1>5, BsSame
<1>7. Point(bs.size, bs.idx, 2)' /\ Put(Slot0, Q, Sector)'
  <2>1. Point(bs.size, bs.idx, 2)
    BY <1>4 DEF Moved
  <2>2. Spare(Q, bs.size - 1 - bs.idx)
    BY <1>3, <2>1, PointAt
  <2>3. \A k \in Indices : k < bs.size /\ k # bs.size - 1 - bs.idx => data'[Slot0][k] = data[Slot0][k]
    BY <1>3, <1>5
  <2>4. Point(bs.size, bs.idx, 2)'
    BY <1>3, <1>5, <2>1, <2>3, StaysInState2
  <2>5. Put(Slot0, Q, Sector)'
    BY <1>3, <1>5, <1>6, <2>2 DEF Put, Spare, Q
  <2> QED BY <2>4, <2>5
<1>8. /\ ~trailer'[Slot1].magic
      /\ use_scratch => InScratch(bs.size, 2)'
      /\ ~use_scratch => InSlot0(bs.size, 3 * bs.idx + 2)'
      /\ use_scratch => ~trailer'[Slot0].magic /\ ~trailer'[Slot0].copy_done
  BY <1>1, <1>4, <1>5 DEF Moved, InScratch, InSlot0
<1>9. Moved'
  BY <1>1, <1>6, <1>7, <1>8 DEF Moved
<1> QED BY <1>2, <1>5, <1>9, Within

LEMMA MoveStatusStep == ASSUME SwapInv, MoveStatus PROVE SwapInv'
<1>1. /\ pc = "move status" /\ pc' = "move image_ok"
      /\ Wrote(Slot0, "status", trailer[Scratch].status)
      /\ data' = data /\ bs' = bs /\ swap_type' = swap_type
  BY DEF MoveStatus, At, Keep, Wrote
<1>2. seen' = seen
  <2>1. ~Settled'
    BY <1>1 DEF Settled, Running
  <2> QED BY <2>1 DEF MoveStatus, Keep, Remember
<1>3. /\ pc \in State2 /\ pc \in State0 \cup State1 \cup State2
      /\ pc' \in State2 /\ pc' \notin State0 /\ pc' \notin State1
  BY <1>1 DEF State0, State1, State2
<1>4. Types /\ Exchanging
  BY <1>3, ExchangingFacts
<1>5. Moved
  BY <1>3, <1>4 DEF Exchanging
<1>6. /\ use_scratch /\ InScratch(bs.size, 2)
      /\ ~trailer[Slot1].magic /\ ~trailer[Slot0].magic /\ ~trailer[Slot0].copy_done
      /\ Point(bs.size, bs.idx, 2) /\ Put(Slot0, Q, Sector)
  BY <1>1, <1>5 DEF Moved
<1>7. /\ trailer'[Slot1] = trailer[Slot1] /\ trailer'[Scratch] = trailer[Scratch]
      /\ ~trailer'[Slot0].magic /\ ~trailer'[Slot0].copy_done
      /\ trailer'[Slot0].status = trailer[Scratch].status
      /\ trailer' \in [Areas -> Trailers]
  <2>1. trailer[Scratch].status \in SUBSET (0 .. 3 * NumSectors) /\ Slot0 \in Areas
    BY <1>4 DEF Types, Trailers
  <2>2. /\ \A b \in Areas \ {Slot0} : trailer'[b] = trailer[b]
        /\ trailer'[Slot0].magic = trailer[Slot0].magic
        /\ trailer'[Slot0].copy_done = trailer[Slot0].copy_done
        /\ trailer'[Slot0].status = trailer[Scratch].status
        /\ trailer' \in [Areas -> Trailers]
    BY <1>1, <1>4, <2>1, StatusWrite
  <2> QED BY <1>6, <2>2
<1>8. Sector' = Sector /\ use_scratch' = use_scratch
  BY <1>1, BsSame
<1>9. Point(bs.size, bs.idx, 2)' /\ Put(Slot0, Q, Sector)'
  BY <1>1, <1>2, <1>6, <1>8, PointSame DEF Put, Q
<1>10. InScratch(bs.size, 2)' /\ trailer'[Slot0].status = 1 .. 2
  BY <1>1, <1>6, <1>7 DEF InScratch
<1>11. Moved'
  BY <1>1, <1>6, <1>7, <1>8, <1>9, <1>10 DEF Moved
<1> QED BY <1>1, <1>3, <1>4, <1>7, <1>11, Within DEF Types

LEMMA MoveTrailerStep == ASSUME SwapInv, MoveTrailer PROVE SwapInv'
<1>1. /\ \/ /\ pc = "move image_ok" /\ pc' = "move size"
            /\ Wrote(Slot0, "image_ok", trailer[Slot0].image_ok \/ trailer[Scratch].image_ok)
         \/ pc = "move size" /\ pc' = "move magic" /\ Wrote(Slot0, "size", bs.size)
         \/ pc = "move magic" /\ pc' = "status 0" /\ Wrote(Slot0, "magic", TRUE)
      /\ data' = data /\ bs' = bs /\ swap_type' = swap_type
  BY DEF MoveTrailer, WriteTrailer, At, Keep, Wrote
<1>2. seen' = seen
  <2>1. ~Settled'
    BY <1>1 DEF Settled, Running
  <2>2. Remember
    BY DEF MoveTrailer, WriteTrailer, Keep
  <2> QED BY <2>1, <2>2 DEF Remember
<1>3. /\ pc \in State2 /\ pc \in State0 \cup State1 \cup State2
      /\ pc' \in State2 /\ pc' \notin State0 /\ pc' \notin State1
      /\ pc \in {"move image_ok", "move size", "move magic"}
      /\ pc' \in {"move size", "move magic", "status 0"}
  BY <1>1 DEF State0, State1, State2
<1>4. Types /\ Exchanging
  BY <1>3, ExchangingFacts
<1>5. Moved
  BY <1>3, <1>4 DEF Exchanging
<1>6. /\ use_scratch /\ InScratch(bs.size, 2)
      /\ ~trailer[Slot1].magic /\ ~trailer[Slot0].magic /\ ~trailer[Slot0].copy_done
      /\ trailer[Slot0].status = 1 .. 2
      /\ pc = "move magic" => trailer[Slot0].size = bs.size
      /\ Point(bs.size, bs.idx, 2) /\ Put(Slot0, Q, Sector)
  BY <1>3, <1>5 DEF Moved
<1>7. /\ trailer'[Slot1] = trailer[Slot1] /\ trailer'[Scratch] = trailer[Scratch]
      /\ ~trailer'[Slot0].copy_done /\ trailer'[Slot0].status = 1 .. 2
      /\ pc' # "status 0" => ~trailer'[Slot0].magic
      /\ pc' = "status 0" => trailer'[Slot0].magic
      /\ pc' \in {"move magic", "status 0"} => trailer'[Slot0].size = bs.size
      /\ trailer' \in [Areas -> Trailers]
  <2>0. Slot0 \in Areas /\ Slot1 \in Areas \ {Slot0} /\ Scratch \in Areas \ {Slot0}
    OBVIOUS
  <2>1. CASE pc = "move image_ok"
    <3>1. (trailer[Slot0].image_ok \/ trailer[Scratch].image_ok) \in BOOLEAN
      OBVIOUS
    <3>2. pc' = "move size" /\ Wrote(Slot0, "image_ok", trailer[Slot0].image_ok \/ trailer[Scratch].image_ok)
      BY <1>1, <2>1
    <3> QED BY <1>4, <1>6, <2>0, <3>1, <3>2, ImageOkWrite
  <2>2. CASE pc = "move size"
    <3>1. pc' = "move magic" /\ Wrote(Slot0, "size", bs.size)
      BY <1>1, <2>2
    <3>2. bs.size \in 0 .. NumSectors
      BY <1>4 DEF Types
    <3> QED BY <1>4, <1>6, <2>0, <3>1, <3>2, SizeWrite
  <2>3. CASE pc = "move magic"
    <3>1. pc' = "status 0" /\ Wrote(Slot0, "magic", TRUE) /\ trailer[Slot0].size = bs.size
      BY <1>1, <1>6, <2>3
    <3> QED BY <1>4, <1>6, <2>0, <3>1, MagicWrite
  <2> QED BY <1>1, <2>1, <2>2, <2>3
<1>8. Sector' = Sector /\ use_scratch' = use_scratch
  BY <1>1, BsSame
<1>9. Point(bs.size, bs.idx, 2)' /\ Put(Slot0, Q, Sector)'
  BY <1>1, <1>2, <1>6, <1>8, PointSame DEF Put, Q
<1>10. InScratch(bs.size, 2)'
  BY <1>1, <1>6, <1>7 DEF InScratch
<1>11. pc' = "status 0" => InSlot0(bs.size, 3 * bs.idx + 2)'
  <2>1. bs.idx = 0
    BY <1>6 DEF use_scratch
  <2>2. 3 * bs.idx + 2 = 2
    BY <2>1
  <2> QED BY <1>1, <1>7, <2>2 DEF InSlot0
<1>12. Moved'
  <2>1. ~(~use_scratch' \/ pc' = "status 0") \/ pc' = "status 0"
    BY <1>6, <1>8
  <2>2. pc' \notin {"erase slot0", "copy to slot0"} /\ use_scratch' /\ ~trailer'[Slot1].magic
    BY <1>3, <1>6, <1>7, <1>8
  <2>3. pc' # "status 0" => ~trailer'[Slot0].magic /\ ~trailer'[Slot0].copy_done
    BY <1>7
  <2>4. pc' = "move magic" => trailer'[Slot0].size = bs'.size
    BY <1>1, <1>7
  <2>5. trailer'[Slot0].status = 1 .. 2
    BY <1>7
  <2> QED BY <1>9, <1>10, <1>11, <2>1, <2>2, <2>3, <2>4, <2>5 DEF Moved
<1> QED BY <1>1, <1>3, <1>4, <1>7, <1>12, Within DEF Types

LEMMA NextSectorStep == ASSUME SwapInv, NextSector PROVE SwapInv'
<1>1. /\ pc = "status 0" /\ bs' = [bs EXCEPT !.idx = bs.idx + 1]
      /\ pc' = IF bs'.idx < bs.size THEN "erase scratch" ELSE "finish"
      /\ WriteStatus(Slot0, 3 * bs'.idx)
  BY DEF NextSector, At
<1>2. /\ pc \in State2 /\ pc \in State0 \cup State1 \cup State2
  BY <1>1 DEF State0, State1, State2
<1>3. /\ Types /\ Exchanging /\ bs.size \in 1 .. NumSectors /\ bs.idx \in 0 .. NumSectors
      /\ bs.idx < bs.size /\ Sector = bs.size - 1 - bs.idx
  BY <1>2, ExchangingFacts
<1>4. PICK n \in 1 .. NumSectors, i \in 0 .. NumSectors : bs.size = n /\ bs.idx = i
  BY <1>3
<1>5. bs'.idx = i + 1 /\ bs'.size = n
  <2>1. bs \in [idx : 0 .. NumSectors, size : 0 .. NumSectors]
    BY <1>3 DEF Types
  <2> QED BY <1>1, <1>4, <2>1
<1>6. /\ i < n /\ i + 1 \in 0 .. NumSectors /\ n \in 0 .. NumSectors
      /\ 3 * (i + 1) \in 0 .. 3 * NumSectors /\ 3 * i + 2 \in Nat
      /\ 3 * (i + 1) = (3 * i + 2) + 1 /\ i + 1 # 0
  BY <1>3, <1>4, Numbers
<1>7. bs' \in [idx : 0 .. NumSectors, size : 0 .. NumSectors]
  <2>1. bs \in [idx : 0 .. NumSectors, size : 0 .. NumSectors]
    BY <1>3 DEF Types
  <2> QED BY <1>1, <1>4, <1>6, <2>1
<1>8. Moved
  BY <1>2, <1>3 DEF Exchanging
<1>9. /\ trailer'[Slot1] = trailer[Slot1]
      /\ trailer'[Slot0].magic = trailer[Slot0].magic
      /\ trailer'[Slot0].copy_done = trailer[Slot0].copy_done
      /\ trailer'[Slot0].status = trailer[Slot0].status \cup {3 * (i + 1)}
      /\ trailer'[Slot0].size = trailer[Slot0].size
      /\ trailer' \in [Areas -> Trailers]
      /\ data' = data /\ swap_type' = swap_type /\ seen' = seen
  <2>1. Slot0 \in Areas /\ Slot1 \in Areas \ {Slot0}
    OBVIOUS
  <2>2. WriteStatus(Slot0, 3 * (i + 1))
    BY <1>1, <1>5
  <2> QED BY <1>3, <1>6, <2>1, <2>2, StatusByte
<1>10. Types'
  BY <1>3, <1>7, <1>9 DEF Types
<1>11. InSlot0(n, 3 * (i + 1))'
  <2>1. InSlot0(n, 3 * i + 2)
    BY <1>1, <1>4, <1>8 DEF Moved
  <2>2. trailer'[Slot0].status = 1 .. (3 * (i + 1))
    <3>1. trailer[Slot0].status = 1 .. (3 * i + 2)
      BY <2>1 DEF InSlot0
    <3>2. (1 .. (3 * i + 2)) \cup {(3 * i + 2) + 1} = 1 .. ((3 * i + 2) + 1)
      BY <1>6, RunGrows
    <3> QED BY <1>6, <1>9, <3>1, <3>2
  <2> QED BY <1>9, <2>1, <2>2 DEF InSlot0
<1>12. Point(n, i + 1, 0)'
  <2>1. Point(n, i, 2) /\ Put(Slot0, Q, n - 1 - i)
    BY <1>1, <1>3, <1>4, <1>8 DEF Moved
  <2>2. Point(n, i + 1, 0)
    BY <1>6, <2>1, Advancing
  <2> QED BY <1>9, <2>2, PointSame
<1>13. ~trailer'[Slot1].magic
  BY <1>8, <1>9 DEF Moved
<1>14. swap_type' \in {"test", "perm", "revert", "resumed"}
  BY <1>3, <1>9 DEF Exchanging
<1>15. CASE i + 1 < n
  <2>1. pc' = "erase scratch"
    BY <1>1, <1>4, <1>5, <1>15
  <2>2. Later'
    BY <1>5, <1>11, <1>12, <1>13, <2>1 DEF Later
  <2>3. pc' \in State0 /\ pc' \notin State1 /\ pc' \notin State2
    BY <2>1 DEF State0, State1, State2
  <2>4. bs'.size \in 1 .. NumSectors /\ bs'.idx < bs'.size /\ bs'.idx # 0
    BY <1>5, <1>6, <1>15
  <2>5. Exchanging'
    BY <1>14, <2>2, <2>3, <2>4 DEF Exchanging
  <2>6. pc' \in State0 \cup State1 \cup State2
    BY <2>3
  <2> QED BY <1>10, <2>5, <2>6, ToExchanging
<1>16. CASE ~(i + 1 < n)
  <2>1. pc' = "finish"
    BY <1>1, <1>4, <1>5, <1>16
  <2>4. i + 1 = n
    BY <1>6, <1>16
  <2>2. Exchanged'
    BY <1>5, <1>11, <1>12, <1>13, <2>4 DEF Exchanged
  <2>3. Finishing'
    BY <1>14, <2>2 DEF Finishing
  <2> QED BY <1>10, <2>1, <2>3, ToFinish
<1> QED BY <1>15, <1>16

-----------------------------------------------------------------------------
(* Outside an exchange, what an application is told is what the slots hold.*)
LEMMA HeaderOfWholeNext ==
  ASSUME NEW a \in Areas, NEW img \in Images, Holds(a, img)'
  PROVE  Header(a)' = img /\ Valid(a)'
<1>1. 0 \in 0 .. Size[img] - 1 /\ img # "none"
  BY Numbers
<1>2. data'[a][0] = Whole(img, 0)
  BY <1>1 DEF Holds
<1>3. Header(a)' = img
  BY <1>2, FieldsOfWhole DEF Header
<1> QED BY <1>1, <1>3 DEF Valid

LEMMA SlotsTell ==
  ASSUME Types', seen' = Slots', NEW img \in Images, Holds(Slot0, img)'
  PROVE  Intact' /\ P' = img
<1>1. P' = img
  <2>1. Header(Slot0)' = img
    BY HeaderOfWholeNext
  <2> QED BY <2>1 DEF Slots, P
<1>2. /\ Header(Slot1)' = "none" => Q' = "none"
      /\ Header(Slot1)' # "none" /\ Valid(Slot1)' => Q' = Header(Slot1)'
      /\ Header(Slot1)' # "none" /\ ~Valid(Slot1)' => Q' = "damaged"
  <2>1. Q' = CASE Header(Slot1)' = "none" -> "none"
               [] Valid(Slot1)'           -> Header(Slot1)'
               [] OTHER                   -> "damaged"
    BY DEF Slots, Q
  <2>2. Valid(Slot1)' => Header(Slot1)' # "none"
    BY DEF Valid
  <2> QED BY <2>1, <2>2
<1>3. Header(Slot1)' \in Images \cup {"none"}
  <2>1. data'[Slot1][0] \in Sectors
    BY Numbers DEF Types
  <2> QED BY <2>1 DEF Sectors, Header
<1>4. Valid(Slot1)' <=> Q' \in Images
  <2>1. CASE Valid(Slot1)'
    <3>1. Header(Slot1)' # "none"
      BY <2>1 DEF Valid
    <3> QED BY <1>2, <1>3, <2>1, <3>1
  <2>2. CASE ~Valid(Slot1)'
    BY <1>2, <2>2, Numbers
  <2> QED BY <2>1, <2>2
<1>5. Q' \in Images => Holds(Slot1, Q)'
  <2>1. Valid(Slot1)' => Holds(Slot1, Header(Slot1))'
    BY DEF Valid
  <2>2. Q' \in Images => Q' = Header(Slot1)' /\ Valid(Slot1)'
    BY <1>2, <1>4, Numbers
  <2> QED BY <2>1, <2>2 DEF Holds
<1> QED BY <1>1, <1>4, <1>5 DEF Intact

LEMMA ExchangedIsDone ==
  ASSUME Types, Exchanged
  PROVE  /\ P \in Images /\ Q \in Images /\ Holds(Slot0, Q) /\ Holds(Slot1, P)
         /\ trailer[Slot0].magic /\ ~trailer[Slot0].copy_done
<1>1. Point(bs.size, bs.size, 0) /\ InSlot0(bs.size, 3 * bs.size)
  BY DEF Exchanged
<1>2. P \in Images /\ Q \in Images /\ bs.size \in Nat
  BY <1>1 DEF Point, Types
<1>3. \A k \in Indices : k > bs.size - 1 - bs.size
  BY <1>2, Numbers
<1>4. \A k \in Indices : Put(Slot1, P, k) /\ Put(Slot0, Q, k)
  BY <1>1, <1>3 DEF Point
<1>5. Holds(Slot0, Q) /\ Holds(Slot1, P)
  <2>1. \A img \in {P, Q} : \A k \in 0 .. Size[img] - 1 : k \in Indices /\ k < Size[img]
    BY <1>2, Numbers
  <2> QED BY <1>4, <2>1 DEF Put, Holds
<1> QED BY <1>1, <1>2, <1>5 DEF InSlot0

LEMMA ImageOkStep == ASSUME SwapInv, boot_set_image_ok PROVE SwapInv'
<1>1. /\ pc = "finish"
      /\ swap_type' = IF swap_type = "resumed" THEN boot_previous_swap_type ELSE swap_type
      /\ trailer' = IF swap_type' \in {"revert", "fail"}
                    THEN [trailer EXCEPT ![Slot0].image_ok = TRUE] ELSE trailer
      /\ pc' = IF swap_type' \in {"test", "perm", "revert"} THEN "copy_done" ELSE "validate"
      /\ data' = data /\ bs' = bs /\ Remember
  BY DEF boot_set_image_ok
<1>2. Types /\ Finishing
  BY <1>1 DEF SwapInv
<1>3. /\ \A a \in Areas \ {Slot0} : trailer'[a] = trailer[a]
      /\ trailer'[Slot0].magic = trailer[Slot0].magic
      /\ trailer'[Slot0].copy_done = trailer[Slot0].copy_done
      /\ trailer'[Slot0].status = trailer[Slot0].status
      /\ trailer'[Slot0].size = trailer[Slot0].size
      /\ trailer' \in [Areas -> Trailers]
  <2>1. CASE swap_type' \in {"revert", "fail"}
    <3>1. Wrote(Slot0, "image_ok", TRUE) /\ TRUE \in BOOLEAN
      BY <1>1, <2>1 DEF Wrote
    <3> QED BY <1>2, <3>1, ImageOkWrite
  <2>2. CASE swap_type' \notin {"revert", "fail"}
    BY <1>1, <1>2, <2>2 DEF Types
  <2> QED BY <2>1, <2>2
<1>4. Types'
  BY <1>1, <1>2, <1>3 DEF Types
<1>5. CASE swap_type \in {"none", "fail"} /\ Intact /\ Silent /\ Fresh
  <2>1. pc' = "validate"
    BY <1>1, <1>5
  <2>2. seen' = Slots'
    BY <1>1, <2>1 DEF Remember, Settled
  <2>3. PICK img \in Images : img = P /\ Holds(Slot0, img)
    BY <1>5 DEF Intact
  <2>4. Holds(Slot0, img)'
    BY <1>1, <2>3 DEF Holds
  <2>5. Intact'
    BY <1>4, <2>2, <2>4, SlotsTell
  <2>6. Silent' /\ Fresh'
    BY <1>3, <1>5 DEF Silent, Fresh
  <2> QED BY <1>4, <2>1, <2>2, <2>5, <2>6, ToRest DEF AtRest
<1>6. CASE swap_type \in {"test", "perm", "revert", "resumed"} /\ Exchanged
  <2>1. boot_previous_swap_type = "perm"
    <3>1. ~trailer[Slot1].magic /\ ~trailer[Slot0].copy_done
      BY <1>2, <1>6, ExchangedIsDone DEF Exchanged
    <3>2. boot_swap_type = "none"
      BY <3>1 DEF boot_swap_type
    <3> QED BY <3>2 DEF boot_previous_swap_type
  <2>2. swap_type' \in {"test", "perm", "revert"} /\ pc' = "copy_done"
    BY <1>1, <1>6, <2>1
  <2>3. seen' = seen
    BY <1>1, <2>2 DEF Remember, Settled, Running
  <2>4. Exchanged'
    BY <1>1, <1>3, <1>6, <2>3, PointSame DEF Exchanged, InSlot0
  <2> QED BY <1>4, <2>2, <2>4, ToCopyDone
<1> QED BY <1>2, <1>5, <1>6 DEF Finishing

LEMMA CopyDoneWrite ==
  ASSUME Types, Wrote(Slot0, "copy_done", TRUE)
  PROVE  /\ \A b \in Areas \ {Slot0} : trailer'[b] = trailer[b]
         /\ trailer'[Slot0].magic = trailer[Slot0].magic
         /\ trailer'[Slot0].copy_done
         /\ trailer' \in [Areas -> Trailers]
<1>1. TRUE \in BOOLEAN
  OBVIOUS
<1> QED BY <1>1, FieldWrite

LEMMA CopyDoneStep == ASSUME SwapInv, boot_set_copy_done PROVE SwapInv'
<1>1. /\ pc = "copy_done" /\ pc' = "validate" /\ Wrote(Slot0, "copy_done", TRUE)
      /\ data' = data /\ bs' = bs
  BY DEF boot_set_copy_done, At, Keep, Wrote
<1>2. Types /\ Exchanged
  BY <1>1 DEF SwapInv
<1>3. seen' = Slots'
  <2>1. Settled' /\ Remember
    BY <1>1 DEF boot_set_copy_done, Keep, Settled
  <2> QED BY <2>1 DEF Remember
<1>4. trailer'[Slot0].magic = trailer[Slot0].magic /\ trailer'[Slot0].copy_done
      /\ trailer' \in [Areas -> Trailers]
  BY <1>1, <1>2, CopyDoneWrite
<1>5. Types'
  BY <1>1, <1>2, <1>4 DEF Types
<1>6. PICK img \in Images : Holds(Slot0, img)
  BY <1>2, ExchangedIsDone
<1>7. Holds(Slot0, img)'
  BY <1>1, <1>6 DEF Holds
<1>8. Intact'
  BY <1>3, <1>5, <1>7, SlotsTell
<1>9. trailer[Slot0].magic
  BY <1>2, ExchangedIsDone
<1>10. Silent' /\ Fresh'
  BY <1>4, <1>9 DEF Silent, Fresh
<1> QED BY <1>1, <1>3, <1>5, <1>8, <1>10, ToRest DEF AtRest

LEMMA BootActionStep == ASSUME SwapInv, Boot PROVE SwapInv'
<1>1. /\ pc = "validate" /\ pc' = IF Valid(Slot0) THEN "run" ELSE "failed"
      /\ bs' = Idle /\ data' = data /\ trailer' = trailer /\ Remember
  BY DEF Boot, At, flash
<1>2. Types /\ AtRest
  BY <1>1 DEF SwapInv, Settled
<1>3. PICK img \in Images : Holds(Slot0, img)
  BY <1>2 DEF AtRest, Intact
<1>4. pc' = "run"
  BY <1>1, <1>3, HeaderOfWhole
<1>5. seen' = Slots'
  BY <1>1, <1>4 DEF Remember, Settled, Running
<1>6. Types'
  <2>1. 0 \in 0 .. NumSectors
    BY Numbers
  <2> QED BY <1>1, <1>2, <2>1 DEF Types, Idle
<1>7. Holds(Slot0, img)'
  BY <1>1, <1>3 DEF Holds
<1>8. Intact'
  BY <1>5, <1>6, <1>7, SlotsTell
<1>9. Silent' /\ Fresh'
  BY <1>1, <1>2 DEF AtRest, Silent, Fresh
<1> QED BY <1>4, <1>5, <1>6, <1>8, <1>9, ToRest DEF AtRest

(* An erasure in slot 1 leaves a bad image bad.                            *)
LEMMA ErasedStaysBad ==
  ASSUME Types, NEW S \in SUBSET Indices, Erased(Slot1, S), seen' = seen,
         Intact, Silent, Fresh, ~Valid(Slot1)
  PROVE  /\ Intact' /\ Silent' /\ Fresh' /\ ~Valid(Slot1)'
         /\ data' \in [Areas -> [Indices -> Sectors]] /\ trailer' \in [Areas -> Trailers]
<1>1. /\ \A b \in Areas \ {Slot1} : data'[b] = data[b] /\ trailer'[b] = trailer[b]
      /\ \A k \in Indices : data'[Slot1][k] = IF k \in S THEN Blank ELSE data[Slot1][k]
      /\ data' \in [Areas -> [Indices -> Sectors]] /\ trailer' \in [Areas -> Trailers]
  BY ErasedAreas, ErasedTypes
<1>2. data'[Slot0] = data[Slot0] /\ trailer'[Slot0] = trailer[Slot0] /\ trailer'[Scratch] = trailer[Scratch]
  BY <1>1
<1>3. ASSUME NEW img \in Images, Holds(Slot1, img)' PROVE Holds(Slot1, img)
  <2> SUFFICES ASSUME NEW k \in 0 .. Size[img] - 1 PROVE data[Slot1][k] = Whole(img, k)
    BY DEF Holds
  <2>1. data'[Slot1][k] = Whole(img, k) /\ k \in Indices
    BY <1>3, Numbers DEF Holds
  <2> QED BY <1>1, <2>1, FieldsOfWhole
<1>4. ~Valid(Slot1)'
  <2> SUFFICES ASSUME Valid(Slot1)' PROVE FALSE
    OBVIOUS
  <2>1. data'[Slot1][0] \in Sectors
    BY <1>1, Numbers
  <2>2. PICK img \in Images : Holds(Slot1, img)'
    BY <2>1 DEF Valid, Header, Sectors, Holds
  <2> QED BY <1>3, <2>2, HeaderOfWhole
<1>5. Q \notin Images /\ Q' = Q /\ P' = P /\ P \in Images /\ Holds(Slot0, P)
  BY DEF Intact, P, Q
<1>6. Holds(Slot0, P)'
  BY <1>2, <1>5 DEF Holds
<1>7. Intact'
  BY <1>4, <1>5, <1>6 DEF Intact
<1>8. Silent' /\ Fresh'
  BY <1>2 DEF Silent, Fresh
<1> QED BY <1>1, <1>4, <1>7, <1>8

LEMMA DiscardStep == ASSUME SwapInv, Discard PROVE SwapInv'
<1>1. /\ pc = "discard" /\ pc' = "finish" /\ Erased(Slot1, Indices)
      /\ bs' = bs /\ swap_type' = swap_type /\ seen' = seen
  BY DEF Discard, At
<1>2. Types /\ Discarding
  BY <1>1 DEF SwapInv
<1>3. Intact' /\ Silent' /\ Fresh' /\ Types'
  BY <1>1, <1>2, ErasedStaysBad DEF Discarding, Types
<1>4. swap_type' = "fail"
  BY <1>1, <1>2 DEF Discarding
<1> QED BY <1>1, <1>3, <1>4, ToFinish DEF Finishing

-----------------------------------------------------------------------------
(* The application.                                                        *)
LEMMA RestStep ==
  ASSUME SwapInv, pc \in {"run", "pending"}, pc' \in {"run", "pending"}, bs' = bs,
         data' \in [Areas -> [Indices -> Sectors]], trailer' \in [Areas -> Trailers],
         data'[Slot0] = data[Slot0], trailer'[Scratch] = trailer[Scratch],
         trailer'[Slot0].magic = trailer[Slot0].magic,
         trailer'[Slot0].copy_done = trailer[Slot0].copy_done,
         trailer'[Slot0].status = trailer[Slot0].status,
         Remember
  PROVE  SwapInv'
<1>1. Types /\ AtRest
  BY DEF SwapInv, Settled, Running
<1>2. Types'
  BY <1>1 DEF Types
<1>3. seen' = Slots'
  BY DEF Remember, Settled, Running
<1>4. PICK img \in Images : Holds(Slot0, img)
  BY <1>1 DEF AtRest, Intact
<1>5. Holds(Slot0, img)'
  BY <1>4 DEF Holds
<1>6. Intact'
  BY <1>2, <1>3, <1>5, SlotsTell
<1>7. Silent' /\ Fresh'
  BY <1>1 DEF AtRest, Silent, Fresh
<1> QED BY <1>2, <1>3, <1>6, <1>7, ToRest DEF AtRest

LEMMA ImageTypes ==
  ASSUME NEW img \in Images, NEW whole \in BOOLEAN
  PROVE  ImageData(img, whole) \in [Indices -> Sectors]
<1>1. \A k \in Indices : [img |-> img, k |-> k, whole |-> whole] \in Sectors
  BY DEF Sectors
<1> QED BY <1>1, BlankTypes DEF ImageData

LEMMA DownloadStep == ASSUME SwapInv, Download PROVE SwapInv'
<1>1. PICK img \in Images, whole \in BOOLEAN :
        data' = [data EXCEPT ![Slot1] = ImageData(img, whole)]
  BY DEF Download
<1>2. /\ pc = "run" /\ pc' = pc /\ bs' = bs /\ Remember
      /\ trailer' = [trailer EXCEPT ![Slot1] = BlankTrailer]
  BY DEF Download
<1>3. Types
  BY DEF SwapInv
<1>4. data' \in [Areas -> [Indices -> Sectors]] /\ data'[Slot0] = data[Slot0]
  BY <1>1, <1>3, ImageTypes DEF Types
<1>5. /\ trailer' \in [Areas -> Trailers]
      /\ trailer'[Slot0] = trailer[Slot0] /\ trailer'[Scratch] = trailer[Scratch]
  BY <1>2, <1>3, BlankTypes DEF Types
<1> QED BY <1>2, <1>4, <1>5, RestStep

LEMMA SetPendingStep == ASSUME SwapInv, boot_set_pending PROVE SwapInv'
<1>1. /\ pc \in {"run", "pending"} /\ pc' \in {"run", "pending"}
      /\ data' = data /\ bs' = bs /\ Remember
      /\ Wrote(Slot1, "magic", TRUE) \/ Wrote(Slot1, "image_ok", TRUE)
  BY DEF boot_set_pending, At, Keep, Wrote
<1>2. Types
  BY DEF SwapInv
<1>3. TRUE \in BOOLEAN /\ Slot1 \in Areas /\ Slot0 \in Areas \ {Slot1} /\ Scratch \in Areas \ {Slot1}
  OBVIOUS
<1>4. /\ \A b \in Areas \ {Slot1} : trailer'[b] = trailer[b]
      /\ trailer' \in [Areas -> Trailers]
  BY <1>1, <1>2, <1>3, MagicWrite, ImageOkWrite
<1> QED BY <1>1, <1>2, <1>3, <1>4, RestStep DEF Types

LEMMA SetConfirmedStep == ASSUME SwapInv, boot_set_confirmed PROVE SwapInv'
<1>1. /\ pc \in {"run", "pending"} /\ pc' \in {"run", "pending"}
      /\ data' = data /\ bs' = bs /\ Remember
      /\ Wrote(Slot0, "image_ok", TRUE)
  BY DEF boot_set_confirmed, Keep, Wrote
<1>2. Types
  BY DEF SwapInv
<1>3. TRUE \in BOOLEAN /\ Slot0 \in Areas /\ Scratch \in Areas \ {Slot0}
  OBVIOUS
<1>4. /\ \A b \in Areas \ {Slot0} : trailer'[b] = trailer[b]
      /\ trailer'[Slot0].magic = trailer[Slot0].magic
      /\ trailer'[Slot0].copy_done = trailer[Slot0].copy_done
      /\ trailer'[Slot0].status = trailer[Slot0].status
      /\ trailer' \in [Areas -> Trailers]
  BY <1>1, <1>2, <1>3, ImageOkWrite
<1> QED BY <1>1, <1>2, <1>3, <1>4, RestStep DEF Types

LEMMA InitHolds == ASSUME Init PROVE SwapInv
<1>1. /\ data[Slot0] = ImageData(Initial, TRUE)
      /\ \A k \in Indices : data[Slot1][k] = Blank
      /\ data \in [Areas -> [Indices -> Sectors]]
      /\ \A a \in Areas : trailer[a] = BlankTrailer
      /\ trailer \in [Areas -> Trailers]
      /\ pc = "run" /\ bs = Idle /\ seen = Slots
  <2>1. Initial \in Images /\ TRUE \in BOOLEAN
    BY SwapAssumption
  <2>2. ImageData(Initial, TRUE) \in [Indices -> Sectors]
    BY <2>1, ImageTypes
  <2>3. [k \in Indices |-> Blank] \in [Indices -> Sectors]
    BY BlankTypes
  <2>4. data \in [Areas -> [Indices -> Sectors]]
    BY <2>2, <2>3 DEF Init
  <2> QED BY <2>4, BlankTypes DEF Init
<1>2. Types
  <2>1. 0 \in 0 .. NumSectors
    BY Numbers
  <2> QED BY <1>1, <2>1 DEF Types, Idle
<1>3. Initial \in Images /\ Holds(Slot0, Initial)
  <2>1. Initial \in Images
    BY SwapAssumption
  <2>2. \A k \in 0 .. Size[Initial] - 1 : k \in Indices /\ ~(k >= Size[Initial])
    BY <2>1, Numbers
  <2> QED BY <1>1, <2>1, <2>2 DEF Holds, ImageData, Whole
<1>4. Header(Slot1) = "none" /\ ~Valid(Slot1)
  <2>1. data[Slot1][0] = Blank
    BY <1>1, Numbers
  <2> QED BY <2>1 DEF Header, Valid, Blank
<1>5. P = Initial /\ Q = "none"
  <2>1. Header(Slot0) = Initial
    BY <1>3, HeaderOfWhole
  <2> QED BY <1>1, <1>4, <2>1 DEF P, Q, Slots
<1>6. Intact
  BY <1>3, <1>4, <1>5, Numbers DEF Intact
<1>7. Silent /\ Fresh
  BY <1>1 DEF Silent, Fresh, BlankTrailer
<1> QED BY <1>1, <1>2, <1>6, <1>7 DEF SwapInv, AtRest, State0, State1, State2

-----------------------------------------------------------------------------
(* A start: what it reads from flash is where the exchange stands.         *)
LEMMA SizeOfSwap ==
  ASSUME NEW img \in Images, NEW other \in Images, Holds(Slot0, img), Holds(Slot1, other)
  PROVE  SwapSize \in 1 .. NumSectors
<1>1. SectorsOf(Slot0) = Size[img] /\ SectorsOf(Slot1) = Size[other]
  BY HeaderOfWhole
<1>2. Size[img] \in 1 .. NumSectors /\ Size[other] \in 1 .. NumSectors
  BY Numbers
<1>3. SwapSize = Max({Size[img], Size[other]})
  BY <1>1 DEF SwapSize
<1>4. \E x \in {Size[img], Size[other]} : \A y \in {Size[img], Size[other]} : x >= y
  BY <1>2, Numbers
<1>5. Max({Size[img], Size[other]}) \in {Size[img], Size[other]}
  BY <1>4 DEF Max
<1> QED BY <1>2, <1>3, <1>5

LEMMA Position ==
  ASSUME NEW i \in Nat, NEW st \in 0 .. 2
  PROVE  (3 * i + st) \div 3 = i /\ (3 * i + st) % 3 = st
OBVIOUS

LEMMA Entries ==
  /\ EntryOf(0) = "erase scratch"
  /\ EntryOf(1) = "erase slot1"
  /\ EntryOf(2) = "erase slot0"
BY DEF EntryOf

LEMMA StartStep == ASSUME SwapInv, Start PROVE SwapInv'
<1>1. /\ pc = "off" /\ ~Interrupted /\ data' = data /\ trailer' = trailer /\ seen' = seen
  BY DEF Start, flash
<1>2. Types /\ Off
  BY <1>1 DEF SwapInv
<1>3. Intact /\ Silent /\ (Fresh \/ Redo)
  <2>1. ASSUME NEW n \in 1 .. NumSectors, NEW i \in 0 .. NumSectors, NEW st \in 0 .. 2,
               i + st > 0, Told(n, i, st)
        PROVE  FALSE
    BY <1>1, <2>1, ToldIsRead
  <2> QED BY <1>2, <2>1 DEF Off
<1>4. Intact' /\ Valid(Slot1)' = Valid(Slot1) /\ SwapSize' = SwapSize /\ Silent'
      /\ (Fresh => Fresh')
  BY <1>1, <1>3, SlotsSame DEF Silent, Fresh
<1>5. CASE boot_swap_type = "none" /\ swap_type' = "none" /\ pc' = "finish" /\ bs' = bs
  <2>1. ~trailer[Slot1].magic
    BY <1>5 DEF boot_swap_type
  <2>2. Finishing'
    BY <1>3, <1>4, <1>5, <2>1 DEF Redo, Finishing
  <2> QED BY <1>1, <1>2, <1>5, <2>2, ToFinish DEF Types
<1>6. CASE /\ boot_swap_type # "none" /\ Valid(Slot1)
           /\ swap_type' = boot_swap_type
           /\ bs' = [idx |-> 0, size |-> SwapSize]
           /\ pc' = IF Sized(Slot0) /\ Sized(Slot1) THEN "erase scratch" ELSE "failed"
  <2>1. P \in Images /\ Q \in Images /\ Holds(Slot0, P) /\ Holds(Slot1, Q)
    BY <1>3, <1>6 DEF Intact
  <2>2. pc' = "erase scratch"
    BY <1>6, <2>1, HeaderOfWhole
  <2>3. SwapSize \in 1 .. NumSectors
    BY <2>1, SizeOfSwap
  <2>4. Types'
    <3>1. SwapSize \in 0 .. NumSectors /\ 0 \in 0 .. NumSectors
      BY <2>3, Numbers
    <3> QED BY <1>1, <1>2, <1>6, <3>1 DEF Types
  <2>5. /\ swap_type' \in {"test", "perm", "revert"}
        /\ swap_type' # "revert" => trailer'[Slot1].magic
    BY <1>1, <1>6 DEF boot_swap_type
  <2>6. use_scratch' => Fresh'
    <3>1. ASSUME use_scratch' PROVE ~Redo
      <4>1. Sector' = SwapSize - 1 - 0 /\ Sector' = NumSectors - 1
        BY <1>6, <3>1 DEF use_scratch, Sector, Last
      <4> QED BY <2>3, <4>1, Numbers DEF Redo
    <3> QED BY <1>3, <1>4, <3>1
  <2>7. First'
    BY <1>4, <1>6, <2>2, <2>5, <2>6 DEF First
  <2>8. bs'.size \in 1 .. NumSectors /\ bs'.idx = 0 /\ bs'.idx < bs'.size
    <3>1. bs'.size = SwapSize /\ bs'.idx = 0
      BY <1>6
    <3>2. 0 < SwapSize
      BY <2>3, Numbers
    <3> QED BY <2>3, <3>1, <3>2
  <2>9. pc' \in State0 /\ pc' \notin State1 /\ pc' \notin State2
        /\ pc' \in State0 \cup State1 \cup State2
    BY <2>2 DEF State0, State1, State2
  <2>10. Exchanging'
    BY <2>5, <2>7, <2>8, <2>9 DEF Exchanging
  <2> QED BY <2>4, <2>9, <2>10, ToExchanging
<1>7. CASE /\ ~Valid(Slot1) /\ swap_type' = "fail" /\ bs' = bs
           /\ pc' = IF Header(Slot1) = "none" THEN "finish" ELSE "discard"
  <2>1. Types'
    BY <1>1, <1>2, <1>7 DEF Types
  <2>2. Fresh'
    BY <1>3, <1>4, <1>7 DEF Redo
  <2>3. Finishing' /\ Discarding'
    BY <1>4, <1>7, <2>2 DEF Finishing, Discarding
  <2> QED BY <1>7, <2>1, <2>3, ToFinish, ToDiscard
<1> QED BY <1>5, <1>6, <1>7 DEF Start

LEMMA ResumeStep == ASSUME SwapInv, Resume PROVE SwapInv'
<1>1. /\ pc = "off" /\ Interrupted
      /\ data' = data /\ trailer' = trailer /\ seen' = seen /\ swap_type' = "resumed"
  BY DEF Resume, flash
<1>2. Types /\ Off
  BY <1>1 DEF SwapInv
<1>3. PICK n \in 1 .. NumSectors, i \in 0 .. NumSectors, st \in 0 .. 2 :
        /\ i <= n /\ i + st > 0 /\ (i = n => st = 0)
        /\ Told(n, i, st) /\ Point(n, i, st)
        /\ i > 0 \/ st = 2 => ~trailer[Slot1].magic
  BY <1>1, <1>2, SilentIsNotInterrupted DEF Off
<1>4. /\ StatusEnd(boot_status_source) = 3 * i + st
      /\ boot_read_swap_size = n
      /\ trailer[Slot0].magic \/ trailer[Scratch].magic
  BY <1>3, ToldIsRead
<1>5. i \in Nat /\ n \in Nat /\ NumSectors \in Nat /\ n \in 0 .. NumSectors /\ i < NumSectors + 1
  BY Numbers
<1>6. /\ bs' = [idx |-> i, size |-> n]
      /\ pc' = IF i >= n THEN "finish" ELSE EntryOf(st)
  <2>1. (3 * i + st) \div 3 = i /\ (3 * i + st) % 3 = st
    BY <1>5, Position
  <2>2. bs' = [idx |-> i, size |-> n]
    BY <1>4, <2>1 DEF Resume
  <2>3. pc' = CASE ~(trailer[Slot0].magic \/ trailer[Scratch].magic) -> "failed"
                [] i >= n -> "finish"
                [] OTHER -> EntryOf(st)
    BY <1>4, <2>1, <2>2 DEF Resume
  <2> QED BY <1>4, <2>2, <2>3
<1>7. Types'
  BY <1>1, <1>2, <1>5, <1>6 DEF Types
<1>8. Point(n, i, st)'
  BY <1>1, <1>3, PointSame
<1>9. bs'.idx = i /\ bs'.size = n
  BY <1>6
<1>10. use_scratch' <=> i = 0 /\ n = NumSectors
  <2>1. use_scratch' <=> i = 0 /\ n - 1 - i = NumSectors - 1
    BY <1>9 DEF use_scratch, Sector, Last
  <2> QED BY <1>5, <2>1
<1>11. CASE i = n
  <2>1. st = 0 /\ i # 0 /\ pc' = "finish"
    BY <1>3, <1>5, <1>6, <1>11
  <2>2. InSlot0(n, 3 * n)
    <3>1. InSlot0(n, 3 * i + st)
      BY <1>3, <2>1 DEF Told
    <3>2. 3 * i + st = 3 * n
      BY <1>5, <1>11, <2>1
    <3> QED BY <3>1, <3>2
  <2>3. Exchanged'
    <3>1. Point(n, n, 0)'
      BY <1>8, <1>11, <2>1
    <3>2. InSlot0(n, 3 * n)' /\ ~trailer'[Slot1].magic
      BY <1>1, <1>3, <1>5, <2>1, <2>2 DEF InSlot0
    <3> QED BY <1>9, <1>11, <3>1, <3>2 DEF Exchanged
  <2>4. Finishing'
    BY <1>1, <2>3 DEF Finishing
  <2> QED BY <1>7, <2>1, <2>4, ToFinish
<1>12. CASE i # n
  <2>1. i < n /\ ~(i >= n)
    BY <1>3, <1>5, <1>12
  <2>2. swap_type' \in {"test", "perm", "revert", "resumed"} /\ bs'.size \in 1 .. NumSectors
        /\ bs'.idx < bs'.size
    BY <1>1, <1>9, <2>1
  <2>3. CASE st = 0
    <3>1. pc' = "erase scratch" /\ i # 0 /\ i > 0
      <4>1. i # 0 /\ i > 0
        BY <1>3, <1>5, <2>3
      <4>2. pc' = EntryOf(0)
        BY <1>6, <2>1, <2>3
      <4> QED BY <4>1, <4>2, Entries
    <3>2. InSlot0(n, 3 * i)
      <4>1. 3 * i + 0 = 3 * i
        BY <1>5
      <4> QED BY <1>3, <2>3, <3>1, <4>1 DEF Told
    <3>3. Later'
      <4>1. InSlot0(n, 3 * i)' /\ ~trailer'[Slot1].magic
        BY <1>1, <1>3, <3>1, <3>2 DEF InSlot0
      <4> QED BY <1>8, <1>9, <2>3, <3>1, <4>1 DEF Later
    <3>4. pc' \in State0 /\ pc' \notin State1 /\ pc' \notin State2
          /\ pc' \in State0 \cup State1 \cup State2
      BY <3>1 DEF State0, State1, State2
    <3>5. Exchanging'
      BY <1>9, <2>2, <3>1, <3>3, <3>4 DEF Exchanging
    <3> QED BY <1>7, <3>4, <3>5, ToExchanging
  <2>4. CASE st = 1
    <3>1. pc' = "erase slot1"
      <4>1. pc' = EntryOf(1)
        BY <1>6, <2>1, <2>4
      <4> QED BY <4>1, Entries
    <3>2. IF i = 0 /\ n = NumSectors THEN InScratch(n, 1) /\ Fresh ELSE InSlot0(n, 3 * i + 1)
      BY <1>3, <2>4 DEF Told, InScratch, Fresh
    <3>3. IF use_scratch' THEN InScratch(n, 1)' /\ Fresh' ELSE InSlot0(n, 3 * i + 1)'
      BY <1>1, <1>10, <3>2 DEF InScratch, InSlot0, Fresh
    <3>4. i > 0 => ~trailer'[Slot1].magic
      BY <1>1, <1>3
    <3>5. Saved'
      BY <1>8, <1>9, <2>4, <3>1, <3>3, <3>4 DEF Saved
    <3>6. pc' \in State1 /\ pc' \notin State0 /\ pc' \notin State2
          /\ pc' \in State0 \cup State1 \cup State2
      BY <3>1 DEF State0, State1, State2
    <3>7. Exchanging'
      BY <2>2, <3>5, <3>6 DEF Exchanging
    <3> QED BY <1>7, <3>6, <3>7, ToExchanging
  <2>5. CASE st = 2
    <3>1. pc' = "erase slot0"
      <4>1. pc' = EntryOf(2)
        BY <1>6, <2>1, <2>5
      <4> QED BY <4>1, Entries
    <3>2. /\ i = 0 /\ n = NumSectors => InScratch(n, 2) /\ (Fresh \/ InSlot0(n, 3 * i + 2))
          /\ ~(i = 0 /\ n = NumSectors) => InSlot0(n, 3 * i + 2)
          /\ ~trailer[Slot1].magic
      BY <1>3, <2>5 DEF Told, InScratch, Fresh
    <3>3. /\ use_scratch' => InScratch(n, 2)' /\ (Fresh' \/ InSlot0(n, 3 * i + 2)')
          /\ ~use_scratch' => InSlot0(n, 3 * i + 2)'
          /\ ~trailer'[Slot1].magic
      BY <1>1, <1>10, <3>2 DEF InScratch, InSlot0, Fresh
    <3>4. use_scratch' => 3 * i + 2 = 2
      BY <1>10
    <3>5. Moved'
      BY <1>8, <1>9, <2>5, <3>1, <3>3, <3>4 DEF Moved
    <3>6. pc' \in State2 /\ pc' \notin State0 /\ pc' \notin State1
          /\ pc' \in State0 \cup State1 \cup State2
      BY <3>1 DEF State0, State1, State2
    <3>7. Exchanging'
      BY <2>2, <3>5, <3>6 DEF Exchanging
    <3> QED BY <1>7, <3>6, <3>7, ToExchanging
  <2> QED BY <2>3, <2>4, <2>5
<1> QED BY <1>11, <1>12

-----------------------------------------------------------------------------
(* What a power loss does to the flash: a copy it cuts off leaves a torn   *)
(* sector, in a place that holds no image's only copy.                     *)
TornCopy(from, i, to, j) == data' = [data EXCEPT ![to][j] = Torn(data[from][i])]

LEMMA TornAreas ==
  ASSUME Types, NEW from \in Areas, NEW to \in Areas, NEW i \in Indices, NEW j \in Indices,
         TornCopy(from, i, to, j)
  PROVE  /\ \A b \in Areas \ {to} : data'[b] = data[b]
         /\ \A k \in Indices : k # j => data'[to][k] = data[to][k]
         /\ data' \in [Areas -> [Indices -> Sectors]]
<1>1. data[to] \in [Indices -> Sectors] /\ data \in [Areas -> [Indices -> Sectors]]
  BY DEF Types
<1>2. data' \in [Areas -> [Indices -> Sectors]]
  BY CopyTypes DEF TornCopy
<1> QED BY <1>1, <1>2 DEF TornCopy

LEMMA CopyKinds ==
  ASSUME NEW c \in Copies
  PROVE  \/ /\ c.at = "copy to scratch" /\ c.from = Slot1 /\ c.i = Sector
             /\ c.to = Scratch /\ c.j = 0
          \/ /\ c.at = "copy to slot1" /\ c.from = Slot0 /\ c.i = Sector
             /\ c.to = Slot1 /\ c.j = Sector
          \/ /\ c.at = "copy to slot0" /\ c.from = Scratch /\ c.i = 0
             /\ c.to = Slot0 /\ c.j = Sector
<1>1. \/ c = [at |-> "copy to scratch", from |-> Slot1, i |-> Sector, to |-> Scratch, j |-> 0]
      \/ c = [at |-> "copy to slot1", from |-> Slot0, i |-> Sector, to |-> Slot1, j |-> Sector]
      \/ c = [at |-> "copy to slot0", from |-> Scratch, i |-> 0, to |-> Slot0, j |-> Sector]
  BY DEF Copies
<1>2. ASSUME c = [at |-> "copy to scratch", from |-> Slot1, i |-> Sector, to |-> Scratch, j |-> 0]
      PROVE  c.at = "copy to scratch" /\ c.from = Slot1 /\ c.i = Sector /\ c.to = Scratch /\ c.j = 0
  BY <1>2
<1>3. ASSUME c = [at |-> "copy to slot1", from |-> Slot0, i |-> Sector, to |-> Slot1, j |-> Sector]
      PROVE  c.at = "copy to slot1" /\ c.from = Slot0 /\ c.i = Sector /\ c.to = Slot1 /\ c.j = Sector
  BY <1>3
<1>4. ASSUME c = [at |-> "copy to slot0", from |-> Scratch, i |-> 0, to |-> Slot0, j |-> Sector]
      PROVE  c.at = "copy to slot0" /\ c.from = Scratch /\ c.i = 0 /\ c.to = Slot0 /\ c.j = Sector
  BY <1>4
<1> QED BY <1>1, <1>2, <1>3, <1>4

LEMMA CutOff ==
  ASSUME PowerLoss, pc # "discard"
  PROVE  /\ trailer' = trailer
         /\ \/ data' = data
            \/ pc = "copy to scratch" /\ TornCopy(Slot1, Sector, Scratch, 0)
            \/ pc = "copy to slot1" /\ TornCopy(Slot0, Sector, Slot1, Sector)
            \/ pc = "copy to slot0" /\ TornCopy(Scratch, 0, Slot0, Sector)
<1>1. \/ data' = data /\ trailer' = trailer
      \/ \E c \in Copies :
           pc = c.at /\ TornCopy(c.from, c.i, c.to, c.j) /\ trailer' = trailer
  BY DEF PowerLoss, TornCopy, flash
<1>2. ASSUME NEW c \in Copies, pc = c.at, TornCopy(c.from, c.i, c.to, c.j)
      PROVE  \/ pc = "copy to scratch" /\ TornCopy(Slot1, Sector, Scratch, 0)
             \/ pc = "copy to slot1" /\ TornCopy(Slot0, Sector, Slot1, Sector)
             \/ pc = "copy to slot0" /\ TornCopy(Scratch, 0, Slot0, Sector)
  BY <1>2, CopyKinds
<1> QED BY <1>1, <1>2

LEMMA CutOffInExchange ==
  ASSUME SwapInv, PowerLoss, pc \in State0 \cup State1 \cup State2
  PROVE  /\ Types' /\ trailer' = trailer /\ seen' = seen /\ pc' = "off"
         /\ pc \in State0 => data'[Slot0] = data[Slot0] /\ data'[Slot1] = data[Slot1]
         /\ pc \in State1 => /\ data'[Slot0] = data[Slot0] /\ data'[Scratch] = data[Scratch]
                             /\ \A k \in Indices : k # Sector => data'[Slot1][k] = data[Slot1][k]
         /\ pc \in State2 => /\ data'[Slot1] = data[Slot1] /\ data'[Scratch] = data[Scratch]
                             /\ \A k \in Indices : k # Sector => data'[Slot0][k] = data[Slot0][k]
<1>1. Types /\ Sector \in Indices /\ 0 \in Indices
  BY ExchangingFacts, Numbers
<1>2. pc # "discard"
  BY DEF State0, State1, State2
<1>3. seen' = seen /\ pc' = "off" /\ bs' = Idle
  BY DEF PowerLoss
<1>4. trailer' = trailer
  BY <1>2, CutOff
<1>5. data' \in [Areas -> [Indices -> Sectors]] => Types'
  <2>1. Idle \in [idx : 0 .. NumSectors, size : 0 .. NumSectors]
    <3>1. 0 \in 0 .. NumSectors
      BY Numbers
    <3> QED BY <3>1 DEF Idle
  <2> QED BY <1>1, <1>3, <1>4, <2>1 DEF Types
<1>6. CASE data' = data
  BY <1>1, <1>3, <1>4, <1>5, <1>6 DEF Types
<1>7. CASE pc = "copy to scratch" /\ TornCopy(Slot1, Sector, Scratch, 0)
  <2>1. /\ data'[Slot0] = data[Slot0] /\ data'[Slot1] = data[Slot1]
        /\ data' \in [Areas -> [Indices -> Sectors]]
    BY <1>1, <1>7, TornAreas
  <2>2. pc \notin State1 /\ pc \notin State2
    BY <1>7 DEF State1, State2
  <2> QED BY <1>3, <1>4, <1>5, <2>1, <2>2
<1>8. CASE pc = "copy to slot1" /\ TornCopy(Slot0, Sector, Slot1, Sector)
  <2>1. /\ data'[Slot0] = data[Slot0] /\ data'[Scratch] = data[Scratch]
        /\ \A k \in Indices : k # Sector => data'[Slot1][k] = data[Slot1][k]
        /\ data' \in [Areas -> [Indices -> Sectors]]
    BY <1>1, <1>8, TornAreas
  <2>2. pc \notin State0 /\ pc \notin State2
    BY <1>8 DEF State0, State2
  <2> QED BY <1>3, <1>4, <1>5, <2>1, <2>2
<1>9. CASE pc = "copy to slot0" /\ TornCopy(Scratch, 0, Slot0, Sector)
  <2>1. /\ data'[Slot1] = data[Slot1] /\ data'[Scratch] = data[Scratch]
        /\ \A k \in Indices : k # Sector => data'[Slot0][k] = data[Slot0][k]
        /\ data' \in [Areas -> [Indices -> Sectors]]
    BY <1>1, <1>9, TornAreas
  <2>2. pc \notin State0 /\ pc \notin State1
    BY <1>9 DEF State0, State1
  <2> QED BY <1>3, <1>4, <1>5, <2>1, <2>2
<1>10. \/ data' = data
       \/ pc = "copy to scratch" /\ TornCopy(Slot1, Sector, Scratch, 0)
       \/ pc = "copy to slot1" /\ TornCopy(Slot0, Sector, Slot1, Sector)
       \/ pc = "copy to slot0" /\ TornCopy(Scratch, 0, Slot0, Sector)
  BY <1>2, CutOff
<1> QED BY <1>6, <1>7, <1>8, <1>9, <1>10

(* A point of the exchange that the flash tells may be left at any moment. *)
LEMMA ToldIsOff ==
  ASSUME NEW n \in 1 .. NumSectors, NEW i \in 0 .. NumSectors, NEW st \in 0 .. 2,
         i <= n, i + st > 0, i = n => st = 0,
         Told(n, i, st), Point(n, i, st)', trailer' = trailer,
         i > 0 \/ st = 2 => ~trailer[Slot1].magic
  PROVE  Off'
<1>1. Told(n, i, st)'
  BY DEF Told, InSlot0, InScratch
<1> QED BY <1>1 DEF Off

LEMMA CutOffInState0 ==
  ASSUME SwapInv, PowerLoss, pc \in State0, Excluded = {"stale", "revert"}
  PROVE  SwapInv'
<1>1. pc \in State0 \cup State1 \cup State2
  OBVIOUS
<1>2. /\ Types' /\ trailer' = trailer /\ seen' = seen /\ pc' = "off"
      /\ data'[Slot0] = data[Slot0] /\ data'[Slot1] = data[Slot1]
  BY <1>1, CutOffInExchange
<1>3. /\ Types /\ Exchanging
      /\ bs.size \in 1 .. NumSectors /\ bs.idx \in 0 .. NumSectors /\ bs.idx < bs.size
      /\ use_scratch <=> bs.idx = 0 /\ bs.size = NumSectors
  BY <1>1, ExchangingFacts
<1>4. CASE bs.idx = 0
  <2>1. First
    BY <1>3, <1>4 DEF Exchanging
  <2>2. Intact' /\ Valid(Slot1)' /\ SwapSize' = SwapSize /\ Silent' /\ (Fresh => Fresh')
    BY <1>2, <2>1, SlotsSame DEF First, Silent, Fresh
  <2>3. swap_type # "revert"
    BY DEF PowerLoss
  <2>4. ASSUME ~use_scratch PROVE Redo'
    <3>1. SwapSize < NumSectors
      <4>1. bs.size = SwapSize
        BY <2>1 DEF First
      <4>2. bs.size # NumSectors
        BY <1>3, <1>4, <2>4
      <4> QED BY <1>3, <4>1, <4>2, Numbers
    <3>2. trailer'[Slot1].magic
      BY <1>2, <2>1, <2>3 DEF First
    <3> QED BY <2>2, <3>1, <3>2 DEF Redo
  <2>5. Fresh' \/ Redo'
    BY <2>1, <2>2, <2>4 DEF First
  <2>6. Off'
    BY <2>2, <2>5 DEF Off
  <2> QED BY <1>2, <2>6, ToOff
<1>5. CASE bs.idx # 0
  <2>1. Later
    BY <1>3, <1>5 DEF Exchanging
  <2>2. PICK n \in 1 .. NumSectors, i \in 0 .. NumSectors : bs.size = n /\ bs.idx = i
    BY <1>3
  <2>3. i <= n /\ i # n /\ i + 0 > 0 /\ 3 * i + 0 = 3 * i /\ 0 \in 0 .. 2
    BY <1>3, <1>5, <2>2, Numbers
  <2>4. Point(n, i, 0)'
    <3>1. Point(n, i, 0)
      BY <2>1, <2>2 DEF Later
    <3> QED BY <1>2, <3>1, PointWithoutScratch
  <2>5. Told(n, i, 0) /\ ~trailer[Slot1].magic
    BY <1>5, <2>1, <2>2, <2>3 DEF Later, Told
  <2>6. Off'
    BY <1>2, <2>3, <2>4, <2>5, ToldIsOff
  <2> QED BY <1>2, <2>6, ToOff
<1> QED BY <1>4, <1>5

(* Where the stale trailer does not hide it, the status in the scratch     *)
(* area is what the next start finds.                                      *)
LEMMA NotHidden ==
  ASSUME NEW n, NEW p \in Nat \ {0}, InScratch(n, p), Fresh, ~Stale
  PROVE  ~trailer[Slot0].magic
<1>1. trailer[Scratch].status # {}
  <2>1. 1 \in 1 .. p
    OBVIOUS
  <2> QED BY <2>1 DEF InScratch
<1> QED BY <1>1 DEF Fresh, Stale

LEMMA CutOffInState1 ==
  ASSUME SwapInv, PowerLoss, pc \in State1, Excluded = {"stale", "revert"}
  PROVE  SwapInv'
<1>1. pc \in State0 \cup State1 \cup State2
  OBVIOUS
<1>2. /\ Types' /\ trailer' = trailer /\ seen' = seen /\ pc' = "off"
      /\ data'[Slot0] = data[Slot0] /\ data'[Scratch] = data[Scratch]
      /\ \A k \in Indices : k # Sector => data'[Slot1][k] = data[Slot1][k]
  BY <1>1, CutOffInExchange
<1>3. /\ Types /\ Exchanging
      /\ bs.size \in 1 .. NumSectors /\ bs.idx \in 0 .. NumSectors /\ bs.idx < bs.size
      /\ Sector = bs.size - 1 - bs.idx
      /\ use_scratch <=> bs.idx = 0 /\ bs.size = NumSectors
  BY <1>1, ExchangingFacts
<1>4. PICK n \in 1 .. NumSectors, i \in 0 .. NumSectors : bs.size = n /\ bs.idx = i
  BY <1>3
<1>5. Saved
  BY <1>3 DEF Exchanging
<1>6. i < n /\ i <= n /\ i # n /\ i + 1 > 0 /\ 1 \in 0 .. 2 /\ Sector = n - 1 - i
  BY <1>3, <1>4, Numbers
<1>7. Point(n, i, 1)'
  <2>1. Point(n, i, 1)
    BY <1>4, <1>5 DEF Saved
  <2>2. \A k \in Indices : k < n /\ k # n - 1 - i => data'[Slot1][k] = data[Slot1][k]
    BY <1>2, <1>6
  <2> QED BY <1>2, <1>6, <2>1, <2>2, StaysInState1
<1>8. Told(n, i, 1)
  <2>1. CASE use_scratch
    <3>1. InScratch(n, 1) /\ Fresh
      BY <1>4, <1>5, <2>1 DEF Saved
    <3>2. ~Stale
      BY DEF PowerLoss
    <3>3. ~trailer[Slot0].magic
      BY <3>1, <3>2, NotHidden
    <3> QED BY <1>3, <1>4, <2>1, <3>1, <3>3 DEF Told
  <2>2. CASE ~use_scratch
    <3>1. InSlot0(n, 3 * i + 1)
      BY <1>4, <1>5, <2>2 DEF Saved
    <3> QED BY <1>3, <1>4, <2>2, <3>1 DEF Told
  <2> QED BY <2>1, <2>2
<1>9. i > 0 => ~trailer[Slot1].magic
  BY <1>4, <1>5 DEF Saved
<1>10. Off'
  BY <1>2, <1>6, <1>7, <1>8, <1>9, ToldIsOff
<1> QED BY <1>2, <1>10, ToOff

LEMMA CutOffInState2 ==
  ASSUME SwapInv, PowerLoss, pc \in State2, Excluded = {"stale", "revert"}
  PROVE  SwapInv'
<1>1. pc \in State0 \cup State1 \cup State2
  OBVIOUS
<1>2. /\ Types' /\ trailer' = trailer /\ seen' = seen /\ pc' = "off"
      /\ data'[Slot1] = data[Slot1] /\ data'[Scratch] = data[Scratch]
      /\ \A k \in Indices : k # Sector => data'[Slot0][k] = data[Slot0][k]
  BY <1>1, CutOffInExchange
<1>3. /\ Types /\ Exchanging
      /\ bs.size \in 1 .. NumSectors /\ bs.idx \in 0 .. NumSectors /\ bs.idx < bs.size
      /\ Sector = bs.size - 1 - bs.idx
      /\ use_scratch <=> bs.idx = 0 /\ bs.size = NumSectors
  BY <1>1, ExchangingFacts
<1>4. PICK n \in 1 .. NumSectors, i \in 0 .. NumSectors : bs.size = n /\ bs.idx = i
  BY <1>3
<1>5. Moved
  BY <1>3 DEF Exchanging
<1>6. i < n /\ i <= n /\ i # n /\ i + 2 > 0 /\ 2 \in 0 .. 2 /\ Sector = n - 1 - i
  BY <1>3, <1>4, Numbers
<1>7. Point(n, i, 2)'
  <2>1. Point(n, i, 2)
    BY <1>4, <1>5 DEF Moved
  <2>2. \A k \in Indices : k < n /\ k # n - 1 - i => data'[Slot0][k] = data[Slot0][k]
    BY <1>2, <1>6
  <2> QED BY <1>2, <1>6, <2>1, <2>2, StaysInState2
<1>8. Told(n, i, 2)
  <2>1. CASE use_scratch
    <3>0. i = 0 /\ n = NumSectors
      BY <1>3, <1>4, <2>1
    <3>1. InScratch(n, 2) /\ i = 0 /\ n = NumSectors /\ 3 * i + 2 = 2
      <4>1. 3 * i + 2 = 2
        BY <3>0
      <4> QED BY <1>4, <1>5, <2>1, <3>0, <4>1 DEF Moved
    <3>2. \/ InSlot0(n, 3 * i + 2)
          \/ pc = "erase slot0" /\ (Fresh \/ InSlot0(n, 2))
          \/ ~trailer[Slot0].magic
      BY <1>4, <1>5, <2>1 DEF Moved
    <3>3. ~Stale
      BY DEF PowerLoss
    <3>4. ASSUME Fresh PROVE ~trailer[Slot0].magic
      <4>1. 2 \in Nat \ {0}
        OBVIOUS
      <4> QED BY <3>1, <3>3, <3>4, <4>1, NotHidden
    <3>5. InSlot0(n, 3 * i + 2) \/ ~trailer[Slot0].magic
      BY <3>1, <3>2, <3>4
    <3> QED BY <3>1, <3>5 DEF Told
  <2>2. CASE ~use_scratch
    <3>1. InSlot0(n, 3 * i + 2)
      BY <1>4, <1>5, <2>2 DEF Moved
    <3> QED BY <1>3, <1>4, <2>2, <3>1 DEF Told
  <2> QED BY <2>1, <2>2
<1>9. ~trailer[Slot1].magic
  BY <1>5 DEF Moved
<1>10. Off'
  BY <1>2, <1>6, <1>7, <1>8, <1>9, ToldIsOff
<1> QED BY <1>2, <1>10, ToOff

(* Outside an exchange nothing is under way in the flash.                  *)
LEMMA CutOffElse ==
  ASSUME SwapInv, PowerLoss, pc \notin State0 \cup State1 \cup State2
  PROVE  SwapInv'
<1>1. /\ pc \in {"run", "pending", "validate", "discard", "finish", "copy_done"}
      /\ seen' = seen /\ pc' = "off" /\ bs' = Idle
  BY DEF PowerLoss, SwapInv
<1>2. Types
  BY DEF SwapInv
<1>3. Idle \in [idx : 0 .. NumSectors, size : 0 .. NumSectors]
  <2>1. 0 \in 0 .. NumSectors
    BY Numbers
  <2> QED BY <2>1 DEF Idle
<1>4. CASE data' = data /\ trailer' = trailer
  <2>1. Types'
    BY <1>1, <1>2, <1>3, <1>4 DEF Types
  <2>2. ASSUME Intact, Silent, Fresh PROVE Off'
    <3>1. Intact' /\ Silent' /\ Fresh'
      BY <1>1, <1>4, <2>2, SlotsSame DEF Silent, Fresh
    <3> QED BY <3>1 DEF Off
  <2>3. ASSUME Exchanged PROVE Off'
    <3>1. bs.size \in 0 .. NumSectors
      BY <1>2 DEF Types
    <3>2. PICK n \in 0 .. NumSectors : bs.size = n
      BY <3>1
    <3>3. InSlot0(n, 3 * n) /\ Point(n, n, 0) /\ ~trailer[Slot1].magic
      BY <2>3, <3>2 DEF Exchanged
    <3>4. Size[P] \in 1 .. NumSectors /\ Size[P] <= n
      BY <3>3, Numbers DEF Point
    <3>5. /\ n \in 1 .. NumSectors /\ n <= n /\ n + 0 > 0 /\ 0 \in 0 .. 2
          /\ 3 * n + 0 = 3 * n /\ n # 0
      BY <3>4, Numbers
    <3>6. Point(n, n, 0)'
      BY <1>1, <1>4, <3>3, PointSame
    <3>7. Told(n, n, 0)
      BY <3>3, <3>5 DEF Told
    <3> QED BY <1>4, <3>3, <3>5, <3>6, <3>7, ToldIsOff
  <2>4. (Intact /\ Silent /\ Fresh) \/ Exchanged
    BY <1>1 DEF SwapInv, Settled, Running, AtRest, Discarding, Finishing
  <2> QED BY <1>1, <2>1, <2>2, <2>3, <2>4, ToOff
<1>5. CASE pc = "discard" /\ \E S \in SUBSET Indices : Erased(Slot1, S)
  <2>1. PICK S \in SUBSET Indices : Erased(Slot1, S)
    BY <1>5
  <2>2. Discarding
    BY <1>5 DEF SwapInv
  <2>3. /\ Intact' /\ Silent' /\ Fresh'
        /\ data' \in [Areas -> [Indices -> Sectors]] /\ trailer' \in [Areas -> Trailers]
    BY <1>1, <1>2, <2>1, <2>2, ErasedStaysBad DEF Discarding
  <2>4. Types' /\ Off'
    BY <1>1, <1>3, <2>3 DEF Types, Off
  <2> QED BY <1>1, <2>4, ToOff
<1>6. ASSUME NEW c \in Copies PROVE pc # c.at
  <2>1. c.at \in {"copy to scratch", "copy to slot1", "copy to slot0"}
    BY CopyKinds
  <2> QED BY <1>1, <2>1
<1> QED BY <1>4, <1>5, <1>6 DEF PowerLoss, flash

LEMMA Unchanged == ASSUME SwapInv, UNCHANGED vars PROVE SwapInv'
<1>1. /\ data' = data /\ trailer' = trailer /\ pc' = pc /\ bs' = bs
      /\ swap_type' = swap_type /\ seen' = seen
  BY DEF vars, flash
<1>2. Types' = Types /\ Intact' = Intact /\ Silent' = Silent /\ Fresh' = Fresh
  BY <1>1 DEF Types, Intact, Silent, Fresh, P, Q, Valid, Holds, Header
<1>3. Redo' = Redo
  BY <1>1, SlotsSame DEF Redo
<1>4. /\ \A n, i, st : Point(n, i, st)' = Point(n, i, st) /\ Told(n, i, st)' = Told(n, i, st)
      /\ \A n, p : InSlot0(n, p)' = InSlot0(n, p) /\ InScratch(n, p)' = InScratch(n, p)
  BY <1>1 DEF Point, Told, InSlot0, InScratch, Put, Spare, P, Q
<1>5. Off' = Off
  BY <1>1, <1>2, <1>3, <1>4 DEF Off
<1>6. AtRest' = AtRest /\ Valid(Slot1)' = Valid(Slot1) /\ SwapSize' = SwapSize
  BY <1>1, <1>2, SlotsSame DEF AtRest, Slots, Header, Valid, Holds
<1>7. Discarding' = Discarding /\ Exchanged' = Exchanged /\ Finishing' = Finishing
  BY <1>1, <1>2, <1>4, <1>6 DEF Discarding, Exchanged, Finishing
<1>8. Sector' = Sector /\ use_scratch' = use_scratch /\ StatusArea' = StatusArea
  BY <1>1, BsSame
<1>9. First' = First /\ Later' = Later /\ Saved' = Saved /\ Moved' = Moved
  BY <1>1, <1>2, <1>4, <1>6, <1>8 DEF First, Later, Saved, Moved, Put, Spare, P, Q
<1>10. Exchanging' = Exchanging /\ Settled' = Settled
  BY <1>1, <1>9 DEF Exchanging, Settled, Running
<1> QED BY <1>1, <1>2, <1>5, <1>6, <1>7, <1>10 DEF SwapInv

-----------------------------------------------------------------------------
LEMMA NextKeepsInv ==
  ASSUME SwapInv, [Next]_vars, Excluded = {"stale", "revert"}
  PROVE  SwapInv'
<1>1. CASE BootStep
  BY <1>1, ResumeStep, StartStep, DiscardStep, EraseScratchStep, CopyToScratchStep,
     EraseOldTrailerStep, StatusInitStep, Status1Step, EraseSlot1Step, CopyToSlot1Step,
     EraseRequestStep, Status2Step, EraseSlot0Step, CopyToSlot0Step, MoveStatusStep,
     MoveTrailerStep, NextSectorStep, ImageOkStep, CopyDoneStep, BootActionStep DEF BootStep
<1>2. CASE PowerLoss
  BY <1>2, CutOffInState0, CutOffInState1, CutOffInState2, CutOffElse
<1> QED BY <1>1, <1>2, DownloadStep, SetPendingStep, SetConfirmedStep, Unchanged DEF Next

(* The inductive invariant holds of every execution in which the power is  *)
(* not lost in the two circumstances the runs "boot_stale" and             *)
(* "boot_revert" show to be fatal.                                         *)
THEOREM SwapInvariant ==
  ASSUME Excluded = {"stale", "revert"}
  PROVE  Spec => []SwapInv
<1>1. Init => SwapInv
  BY InitHolds
<1>2. SwapInv /\ [Next]_vars => SwapInv'
  BY NextKeepsInv
<1> QED BY <1>1, <1>2, PTL DEF Spec

(* The variables keep their types, and a swap stays within the slots, for  *)
(* any images and any number of sectors.                                   *)
THEOREM TypeCorrect ==
  ASSUME Excluded = {"stale", "revert"}
  PROVE  Spec => []TypeOK
BY SwapInvariant, InvariantImplies, PTL

(* Wherever the power is lost in boot_copy_image, every sector of the two  *)
(* images an application last saw is whole in one of the three areas.      *)
THEOREM NothingIsLost ==
  ASSUME Excluded = {"stale", "revert"}
  PROVE  Spec => []NothingLost
BY SwapInvariant, InvariantImplies, PTL

(* No assertion of the boot loader fails, and boot_go always finds a good  *)
(* image in slot 0.                                                        *)
THEOREM NeverFails ==
  ASSUME Excluded = {"stale", "revert"}
  PROVE  Spec => []NeverFailed
BY SwapInvariant, InvariantImplies, PTL
=============================================================================
