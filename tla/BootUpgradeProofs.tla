--------------------------- MODULE BootUpgradeProofs ---------------------------
(***************************************************************************)
(* The image swap implements Upgrades, for any images, any sizes and any   *)
(* number of sectors: however often power is lost, an application sees     *)
(* whole exchanges of the two images, the ones that were asked for.        *)
(*                                                                         *)
(* BootSwapProofs says where the sectors are; here it is about what the    *)
(* application asked for.  While the exchange goes on, the request in slot *)
(* 1's trailer is erased, and only the flag image_ok that was copied with  *)
(* the status still tells a trial from an image to keep.                   *)
(***************************************************************************)
EXTENDS BootSwapProofs

Wanted == Upgrade!Wanted

(* The flag in a trailer is the one of the request.                        *)
Marked(a) ==
  seen.request # "none" => (trailer[a].image_ok <=> seen.request = "perm")
Marks ==
  /\ trailer[Scratch].magic => Marked(Scratch)
  /\ trailer[Slot0].magic /\ ~trailer[Slot0].copy_done => Marked(Slot0)

(* Before a start has its effect, the trailers tell what an application    *)
(* last saw, but for an erasure of a bad image that was cut off, and for   *)
(* slot 0's old trailer once a new exchange has begun.                     *)
Tells ==
  /\ \/ Slots.request = seen.request
     \/ Q \notin Images /\ Wanted # "none" /\ Slots.request = "none"
  /\ Slots.trial = seen.trial \/ (seen.request # "none" /\ Q \in Images)
  /\ Q \notin Images => Slots.other = Q \/ Wanted # "none"

(* An exchange is one that is wanted, and a revert no other.               *)
Kind == Wanted # "none" /\ (swap_type = "revert" <=> seen.request = "none")

(* The first sector, before its status is written: the request goes from   *)
(* slot 1 to the area of the status.                                       *)
Asking ==
  /\ Slots.request = seen.request
  /\ pc \in {"copy to scratch", "erase slot0 trailer", "init image_ok"} =>
       ~trailer[Scratch].magic /\ ~trailer[Scratch].image_ok
  /\ pc = "init image_ok" /\ ~use_scratch => ~trailer[Slot0].image_ok
  /\ pc \in {"init size", "init magic", "status 1"} =>
       Marked(StatusArea) /\ (trailer[Scratch].magic => Marked(Scratch))

(* The move of the trailer from the scratch area to slot 0.                *)
Carrying ==
  /\ use_scratch /\ pc \in {"copy to slot0", "move status", "move image_ok"} =>
       ~trailer[Slot0].image_ok
  /\ pc \in {"move size", "move magic"} => Marked(Slot0)

Concluding ==
  /\ swap_type \in {"none", "fail"} => Tells
  /\ swap_type = "none" => Slots.request = "none" /\ ~Slots.trial
  /\ swap_type = "fail" => Wanted # "none" /\ ~Valid(Slot1)
  /\ swap_type \notin {"none", "fail"} => Kind /\ Marks

Asks ==
  /\ seen.request \in {"none", "test", "perm"}
  /\ trailer[Slot1].image_ok => trailer[Slot1].magic

Going == State0 \cup State1 \cup State2

UpgradeInv ==
  /\ Asks
  /\ pc = "pending" => seen.request = "test"
  /\ pc = "off" => IF Interrupted THEN seen.request # "none" /\ Marks ELSE Tells
  /\ pc = "discard" => Tells /\ Wanted # "none"
  /\ pc = "finish" => Concluding
  /\ pc = "copy_done" => Kind /\ Marks /\ (trailer[Slot0].image_ok <=> Wanted # "test")
  /\ pc \in Going =>
       /\ Kind
       /\ IF pc \in State0 /\ bs.idx = 0 THEN Asking ELSE Marks
       /\ Carrying

-----------------------------------------------------------------------------
USE DEF Slot0, Slot1, Scratch, Areas

LEMMA WantedIs ==
  Wanted = IF seen.request # "none" THEN seen.request
           ELSE IF seen.trial THEN "revert" ELSE "none"
BY DEF Wanted, Upgrade!Wanted

(* What the invariant has to say of the next state, for each value of pc.  *)
LEMMA ToGoing ==
  ASSUME Asks', pc' \in Going, Kind', Carrying',
         IF pc' \in State0 /\ bs'.idx = 0 THEN Asking' ELSE Marks'
  PROVE  UpgradeInv'
BY DEF UpgradeInv, Going, State0, State1, State2

LEMMA ToConclude == ASSUME Asks', pc' = "finish", Concluding' PROVE UpgradeInv'
BY DEF UpgradeInv, Going, State0, State1, State2

LEMMA ToOffAgain ==
  ASSUME Asks', pc' = "off",
         Interrupted' => seen'.request # "none" /\ Marks',
         ~Interrupted' => Tells'
  PROVE  UpgradeInv'
BY DEF UpgradeInv, Going, State0, State1, State2

LEMMA ToSettled == ASSUME Asks', pc' \in {"run", "validate"} PROVE UpgradeInv'
BY DEF UpgradeInv, Going, State0, State1, State2

(* What a step that leaves the history alone has for granted.              *)
LEMMA SeenSame ==
  ASSUME seen' = seen
  PROVE  /\ Wanted' = Wanted /\ P' = P /\ Q' = Q
         /\ swap_type' = swap_type => Kind' = Kind
<1>1. Wanted' = Wanted
  BY DEF Wanted, Upgrade!Wanted
<1> QED BY <1>1 DEF P, Q, Kind

(* The step leaves alone what tells of the request.                        *)
SameMark(a) ==
  /\ trailer'[a].magic = trailer[a].magic
  /\ trailer'[a].image_ok = trailer[a].image_ok
  /\ trailer'[a].copy_done = trailer[a].copy_done

LEMMA MarkedSame ==
  ASSUME seen' = seen, NEW a \in Areas, SameMark(a)
  PROVE  Marked(a)' = Marked(a)
BY DEF SameMark, Marked

LEMMA MarksSame ==
  ASSUME seen' = seen, SameMark(Slot0), SameMark(Scratch)
  PROVE  Marks' = Marks
BY DEF SameMark, Marked, Marks

LEMMA AsksSame ==
  ASSUME seen' = seen, SameMark(Slot1), Asks
  PROVE  Asks' /\ Slots'.request = Slots.request
BY DEF SameMark, Asks, Slots

LEMMA TrailerSame == ASSUME trailer' = trailer PROVE \A a \in Areas : SameMark(a)
BY DEF SameMark

LEMMA ErasedMarks ==
  ASSUME Types, NEW a \in Areas, NEW S \in SUBSET Indices, Erased(a, S)
  PROVE  /\ \A b \in Areas \ {a} : SameMark(b)
         /\ SameMark(a) \/ (~trailer'[a].magic /\ ~trailer'[a].image_ok)
         /\ a = Scratch \/ Last \in S => ~trailer'[a].magic /\ ~trailer'[a].image_ok
BY ErasedAreas DEF SameMark, BlankTrailer

LEMMA StatusKeepsMarks ==
  ASSUME Types, NEW a \in Areas, NEW p, WriteStatus(a, p)
  PROVE  /\ \A b \in Areas : SameMark(b)
         /\ data' = data /\ swap_type' = swap_type /\ seen' = seen
BY DEF Types, Trailers, WriteStatus, SameMark

(* The writes of a trailer's fields.                                       *)
LEMMA FlagWrite ==
  ASSUME Types, NEW a \in Areas, NEW v \in BOOLEAN, Wrote(a, "image_ok", v)
  PROVE  /\ \A b \in Areas \ {a} : SameMark(b)
         /\ trailer'[a].magic = trailer[a].magic
         /\ trailer'[a].copy_done = trailer[a].copy_done
         /\ trailer'[a].image_ok = v
BY DEF Types, Trailers, Wrote, SameMark

LEMMA OtherWrite ==
  ASSUME Types, NEW a \in Areas, NEW v, Wrote(a, "size", v) \/ Wrote(a, "magic", v)
  PROVE  /\ \A b \in Areas \ {a} : SameMark(b)
         /\ trailer'[a].copy_done = trailer[a].copy_done
         /\ trailer'[a].image_ok = trailer[a].image_ok
         /\ Wrote(a, "size", v) => SameMark(a)
BY DEF Types, Trailers, Wrote, SameMark

(* What every step of an exchange starts from.                             *)
LEMMA GoingFacts ==
  ASSUME SwapInv, UpgradeInv, pc \in Going
  PROVE  /\ Types /\ Exchanging /\ Asks /\ Kind /\ Carrying
         /\ pc \in State0 /\ bs.idx = 0 => Asking /\ First
         /\ pc \notin State0 \/ bs.idx # 0 => Marks
         /\ bs.idx \in Nat /\ bs.size \in Nat /\ Sector \in Indices /\ Last \in Indices
         /\ use_scratch => bs.idx = 0 /\ Sector = Last
         /\ StatusArea = IF use_scratch THEN Scratch ELSE Slot0
<1>1. Types /\ Exchanging /\ bs.idx \in Nat /\ bs.size \in Nat /\ Sector \in Indices /\ Last \in Indices
  BY ExchangingFacts DEF Going
<1>2. pc \in State0 /\ bs.idx = 0 => First
  BY <1>1 DEF Exchanging
<1> QED BY <1>1, <1>2 DEF UpgradeInv, use_scratch, StatusArea

-----------------------------------------------------------------------------
(* State 0: the request is copied to where the status will be.             *)
LEMMA EraseScratchAsks ==
  ASSUME SwapInv, UpgradeInv, EraseScratch PROVE UpgradeInv'
<1>1. /\ pc = "erase scratch" /\ pc' = "copy to scratch" /\ Erased(Scratch, {0})
      /\ bs' = bs /\ swap_type' = swap_type /\ seen' = seen
  BY DEF EraseScratch, At, boot_erase_sector
<1>2. pc \in Going /\ pc \in State0 /\ pc' \in Going /\ pc' \in State0
  BY <1>1 DEF Going, State0
<1>3. /\ Types /\ Asks /\ Kind /\ {0} \in SUBSET Indices
      /\ bs.idx = 0 => Asking
      /\ bs.idx # 0 => Marks
  BY <1>2, GoingFacts, Numbers
<1>4. SameMark(Slot0) /\ SameMark(Slot1) /\ ~trailer'[Scratch].magic /\ ~trailer'[Scratch].image_ok
  BY <1>1, <1>3, ErasedMarks
<1>5. Asks' /\ Kind' /\ Carrying' /\ Slots'.request = Slots.request
  BY <1>1, <1>3, <1>4, AsksSame, SeenSame DEF Carrying
<1>6. bs.idx = 0 => Asking'
  BY <1>1, <1>3, <1>4, <1>5 DEF Asking
<1>7. bs.idx # 0 => Marks'
  BY <1>1, <1>3, <1>4 DEF Marks, Marked, SameMark
<1>8. bs' = bs
  BY <1>1
<1> QED BY <1>2, <1>5, <1>6, <1>7, <1>8, ToGoing

LEMMA CopyToScratchAsks ==
  ASSUME SwapInv, UpgradeInv, CopyToScratch PROVE UpgradeInv'
<1>1. /\ pc = "copy to scratch"
      /\ pc' = CASE bs.idx # 0 -> "status 1" [] use_scratch -> "init image_ok"
                 [] OTHER -> "erase slot0 trailer"
      /\ trailer' = trailer /\ bs' = bs /\ swap_type' = swap_type /\ seen' = seen
  BY DEF CopyToScratch, At, boot_copy_sector
<1>2. /\ pc' \in {"status 1", "init image_ok", "erase slot0 trailer"}
      /\ bs.idx # 0 => pc' = "status 1"
      /\ bs.idx = 0 => pc' # "status 1"
      /\ pc' = "init image_ok" => use_scratch
  <2>1. use_scratch => bs.idx = 0
    BY DEF use_scratch
  <2>2. /\ bs.idx # 0 => pc' = "status 1"
        /\ bs.idx = 0 => pc' = IF use_scratch THEN "init image_ok" ELSE "erase slot0 trailer"
    BY <1>1, <2>1
  <2> QED BY <2>2
<1>3. pc \in Going /\ pc \in State0 /\ pc' \in Going /\ pc' \in State0
  BY <1>1, <1>2 DEF Going, State0
<1>4. Asks /\ Kind /\ (bs.idx = 0 => Asking) /\ (bs.idx # 0 => Marks)
  BY <1>3, GoingFacts
<1>5. SameMark(Slot0) /\ SameMark(Slot1) /\ SameMark(Scratch)
  BY <1>1, TrailerSame
<1>6. Asks' /\ Kind' /\ Carrying' /\ Slots'.request = Slots.request
  BY <1>1, <1>2, <1>4, <1>5, AsksSame, SeenSame DEF Carrying
<1>7. use_scratch' = use_scratch
  BY <1>1, BsSame
<1>8. bs.idx = 0 => Asking'
  BY <1>1, <1>2, <1>4, <1>6, <1>7 DEF Asking
<1>9. bs.idx # 0 => Marks'
  BY <1>1, <1>4, <1>5, MarksSame
<1> QED BY <1>1, <1>3, <1>6, <1>8, <1>9, ToGoing

LEMMA EraseOldTrailerAsks ==
  ASSUME SwapInv, UpgradeInv, EraseOldTrailer PROVE UpgradeInv'
<1>1. /\ pc = "erase slot0 trailer" /\ pc' = "init image_ok" /\ Erased(Slot0, {Last})
      /\ bs' = bs /\ swap_type' = swap_type /\ seen' = seen
  BY DEF EraseOldTrailer, At, boot_erase_sector
<1>2. pc \in Going /\ pc \in State0 /\ pc' \in Going
  BY <1>1 DEF Going, State0
<1>3. Types /\ Asks /\ Kind /\ Exchanging /\ {Last} \in SUBSET Indices /\ (bs.idx = 0 => Asking)
  BY <1>2, GoingFacts
<1>4. bs.idx = 0
  BY <1>1, <1>2, <1>3 DEF Exchanging, Later
<1>5. SameMark(Scratch) /\ SameMark(Slot1) /\ ~trailer'[Slot0].magic /\ ~trailer'[Slot0].image_ok
  BY <1>1, <1>3, ErasedMarks
<1>6. Asks' /\ Kind' /\ Carrying' /\ Slots'.request = Slots.request
  BY <1>1, <1>3, <1>5, AsksSame, SeenSame DEF Carrying
<1>7. Asking'
  BY <1>1, <1>3, <1>4, <1>5, <1>6 DEF Asking, SameMark
<1> QED BY <1>1, <1>2, <1>4, <1>6, <1>7, ToGoing DEF State0

(* image_ok, the swap size and the magic, in this order.                   *)
LEMMA StatusInitAsks ==
  ASSUME SwapInv, UpgradeInv, boot_status_init PROVE UpgradeInv'
<1> DEFINE a == StatusArea
<1>1. /\ \/ /\ pc = "init image_ok" /\ pc' = "init size"
            /\ Wrote(a, "image_ok", trailer[a].image_ok \/ trailer[Slot1].image_ok)
         \/ pc = "init size" /\ pc' = "init magic" /\ Wrote(a, "size", bs.size)
         \/ pc = "init magic" /\ pc' = "status 1" /\ Wrote(a, "magic", TRUE)
      /\ bs' = bs /\ swap_type' = swap_type
  BY DEF boot_status_init, WriteTrailer, At, Keep, Wrote
<1>2. seen' = seen
  <2>1. ~Settled'
    BY <1>1 DEF Settled, Running
  <2>2. Remember
    BY DEF boot_status_init, WriteTrailer, Keep
  <2> QED BY <2>1, <2>2 DEF Remember
<1>3. pc \in Going /\ pc \in State0 /\ pc' \in Going /\ pc' \in State0
  BY <1>1 DEF Going, State0
<1>4. /\ Types /\ Asks /\ Kind /\ Exchanging /\ (bs.idx = 0 => Asking)
      /\ a = IF use_scratch THEN Scratch ELSE Slot0
      /\ trailer \in [Areas -> Trailers]
  BY <1>3, GoingFacts DEF Types
<1>5. bs.idx = 0 /\ Asking
  <2>1. bs.idx # 0 => Later
    BY <1>3, <1>4 DEF Exchanging
  <2> QED BY <1>1, <1>4, <2>1 DEF Later
<1>6. use_scratch' = use_scratch /\ a' = a /\ a \in {Slot0, Scratch}
  BY <1>1, <1>4, BsSame
<1>7. /\ SameMark(Slot1) /\ \A b \in Areas \ {a} : SameMark(b)
      /\ trailer'[a].copy_done = trailer[a].copy_done
      /\ IF pc = "init image_ok"
         THEN /\ trailer'[a].magic = trailer[a].magic
              /\ trailer'[a].image_ok = (trailer[a].image_ok \/ trailer[Slot1].image_ok)
         ELSE trailer'[a].image_ok = trailer[a].image_ok
  <2>0. a \in Areas /\ Slot1 \in Areas \ {a}
    BY <1>6
  <2> HIDE DEF a
  <2>1. CASE pc = "init image_ok"
    <3>1. Wrote(a, "image_ok", trailer[a].image_ok \/ trailer[Slot1].image_ok)
      BY <1>1, <2>1
    <3> QED BY <1>4, <2>0, <2>1, <3>1, FlagWrite
  <2>2. CASE pc = "init size"
    <3>1. Wrote(a, "size", bs.size)
      BY <1>1, <2>2
    <3> QED BY <1>4, <2>0, <2>2, <3>1, OtherWrite
  <2>3. CASE pc = "init magic"
    <3>1. Wrote(a, "magic", TRUE)
      BY <1>1, <2>3
    <3> QED BY <1>4, <2>0, <2>3, <3>1, OtherWrite
  <2> QED BY <1>1, <2>1, <2>2, <2>3
<1>8. Asks' /\ Kind' /\ Carrying' /\ Slots'.request = Slots.request
  BY <1>1, <1>2, <1>4, <1>7, AsksSame, SeenSame DEF Carrying
<1> HIDE DEF a
<1>9. Marked(a)' /\ (trailer'[Scratch].magic => Marked(Scratch)')
  <2>1. CASE pc = "init image_ok"
    <3>1. ~trailer[a].image_ok /\ ~trailer[Scratch].magic
      BY <1>4, <1>5, <2>1 DEF Asking
    <3>2. seen.request # "none" => (trailer[Slot1].image_ok <=> seen.request = "perm")
      BY <1>4, <1>5 DEF Asking, Slots, Asks
    <3>3. Marked(a)'
      BY <1>2, <1>6, <1>7, <2>1, <3>1, <3>2 DEF Marked
    <3>4. ~trailer'[Scratch].magic
      BY <1>6, <1>7, <2>1, <3>1 DEF SameMark
    <3> QED BY <3>3, <3>4
  <2>2. CASE pc \in {"init size", "init magic"}
    <3>1. Marked(a) /\ (trailer[Scratch].magic => Marked(Scratch))
      BY <1>5, <2>2 DEF Asking, a
    <3>2. Marked(a)'
      BY <1>2, <1>6, <1>7, <2>2, <3>1 DEF Marked
    <3>3. a # Scratch => SameMark(Scratch)
      BY <1>7
    <3>4. a # Scratch /\ trailer'[Scratch].magic => Marked(Scratch)'
      BY <1>2, <3>1, <3>3 DEF Marked, SameMark
    <3> QED BY <1>6, <3>2, <3>4
  <2> QED BY <1>1, <2>1, <2>2
<1>10. Asking'
  BY <1>1, <1>2, <1>5, <1>6, <1>8, <1>9 DEF Asking, a
<1> QED BY <1>1, <1>3, <1>5, <1>8, <1>10, ToGoing

(* The first status byte ends state 0: from now on the exchange goes on.   *)
LEMMA Status1Asks == ASSUME SwapInv, UpgradeInv, Status1 PROVE UpgradeInv'
<1>1. /\ pc = "status 1" /\ pc' = "erase slot1" /\ bs' = bs
      /\ WriteStatus(StatusArea, 3 * bs.idx + 1)
  BY DEF Status1, At
<1>2. pc \in Going /\ pc \in State0 /\ pc' \in Going /\ pc' \notin State0
  BY <1>1 DEF Going, State0, State1
<1>3. /\ Types /\ Asks /\ Kind
      /\ bs.idx = 0 => Asking /\ First
      /\ bs.idx # 0 => Marks
      /\ StatusArea = IF use_scratch THEN Scratch ELSE Slot0
  BY <1>2, GoingFacts
<1>4. /\ SameMark(Slot0) /\ SameMark(Slot1) /\ SameMark(Scratch)
      /\ swap_type' = swap_type /\ seen' = seen
  BY <1>1, <1>3, StatusKeepsMarks
<1>5. bs.idx = 0 => Marks
  <2>1. bs.idx = 0 => Marked(StatusArea) /\ (trailer[Scratch].magic => Marked(Scratch))
    BY <1>1, <1>3 DEF Asking
  <2>2. bs.idx = 0 /\ use_scratch => (trailer[Slot0].magic => trailer[Slot0].copy_done)
    BY <1>3 DEF First, Fresh
  <2> QED BY <1>3, <2>1, <2>2 DEF Marks
<1>6. Marks' /\ Asks' /\ Kind' /\ Carrying'
  BY <1>1, <1>3, <1>4, <1>5, MarksSame, AsksSame, SeenSame DEF Carrying
<1> QED BY <1>2, <1>6, ToGoing

-----------------------------------------------------------------------------
(* State 1 and most of state 2: nothing that tells of the request changes, *)
(* but for the request itself, which is erased.                            *)
LEMMA MovesOn ==
  ASSUME SwapInv, UpgradeInv, pc \in Going, pc \notin State0, pc' \in Going, pc' \notin State0,
         seen' = seen, swap_type' = swap_type, SameMark(Slot0), SameMark(Scratch),
         SameMark(Slot1) \/ (~trailer'[Slot1].magic /\ ~trailer'[Slot1].image_ok), Carrying'
  PROVE  UpgradeInv'
<1>1. Asks /\ Kind /\ Marks
  BY GoingFacts
<1>2. Marks' /\ Kind'
  BY <1>1, MarksSame, SeenSame
<1>3. Asks'
  BY <1>1 DEF Asks, SameMark
<1> QED BY <1>2, <1>3, ToGoing

LEMMA State1Asks ==
  ASSUME SwapInv, UpgradeInv, EraseSlot1 \/ CopyToSlot1 \/ EraseRequest \/ Status2
  PROVE  UpgradeInv'
<1>1. /\ pc \in State1
      /\ pc' \in {"copy to slot1", "erase slot1 trailer", "status 2", "erase slot0"}
  BY DEF EraseSlot1, CopyToSlot1, EraseRequest, Status2, At, State1
<1>2. pc \in Going /\ pc \notin State0 /\ pc' \in Going /\ pc' \notin State0 /\ Carrying'
  BY <1>1 DEF Going, State0, State1, State2, Carrying
<1>3. Types /\ Sector \in Indices /\ Last \in Indices /\ StatusArea \in Areas
  BY <1>2, GoingFacts
<1>4. /\ seen' = seen /\ swap_type' = swap_type /\ SameMark(Slot0) /\ SameMark(Scratch)
      /\ SameMark(Slot1) \/ (~trailer'[Slot1].magic /\ ~trailer'[Slot1].image_ok)
  <2>1. CASE EraseSlot1 \/ EraseRequest
    <3>1. PICK k \in Indices : boot_erase_sector(Slot1, k)
      BY <1>3, <2>1 DEF EraseSlot1, EraseRequest
    <3>2. {k} \in SUBSET Indices /\ Erased(Slot1, {k}) /\ seen' = seen /\ swap_type' = swap_type
      BY <3>1 DEF boot_erase_sector
    <3> QED BY <1>3, <3>2, ErasedMarks
  <2>2. CASE CopyToSlot1
    <3>1. trailer' = trailer /\ seen' = seen /\ swap_type' = swap_type
      BY <2>2 DEF CopyToSlot1, boot_copy_sector
    <3> QED BY <3>1, TrailerSame
  <2>3. CASE Status2
    <3>1. WriteStatus(StatusArea, 3 * bs.idx + 2)
      BY <2>3 DEF Status2
    <3> QED BY <1>3, <3>1, StatusKeepsMarks
  <2> QED BY <2>1, <2>2, <2>3
<1> QED BY <1>2, <1>4, MovesOn

-----------------------------------------------------------------------------
(* State 2: where the scratch area keeps the status, its flag is copied.   *)
LEMMA EraseSlot0Asks ==
  ASSUME SwapInv, UpgradeInv, EraseSlot0 PROVE UpgradeInv'
<1>1. /\ pc = "erase slot0" /\ pc' = "copy to slot0" /\ Erased(Slot0, {Sector})
      /\ bs' = bs /\ swap_type' = swap_type /\ seen' = seen
  BY DEF EraseSlot0, At, boot_erase_sector
<1>2. pc \in Going /\ pc \notin State0 /\ pc' \in Going /\ pc' \notin State0
  BY <1>1 DEF Going, State0, State2
<1>3. /\ Types /\ Asks /\ Kind /\ Marks /\ {Sector} \in SUBSET Indices
      /\ use_scratch => Sector = Last
  BY <1>2, GoingFacts
<1>4. /\ SameMark(Scratch) /\ SameMark(Slot1)
      /\ SameMark(Slot0) \/ (~trailer'[Slot0].magic /\ ~trailer'[Slot0].image_ok)
      /\ use_scratch => ~trailer'[Slot0].image_ok
  BY <1>1, <1>3, ErasedMarks
<1>5. Marks'
  BY <1>1, <1>3, <1>4 DEF Marks, Marked, SameMark
<1>6. Carrying'
  <2>1. use_scratch' = use_scratch
    BY <1>1, BsSame
  <2> QED BY <1>1, <1>4, <2>1 DEF Carrying
<1>7. Asks' /\ Kind'
  BY <1>1, <1>3, <1>4, AsksSame, SeenSame
<1> QED BY <1>2, <1>5, <1>6, <1>7, ToGoing

LEMMA CopyToSlot0Asks ==
  ASSUME SwapInv, UpgradeInv, CopyToSlot0 PROVE UpgradeInv'
<1>1. /\ pc = "copy to slot0" /\ pc' = IF use_scratch THEN "move status" ELSE "status 0"
      /\ trailer' = trailer /\ bs' = bs /\ swap_type' = swap_type /\ seen' = seen
  BY DEF CopyToSlot0, At, boot_copy_sector
<1>2. pc \in Going /\ pc \notin State0 /\ pc' \in Going /\ pc' \notin State0
  BY <1>1 DEF Going, State0, State2
<1>3. Carrying
  BY <1>2, GoingFacts
<1>4. Carrying'
  <2>1. use_scratch' = use_scratch
    BY <1>1, BsSame
  <2>2. use_scratch => ~trailer[Slot0].image_ok
    BY <1>1, <1>3 DEF Carrying
  <2> QED BY <1>1, <2>1, <2>2 DEF Carrying
<1>5. \A a \in Areas : SameMark(a)
  BY <1>1, TrailerSame
<1> QED BY <1>1, <1>2, <1>4, <1>5, MovesOn

LEMMA MoveStatusAsks ==
  ASSUME SwapInv, UpgradeInv, MoveStatus PROVE UpgradeInv'
<1>1. /\ pc = "move status" /\ pc' = "move image_ok" /\ bs' = bs /\ swap_type' = swap_type
      /\ Wrote(Slot0, "status", trailer[Scratch].status) /\ Remember
  BY DEF MoveStatus, At, Keep, Wrote
<1>2. pc \in Going /\ pc \notin State0 /\ pc' \in Going /\ pc' \notin State0
  BY <1>1 DEF Going, State0, State2
<1>3. seen' = seen
  BY <1>1 DEF Remember, Settled, Running
<1>4. Types /\ Carrying
  BY <1>2, GoingFacts
<1>5. \A a \in Areas : SameMark(a)
  BY <1>1, <1>4 DEF Types, Trailers, Wrote, SameMark
<1>6. Carrying'
  <2>1. use_scratch' = use_scratch
    BY <1>1, BsSame
  <2>2. use_scratch => ~trailer[Slot0].image_ok
    BY <1>1, <1>4 DEF Carrying
  <2> QED BY <1>1, <1>5, <2>1, <2>2 DEF Carrying, SameMark
<1> QED BY <1>1, <1>2, <1>3, <1>5, <1>6, MovesOn

LEMMA MoveTrailerAsks ==
  ASSUME SwapInv, UpgradeInv, MoveTrailer PROVE UpgradeInv'
<1>1. /\ \/ /\ pc = "move image_ok" /\ pc' = "move size"
            /\ Wrote(Slot0, "image_ok", trailer[Slot0].image_ok \/ trailer[Scratch].image_ok)
         \/ pc = "move size" /\ pc' = "move magic" /\ Wrote(Slot0, "size", bs.size)
         \/ pc = "move magic" /\ pc' = "status 0" /\ Wrote(Slot0, "magic", TRUE)
      /\ bs' = bs /\ swap_type' = swap_type
  BY DEF MoveTrailer, WriteTrailer, At, Keep, Wrote
<1>2. seen' = seen
  <2>1. ~Settled'
    BY <1>1 DEF Settled, Running
  <2>2. Remember
    BY DEF MoveTrailer, WriteTrailer, Keep
  <2> QED BY <2>1, <2>2 DEF Remember
<1>3. pc \in Going /\ pc \in State2 /\ pc \notin State0 /\ pc \notin State1 /\ pc' \in Going /\ pc' \notin State0
  BY <1>1 DEF Going, State0, State1, State2
<1>4. /\ Types /\ Asks /\ Kind /\ Carrying /\ Marks /\ Exchanging
      /\ trailer \in [Areas -> Trailers]
  BY <1>3, GoingFacts DEF Types
<1>5. use_scratch /\ ~trailer[Slot0].magic /\ trailer[Scratch].magic
  BY <1>1, <1>3, <1>4 DEF Exchanging, Moved, InScratch
<1>6. /\ SameMark(Slot1) /\ SameMark(Scratch)
      /\ Marked(Slot0)'
      /\ pc # "move magic" => ~trailer'[Slot0].magic
  <2>1. CASE pc = "move image_ok"
    <3>1. Wrote(Slot0, "image_ok", trailer[Slot0].image_ok \/ trailer[Scratch].image_ok)
      BY <1>1, <2>1
    <3>2. /\ SameMark(Slot1) /\ SameMark(Scratch)
          /\ trailer'[Slot0].magic = trailer[Slot0].magic
          /\ trailer'[Slot0].image_ok = (trailer[Slot0].image_ok \/ trailer[Scratch].image_ok)
      BY <1>4, <3>1, FlagWrite
    <3>3. ~trailer[Slot0].image_ok /\ Marked(Scratch)
      BY <1>4, <1>5, <2>1 DEF Carrying, Marks
    <3> QED BY <1>2, <1>5, <3>2, <3>3 DEF Marked
  <2>2. CASE pc = "move size"
    <3>1. Wrote(Slot0, "size", bs.size)
      BY <1>1, <2>2
    <3>2. SameMark(Slot1) /\ SameMark(Scratch) /\ SameMark(Slot0)
      BY <1>4, <3>1, OtherWrite
    <3>3. Marked(Slot0)
      BY <1>4, <2>2 DEF Carrying
    <3> QED BY <1>2, <1>5, <3>2, <3>3 DEF Marked, SameMark
  <2>3. CASE pc = "move magic"
    <3>1. Wrote(Slot0, "magic", TRUE)
      BY <1>1, <2>3
    <3>2. SameMark(Slot1) /\ SameMark(Scratch) /\ trailer'[Slot0].image_ok = trailer[Slot0].image_ok
      BY <1>4, <3>1, OtherWrite
    <3>3. Marked(Slot0)
      BY <1>4, <2>3 DEF Carrying
    <3> QED BY <1>2, <2>3, <3>2, <3>3 DEF Marked
  <2> QED BY <1>1, <2>1, <2>2, <2>3
<1>7. Marks'
  BY <1>2, <1>4, <1>6 DEF Marks, Marked, SameMark
<1>8. Carrying'
  BY <1>1, <1>6 DEF Carrying
<1>9. Asks' /\ Kind'
  BY <1>1, <1>2, <1>4, <1>6, AsksSame, SeenSame
<1> QED BY <1>3, <1>7, <1>8, <1>9, ToGoing

LEMMA NextSectorAsks ==
  ASSUME SwapInv, UpgradeInv, NextSector PROVE UpgradeInv'
<1>1. /\ pc = "status 0" /\ pc' = IF bs'.idx < bs.size THEN "erase scratch" ELSE "finish"
      /\ bs' = [bs EXCEPT !.idx = @ + 1]
      /\ WriteStatus(Slot0, 3 * bs'.idx)
  BY DEF NextSector, At
<1>2. pc \in Going /\ pc \notin State0
  BY <1>1 DEF Going, State0, State2
<1>3. Types /\ Asks /\ Kind /\ Marks /\ Exchanging /\ bs.idx \in Nat
  BY <1>2, GoingFacts
<1>4. bs'.idx # 0
  <2>1. bs'.idx = bs.idx + 1
    BY <1>1, <1>3 DEF Types
  <2> QED BY <1>3, <2>1
<1>5. /\ SameMark(Slot0) /\ SameMark(Slot1) /\ SameMark(Scratch)
      /\ swap_type' = swap_type /\ seen' = seen
  BY <1>1, <1>3, StatusKeepsMarks
<1>6. Marks' /\ Asks' /\ Kind'
  BY <1>3, <1>5, MarksSame, AsksSame, SeenSame
<1>7. CASE pc' = "erase scratch"
  <2>1. pc' \in Going /\ Carrying'
    BY <1>7 DEF Going, State0, Carrying
  <2> QED BY <1>4, <1>6, <2>1, ToGoing
<1>8. CASE pc' = "finish"
  <2>1. swap_type \in {"test", "perm", "revert", "resumed"}
    BY <1>3 DEF Exchanging
  <2>2. Concluding'
    BY <1>5, <1>6, <2>1 DEF Concluding
  <2> QED BY <1>6, <1>8, <2>2, ToConclude
<1> QED BY <1>1, <1>7, <1>8

-----------------------------------------------------------------------------
(* boot_go: what the slots hold once the marks are written.                *)
LEMMA PreviousIsPerm == ASSUME Types, Exchanged PROVE boot_previous_swap_type = "perm"
<1>1. ~trailer[Slot1].magic /\ ~trailer[Slot0].copy_done
  BY ExchangedIsDone DEF Exchanged
<1>2. boot_swap_type = "none"
  BY <1>1 DEF boot_swap_type
<1> QED BY <1>2 DEF boot_previous_swap_type

LEMMA SlotsRequests == Slots.request \in {"none", "test", "perm"}
BY DEF Slots

LEMMA SetImageOkAsks ==
  ASSUME SwapInv, UpgradeInv, boot_set_image_ok PROVE UpgradeInv'
<1>1. /\ pc = "finish"
      /\ swap_type' = IF swap_type = "resumed" THEN boot_previous_swap_type ELSE swap_type
      /\ trailer' = IF swap_type' \in {"revert", "fail"}
                    THEN [trailer EXCEPT ![Slot0].image_ok = TRUE] ELSE trailer
      /\ pc' = IF swap_type' \in {"test", "perm", "revert"} THEN "copy_done" ELSE "validate"
      /\ Remember
  BY DEF boot_set_image_ok
<1>2. Types /\ Finishing /\ Asks /\ Concluding
  BY <1>1 DEF SwapInv, UpgradeInv
<1>3. /\ SameMark(Slot1) /\ SameMark(Scratch)
      /\ trailer'[Slot0].magic = trailer[Slot0].magic
      /\ trailer'[Slot0].copy_done = trailer[Slot0].copy_done
      /\ swap_type' = "revert" => trailer'[Slot0].image_ok
      /\ swap_type' \notin {"revert", "fail"} => SameMark(Slot0)
  BY <1>1, <1>2 DEF Types, Trailers, SameMark
<1>4. CASE swap_type \in {"none", "fail"}
  <2>1. pc' = "validate"
    BY <1>1, <1>4
  <2>2. seen' = Slots'
    BY <1>1, <2>1 DEF Remember, Settled
  <2>3. Asks'
    <3>1. Slots'.request \in {"none", "test", "perm"}
      BY DEF Slots
    <3> QED BY <1>2, <1>3, <2>2, <3>1 DEF Asks, SameMark
  <2> QED BY <2>1, <2>3, ToSettled
<1>5. CASE swap_type \notin {"none", "fail"}
  <2>1. Exchanged /\ Kind /\ Marks /\ swap_type \in {"test", "perm", "revert", "resumed"}
    BY <1>2, <1>5 DEF Finishing, Concluding
  <2>2. trailer[Slot0].magic /\ ~trailer[Slot0].copy_done /\ Marked(Slot0)
    BY <1>2, <2>1, ExchangedIsDone DEF Marks
  <2>3. swap_type' \in {"test", "perm", "revert"} /\ (swap_type' = "revert" <=> swap_type = "revert")
    BY <1>1, <1>2, <2>1, PreviousIsPerm
  <2>4. pc' = "copy_done"
    BY <1>1, <2>3
  <2>5. seen' = seen
    BY <1>1, <2>4 DEF Remember, Settled, Running
  <2>6. Wanted' = Wanted /\ Kind'
    BY <2>1, <2>3, <2>5, SeenSame DEF Kind
  <2>7. CASE swap_type = "revert"
    <3>1. seen.request = "none" /\ Wanted = "revert" /\ trailer'[Slot0].image_ok
      BY <1>3, <2>1, <2>3, <2>7, WantedIs DEF Kind
    <3>2. Marks'
      BY <2>5, <3>1 DEF Marks, Marked
    <3>3. Asks'
      BY <1>2, <1>3, <2>5, AsksSame
    <3> QED BY <2>4, <2>6, <3>1, <3>2, <3>3 DEF UpgradeInv, Going, State0, State1, State2
  <2>8. CASE swap_type # "revert"
    <3>1. SameMark(Slot0)
      BY <1>3, <2>3, <2>8
    <3>2. Marks' /\ Asks'
      BY <1>2, <1>3, <2>1, <2>5, <3>1, MarksSame, AsksSame
    <3>3. seen.request \in {"test", "perm"} /\ Wanted = seen.request
      BY <1>2, <2>1, <2>8, WantedIs DEF Kind, Asks
    <3>4. trailer'[Slot0].image_ok <=> Wanted # "test"
      BY <2>2, <3>1, <3>3 DEF SameMark, Marked
    <3> QED BY <2>4, <2>6, <3>2, <3>4 DEF UpgradeInv, Going, State0, State1, State2
  <2> QED BY <2>7, <2>8
<1> QED BY <1>4, <1>5

LEMMA SetCopyDoneAsks ==
  ASSUME SwapInv, UpgradeInv, boot_set_copy_done PROVE UpgradeInv'
<1>1. /\ pc = "copy_done" /\ pc' = "validate" /\ Wrote(Slot0, "copy_done", TRUE) /\ Remember
  BY DEF boot_set_copy_done, At, Keep, Wrote
<1>2. Types /\ Asks
  BY DEF SwapInv, UpgradeInv
<1>3. seen' = Slots' /\ trailer'[Slot1] = trailer[Slot1]
  BY <1>1, <1>2 DEF Remember, Settled, Types, Wrote
<1>4. Slots'.request \in {"none", "test", "perm"}
  BY DEF Slots
<1>5. Asks'
  BY <1>2, <1>3, <1>4 DEF Asks
<1> QED BY <1>1, <1>5, ToSettled

LEMMA BootAsks == ASSUME SwapInv, SwapInv', UpgradeInv, Boot PROVE UpgradeInv'
<1>1. /\ pc = "validate" /\ pc' \in {"run", "failed"} /\ trailer' = trailer /\ Remember
  BY DEF Boot, At, flash
<1>2. pc' = "run"
  BY <1>1 DEF SwapInv, State0, State1, State2
<1>3. seen' = Slots'
  BY <1>1, <1>2 DEF Remember, Settled, Running
<1>4. Slots'.request \in {"none", "test", "perm"}
  BY DEF Slots
<1>5. Asks'
  BY <1>1, <1>3, <1>4 DEF Asks, UpgradeInv
<1> QED BY <1>2, <1>5, ToSettled

-----------------------------------------------------------------------------
(* A start: what the trailers tell is what the application last saw.       *)
LEMMA FlashSame ==
  ASSUME data' = data, trailer' = trailer, seen' = seen
  PROVE  /\ Slots' = Slots /\ Tells' = Tells /\ Valid(Slot1)' = Valid(Slot1)
         /\ \A a \in Areas : SameMark(a)
<1>1. Slots' = Slots /\ Valid(Slot1)' = Valid(Slot1)
  BY DEF Slots, Valid, Holds, Header
<1>2. Wanted' = Wanted /\ Q' = Q
  BY SeenSame
<1> QED BY <1>1, <1>2, TrailerSame DEF Tells

LEMMA StartAsks == ASSUME SwapInv, SwapInv', UpgradeInv, Start PROVE UpgradeInv'
<1>1. /\ pc = "off" /\ ~Interrupted /\ data' = data /\ trailer' = trailer /\ seen' = seen
  BY DEF Start, flash
<1>2. Types /\ Off /\ Asks /\ Tells
  BY <1>1 DEF SwapInv, UpgradeInv
<1>3. Intact
  <2>1. ASSUME NEW n \in 1 .. NumSectors, NEW i \in 0 .. NumSectors, NEW st \in 0 .. 2,
               i + st > 0, Told(n, i, st)
        PROVE  FALSE
    BY <1>1, <2>1, ToldIsRead
  <2> QED BY <1>2, <2>1 DEF Off
<1>4. /\ Slots' = Slots /\ Tells' /\ Valid(Slot1)' = Valid(Slot1) /\ Asks' /\ Wanted' = Wanted
      /\ Valid(Slot1) <=> Q \in Images
  BY <1>1, <1>2, <1>3, FlashSame, AsksSame, SeenSame DEF Intact
<1>5. /\ boot_swap_type = IF Slots.request # "none" THEN Slots.request
                          ELSE IF Slots.trial THEN "revert" ELSE "none"
      /\ Slots.request \in {"none", "test", "perm"}
  BY DEF boot_swap_type, Slots
<1>6. CASE boot_swap_type = "none" /\ swap_type' = "none" /\ pc' = "finish"
  <2>1. Slots.request = "none" /\ ~Slots.trial
    BY <1>5, <1>6
  <2>2. Concluding'
    BY <1>4, <1>6, <2>1 DEF Concluding
  <2> QED BY <1>4, <1>6, <2>2, ToConclude
<1>7. CASE /\ boot_swap_type # "none" /\ Valid(Slot1)
           /\ swap_type' = boot_swap_type
           /\ bs' = [idx |-> 0, size |-> SwapSize]
           /\ pc' = IF Sized(Slot0) /\ Sized(Slot1) THEN "erase scratch" ELSE "failed"
  <2>1. pc' = "erase scratch"
    BY <1>7 DEF SwapInv, State0, State1, State2
  <2>2. pc' \in Going /\ pc' \in State0 /\ bs'.idx = 0
    BY <1>7, <2>1 DEF Going, State0
  <2>3. Slots.request = seen.request /\ (seen.request = "none" => Slots.trial = seen.trial)
    BY <1>2, <1>4, <1>7 DEF Tells
  <2>4. Kind'
    <3>1. Wanted # "none" /\ (boot_swap_type = "revert" <=> seen.request = "none")
      BY <1>5, <1>7, <2>3, WantedIs
    <3> QED BY <1>1, <1>4, <1>7, <3>1 DEF Kind
  <2>5. Asking' /\ Carrying'
    BY <1>1, <1>4, <2>1, <2>3 DEF Asking, Carrying
  <2> QED BY <1>4, <2>2, <2>4, <2>5, ToGoing
<1>8. CASE /\ boot_swap_type # "none" /\ ~Valid(Slot1) /\ swap_type' = "fail"
           /\ pc' = IF Header(Slot1) = "none" THEN "finish" ELSE "discard"
  <2>1. Wanted # "none"
    BY <1>2, <1>4, <1>5, <1>8, WantedIs DEF Tells
  <2>2. CASE pc' = "finish"
    <3>1. Concluding'
      BY <1>4, <1>8, <2>1 DEF Concluding
    <3> QED BY <1>4, <2>2, <3>1, ToConclude
  <2>3. CASE pc' = "discard"
    BY <1>4, <2>1, <2>3 DEF UpgradeInv, Going, State0, State1, State2
  <2> QED BY <1>8, <2>2, <2>3
<1> QED BY <1>6, <1>7, <1>8 DEF Start

(* An exchange is resumed at a state of a sector, or is done.               *)
LEMMA ResumeEnters ==
  ASSUME SwapInv, Resume
  PROVE  pc' \in {"finish", "erase scratch", "erase slot1", "erase slot0"}
<1>1. pc = "off" /\ Interrupted
  BY DEF Resume
<1>2. Off
  BY <1>1 DEF SwapInv
<1>3. PICK n \in 1 .. NumSectors, i \in 0 .. NumSectors, st \in 0 .. 2 :
        i + st > 0 /\ Told(n, i, st)
  BY <1>1, <1>2, SilentIsNotInterrupted DEF Off
<1>4. /\ StatusEnd(boot_status_source) = 3 * i + st
      /\ trailer[Slot0].magic \/ trailer[Scratch].magic
  BY <1>3, ToldIsRead
<1>5. (3 * i + st) % 3 = st
  BY Numbers, Position
<1>6. pc' = "finish" \/ pc' = EntryOf(st)
  BY <1>4, <1>5 DEF Resume
<1>7. st = 0 \/ st = 1 \/ st = 2
  OBVIOUS
<1> QED BY <1>6, <1>7, Entries

(* A resumed exchange is not at its first sector's state 0, and its flag   *)
(* is in the area it is resumed from.                                      *)
LEMMA ResumeAsks == ASSUME SwapInv, SwapInv', UpgradeInv, Resume PROVE UpgradeInv'
<1>1. /\ pc = "off" /\ Interrupted
      /\ data' = data /\ trailer' = trailer /\ seen' = seen /\ swap_type' = "resumed"
  BY DEF Resume, flash
<1>2. Types /\ Asks /\ seen.request # "none" /\ Marks
  BY <1>1 DEF SwapInv, UpgradeInv
<1>3. pc' \in {"finish", "erase scratch", "erase slot1", "erase slot0"}
  BY ResumeEnters
<1>6. Marks' /\ Asks' /\ Kind'
  <2>1. \A a \in Areas : SameMark(a)
    BY <1>1, TrailerSame
  <2>2. Wanted' = Wanted /\ Wanted # "none"
    BY <1>1, <1>2, SeenSame, WantedIs
  <2> QED BY <1>1, <1>2, <2>1, <2>2, MarksSame, AsksSame DEF Kind
<1>7. CASE pc' = "finish"
  <2>1. Concluding'
    BY <1>1, <1>6 DEF Concluding
  <2> QED BY <1>6, <1>7, <2>1, ToConclude
<1>8. CASE pc' # "finish"
  <2>1. pc' \in Going /\ Carrying' /\ (pc' \in State0 => pc' = "erase scratch")
    BY <1>3, <1>8 DEF Going, State0, State1, State2, Carrying
  <2>2. ~(pc' \in State0 /\ bs'.idx = 0)
    <3>1. Exchanging'
      BY <2>1 DEF SwapInv, Going
    <3>2. ~First'
      BY <1>1 DEF First
    <3> QED BY <3>1, <3>2 DEF Exchanging
  <2> QED BY <1>6, <2>1, <2>2, ToGoing
<1> QED BY <1>7, <1>8

(* An erasure of slot 1 may erase the request with the bad image.          *)
LEMMA ErasedTells ==
  ASSUME Types, NEW S \in SUBSET Indices, Erased(Slot1, S), seen' = seen,
         Asks, Tells, Wanted # "none", Q \notin Images
  PROVE  Asks' /\ Tells' /\ Wanted' = Wanted
<1>1. /\ SameMark(Slot0)
      /\ SameMark(Slot1) \/ (~trailer'[Slot1].magic /\ ~trailer'[Slot1].image_ok)
  BY ErasedMarks
<1>2. Wanted' = Wanted /\ Q' = Q
  BY SeenSame
<1>3. Asks'
  BY <1>1 DEF Asks, SameMark
<1>4. Slots'.request = Slots.request \/ Slots'.request = "none"
  BY <1>1 DEF Slots, SameMark
<1>5. Slots'.trial = Slots.trial
  BY <1>1 DEF Slots, SameMark
<1>6. Tells'
  BY <1>2, <1>4, <1>5 DEF Tells
<1> QED BY <1>2, <1>3, <1>6

LEMMA DiscardAsks == ASSUME SwapInv, UpgradeInv, Discard PROVE UpgradeInv'
<1>1. /\ pc = "discard" /\ pc' = "finish" /\ Erased(Slot1, Indices)
      /\ swap_type' = swap_type /\ seen' = seen
  BY DEF Discard, At
<1>2. Types /\ Discarding /\ Asks /\ Tells /\ Wanted # "none"
  BY <1>1 DEF SwapInv, UpgradeInv
<1>3. Q \notin Images /\ ~Valid(Slot1)'
  BY <1>1, <1>2, ErasedStaysBad DEF Discarding, Intact
<1>4. Asks' /\ Tells' /\ Wanted' = Wanted
  BY <1>1, <1>2, <1>3, ErasedTells
<1>5. Concluding'
  BY <1>1, <1>2, <1>3, <1>4 DEF Concluding, Discarding
<1> QED BY <1>1, <1>4, <1>5, ToConclude

-----------------------------------------------------------------------------
(* The application asks only when nothing is asked for yet.                *)
LEMMA RestRemembers ==
  ASSUME Remember, pc' \in {"run", "pending"}
  PROVE  seen' = Slots' /\ Slots'.request \in {"none", "test", "perm"}
BY DEF Remember, Settled, Running, Slots

LEMMA ApplicationAsks ==
  ASSUME SwapInv, UpgradeInv, Download \/ boot_set_pending \/ boot_set_confirmed
  PROVE  UpgradeInv'
<1>1. Types /\ Asks
  BY DEF SwapInv, UpgradeInv
<1>2. CASE Download
  <2>1. pc' = "run" /\ Remember /\ trailer' = [trailer EXCEPT ![Slot1] = BlankTrailer]
    BY <1>2 DEF Download
  <2>2. ~trailer'[Slot1].image_ok
    BY <1>1, <2>1 DEF Types, BlankTrailer
  <2>3. Asks'
    BY <2>1, <2>2, RestRemembers DEF Asks
  <2> QED BY <2>1, <2>3, ToSettled
<1>3. CASE boot_set_pending
  <2>1. /\ pc' \in {"run", "pending"} /\ Remember
        /\ \/ ~trailer[Slot1].magic /\ Wrote(Slot1, "magic", TRUE)
           \/ pc = "pending" /\ pc' = "run" /\ Wrote(Slot1, "image_ok", TRUE)
    BY <1>3 DEF boot_set_pending, At, Keep, Wrote
  <2>2. /\ pc = "pending" => trailer[Slot1].magic
    BY DEF SwapInv, UpgradeInv, Settled, Running, AtRest, Slots
  <2>3. /\ trailer'[Slot1].magic
        /\ pc' = "pending" => ~trailer'[Slot1].image_ok
    <3>1. CASE ~trailer[Slot1].magic /\ Wrote(Slot1, "magic", TRUE)
      <4>1. trailer'[Slot1].magic /\ trailer'[Slot1].image_ok = trailer[Slot1].image_ok
        BY <1>1, <3>1 DEF Types, Trailers, Wrote
      <4> QED BY <1>1, <3>1, <4>1 DEF Asks
    <3>2. CASE pc = "pending" /\ pc' = "run" /\ Wrote(Slot1, "image_ok", TRUE)
      <4>1. trailer'[Slot1].magic = trailer[Slot1].magic
        BY <1>1, <3>2 DEF Types, Trailers, Wrote
      <4> QED BY <2>2, <3>2, <4>1
    <3> QED BY <2>1, <3>1, <3>2
  <2>4. Asks'
    BY <2>1, <2>3, RestRemembers DEF Asks
  <2>5. pc' = "pending" => seen'.request = "test"
    <3>1. pc' = "pending" => Slots'.request = "test"
      BY <2>3 DEF Slots
    <3> QED BY <2>1, <3>1, RestRemembers
  <2> QED BY <2>1, <2>4, <2>5 DEF UpgradeInv, Going, State0, State1, State2
<1>4. CASE boot_set_confirmed
  <2>1. pc' = "run" /\ Remember /\ Wrote(Slot0, "image_ok", TRUE)
    BY <1>4 DEF boot_set_confirmed, Keep, Wrote
  <2>2. trailer'[Slot1] = trailer[Slot1]
    BY <1>1, <2>1 DEF Types, Wrote
  <2>3. Asks'
    BY <1>1, <2>1, <2>2, RestRemembers DEF Asks
  <2> QED BY <2>1, <2>3, ToSettled
<1> QED BY <1>2, <1>3, <1>4

-----------------------------------------------------------------------------
(* Power is lost.  An exchange that has written its first status is read   *)
(* from flash as one that was interrupted.                                 *)
LEMMA StatusWritten ==
  ASSUME NEW n, NEW p \in Nat \ {0},
         \/ InSlot0(n, p)
         \/ InScratch(n, p) /\ ~trailer[Slot0].magic
  PROVE  Interrupted
<1>1. 1 \in 1 .. p
  OBVIOUS
<1> QED BY <1>1 DEF InSlot0, InScratch, Interrupted, boot_status_source

LEMMA GoingIsInterrupted ==
  ASSUME SwapInv, pc \in Going, pc \notin State0 \/ bs.idx # 0, ~Stale
  PROVE  Interrupted
<1>1. Types /\ Exchanging /\ bs.idx \in Nat
  BY ExchangingFacts DEF Going
<1>2. ASSUME NEW p \in Nat \ {0}, InScratch(bs.size, p), Fresh PROVE ~trailer[Slot0].magic
  <2>1. trailer[Scratch].status # {}
    <3>1. 1 \in 1 .. p
      OBVIOUS
    <3> QED BY <1>2, <3>1 DEF InScratch
  <2> QED BY <1>2, <2>1 DEF Stale, Fresh
<1>3. CASE pc \in State0
  <2>1. InSlot0(bs.size, 3 * bs.idx)
    BY <1>1, <1>3 DEF Exchanging, Later
  <2>2. 3 * bs.idx \in Nat \ {0}
    BY <1>1, <1>3
  <2> QED BY <2>1, <2>2, StatusWritten
<1>4. CASE pc \in State1
  <2>1. Saved
    BY <1>1, <1>4 DEF Exchanging
  <2>2. 3 * bs.idx + 1 \in Nat \ {0} /\ 1 \in Nat \ {0}
    BY <1>1
  <2>3. CASE use_scratch
    <3>1. InScratch(bs.size, 1) /\ Fresh
      BY <2>1, <2>3 DEF Saved
    <3> QED BY <1>2, <2>2, <3>1, StatusWritten
  <2>4. CASE ~use_scratch
    <3>1. InSlot0(bs.size, 3 * bs.idx + 1)
      BY <2>1, <2>4 DEF Saved
    <3> QED BY <2>2, <3>1, StatusWritten
  <2> QED BY <2>3, <2>4
<1>5. CASE pc \in State2
  <2>1. Moved
    BY <1>1, <1>5 DEF Exchanging
  <2>2. 3 * bs.idx + 2 \in Nat \ {0} /\ 2 \in Nat \ {0}
    BY <1>1
  <2>3. CASE InSlot0(bs.size, 3 * bs.idx + 2) \/ InSlot0(bs.size, 2)
    BY <2>2, <2>3, StatusWritten
  <2>4. CASE use_scratch /\ InScratch(bs.size, 2) /\ (Fresh \/ ~trailer[Slot0].magic)
    BY <1>2, <2>2, <2>4, StatusWritten
  <2> QED BY <2>1, <2>3, <2>4 DEF Moved
<1> QED BY <1>3, <1>4, <1>5 DEF Going

LEMMA ExchangedIsInterrupted == ASSUME Types, Exchanged PROVE Interrupted
<1>1. bs.size \in Nat /\ InSlot0(bs.size, 3 * bs.size) /\ Point(bs.size, bs.size, 0)
  BY DEF Types, Exchanged
<1>2. Size[P] \in 1 .. NumSectors /\ Size[P] <= bs.size
  BY <1>1, Numbers DEF Point
<1>3. 3 * bs.size \in Nat \ {0}
  BY <1>1, <1>2, Numbers
<1> QED BY <1>1, <1>3, StatusWritten

LEMMA OffSame ==
  ASSUME trailer' = trailer
  PROVE  Interrupted' = Interrupted /\ \A a \in Areas : SameMark(a)
BY TrailerSame DEF Interrupted, boot_status_source

LEMMA PowerLossAsks ==
  ASSUME SwapInv, UpgradeInv, PowerLoss, Excluded = {"stale", "revert"}
  PROVE  UpgradeInv'
<1>1. /\ pc' = "off" /\ seen' = seen /\ pc # "off" /\ ~Stale /\ swap_type # "revert"
  BY DEF PowerLoss
<1>2. Types /\ Asks
  BY DEF SwapInv, UpgradeInv
<1>3. CASE pc \in Going
  <2>1. pc # "discard"
    BY <1>3 DEF Going, State0, State1, State2
  <2>2. trailer' = trailer
    BY <2>1, CutOff
  <2>3. Interrupted' = Interrupted /\ \A a \in Areas : SameMark(a)
    BY <2>2, OffSame
  <2>4. /\ seen.request # "none" /\ Asks' /\ Slots'.request = Slots.request
        /\ Q' = Q /\ Marks' = Marks
    BY <1>1, <1>2, <1>3, <2>3, GoingFacts, AsksSame, SeenSame, MarksSame DEF Kind
  <2>5. CASE pc \in State0 /\ bs.idx = 0
    <3>1. Asking /\ First
      BY <1>3, <2>5, GoingFacts
    <3>2. ~Interrupted /\ Q \in Images
      BY <3>1, SilentIsNotInterrupted DEF First, Intact
    <3>3. Tells'
      BY <1>1, <2>4, <3>1, <3>2 DEF Tells, Asking
    <3> QED BY <1>1, <2>3, <2>4, <3>2, <3>3, ToOffAgain
  <2>6. CASE pc \notin State0 \/ bs.idx # 0
    <3>1. Interrupted /\ Marks
      BY <1>1, <1>3, <2>6, GoingIsInterrupted, GoingFacts
    <3> QED BY <1>1, <2>3, <2>4, <3>1, ToOffAgain
  <2> QED BY <2>5, <2>6
<1>4. CASE pc = "discard"
  <2>1. Discarding /\ Tells /\ Wanted # "none"
    BY <1>4 DEF SwapInv, UpgradeInv
  <2>2. Q \notin Images /\ ~Interrupted
    BY <2>1, SilentIsNotInterrupted DEF Discarding, Intact
  <2>3. CASE UNCHANGED flash
    <3>1. data' = data /\ trailer' = trailer
      BY <2>3 DEF flash
    <3>2. Tells' /\ Interrupted' = Interrupted /\ Asks'
      BY <1>1, <1>2, <2>1, <3>1, FlashSame, OffSame, AsksSame
    <3> QED BY <1>1, <2>1, <2>2, <3>2, ToOffAgain
  <2>4. CASE \E S \in SUBSET Indices : Erased(Slot1, S)
    <3>1. PICK S \in SUBSET Indices : Erased(Slot1, S)
      BY <2>4
    <3>2. Asks' /\ Tells'
      BY <1>1, <1>2, <2>1, <2>2, <3>1, ErasedTells
    <3>3. Silent'
      BY <1>1, <1>2, <2>1, <3>1, ErasedStaysBad DEF Discarding
    <3>4. ~Interrupted'
      BY <3>3 DEF Silent, Interrupted, boot_status_source
    <3> QED BY <1>1, <3>2, <3>4, ToOffAgain
  <2>5. ASSUME NEW c \in Copies PROVE pc # c.at
    <3>1. c.at \in {"copy to scratch", "copy to slot1", "copy to slot0"}
      BY CopyKinds
    <3> QED BY <1>4, <3>1
  <2> QED BY <2>3, <2>4, <2>5 DEF PowerLoss
<1>5. CASE pc \in {"run", "pending", "validate", "finish", "copy_done"}
  <2>1. data' = data /\ trailer' = trailer
    BY <1>5, CutOff
  <2>2. /\ Tells' = Tells /\ Interrupted' = Interrupted /\ Asks' /\ Marks' = Marks
        /\ \A a \in Areas : SameMark(a)
    BY <1>1, <1>2, <2>1, FlashSame, OffSame, AsksSame, MarksSame
  <2>3. CASE pc \in {"run", "pending", "validate"}
    <3>1. AtRest
      BY <2>3 DEF SwapInv, Settled, Running
    <3>2. Tells /\ ~Interrupted
      BY <3>1, SilentIsNotInterrupted DEF AtRest, Tells, Q
    <3> QED BY <1>1, <2>2, <3>2, ToOffAgain
  <2>4. CASE pc = "finish" /\ swap_type \in {"none", "fail"}
    <3>1. Silent /\ Tells
      BY <2>4 DEF SwapInv, UpgradeInv, Finishing, Concluding
    <3> QED BY <1>1, <2>2, <3>1, SilentIsNotInterrupted, ToOffAgain
  <2>5. CASE (pc = "finish" /\ swap_type \notin {"none", "fail"}) \/ pc = "copy_done"
    <3>1. Exchanged /\ Kind /\ Marks
      BY <2>5 DEF SwapInv, UpgradeInv, Finishing, Concluding
    <3>2. Interrupted /\ seen.request # "none"
      BY <1>1, <1>2, <3>1, ExchangedIsInterrupted DEF Kind
    <3> QED BY <1>1, <2>2, <3>1, <3>2, ToOffAgain
  <2> QED BY <1>5, <2>3, <2>4, <2>5
<1> QED BY <1>1, <1>3, <1>4, <1>5 DEF SwapInv, Going

LEMMA StutterAsks == ASSUME UpgradeInv, UNCHANGED vars PROVE UpgradeInv'
<1>1. /\ data' = data /\ trailer' = trailer /\ pc' = pc /\ bs' = bs
      /\ swap_type' = swap_type /\ seen' = seen
  BY DEF vars, flash
<1>2. /\ Slots' = Slots /\ Tells' = Tells /\ Valid(Slot1)' = Valid(Slot1)
      /\ Interrupted' = Interrupted /\ Wanted' = Wanted /\ Marks' = Marks /\ Kind' = Kind
      /\ use_scratch' = use_scratch /\ StatusArea' = StatusArea
  BY <1>1, FlashSame, OffSame, SeenSame, MarksSame, BsSame DEF Kind
<1>3. Asking' = Asking /\ Carrying' = Carrying /\ Concluding' = Concluding /\ Asks' = Asks
  BY <1>1, <1>2 DEF Asking, Carrying, Concluding, Asks, Marked
<1> QED BY <1>1, <1>2, <1>3 DEF UpgradeInv

LEMMA InitAsks == ASSUME Init PROVE UpgradeInv
<1>1. pc = "run" /\ ~trailer[Slot1].image_ok /\ ~trailer[Slot1].magic /\ seen = Slots
  BY DEF Init, BlankTrailer
<1>2. Asks
  BY <1>1, SlotsRequests DEF Asks
<1> QED BY <1>1, <1>2 DEF UpgradeInv, Going, State0, State1, State2

LEMMA NextAsks ==
  ASSUME SwapInv, SwapInv', UpgradeInv, [Next]_vars, Excluded = {"stale", "revert"}
  PROVE  UpgradeInv'
<1>1. CASE BootStep
  BY <1>1, ResumeAsks, StartAsks, DiscardAsks, EraseScratchAsks, CopyToScratchAsks,
     EraseOldTrailerAsks, StatusInitAsks, Status1Asks, State1Asks, EraseSlot0Asks,
     CopyToSlot0Asks, MoveStatusAsks, MoveTrailerAsks, NextSectorAsks, SetImageOkAsks,
     SetCopyDoneAsks, BootAsks DEF BootStep
<1> QED BY <1>1, PowerLossAsks, ApplicationAsks, StutterAsks DEF Next

-----------------------------------------------------------------------------
(* The refinement: a step that changes what was seen is one of Upgrades.   *)
LEMMA OtherTold ==
  ASSUME Types'
  PROVE  /\ Valid(Slot1)' => Slots'.other = Header(Slot1)' /\ Header(Slot1)' \in Images
         /\ ~Valid(Slot1)' => Slots'.other \in {"none", "damaged"}
         /\ ~Valid(Slot1)' /\ Header(Slot1)' # "none" => Slots'.other = "damaged"
<1>1. Header(Slot1)' \in Images \cup {"none"}
  <2>1. data'[Slot1][0] \in Sectors
    BY Numbers DEF Types
  <2> QED BY <2>1 DEF Sectors, Header
<1>2. Valid(Slot1)' => Header(Slot1)' # "none"
  BY DEF Valid
<1>3. Slots'.other = CASE Header(Slot1)' = "none" -> "none"
                       [] Valid(Slot1)'           -> Header(Slot1)'
                       [] OTHER                   -> "damaged"
  BY DEF Slots
<1> QED BY <1>1, <1>2, <1>3

(* The actions that leave what was seen.                                   *)
LEMMA NothingSeen ==
  ASSUME BootStep \/ PowerLoss \/ UNCHANGED vars,
         ~boot_set_image_ok, ~boot_set_copy_done, ~Boot
  PROVE  seen' = seen
<1>1. ASSUME Resume \/ Start \/ Discard PROVE seen' = seen
  BY <1>1 DEF Resume, Start, Discard
<1>2. ASSUME EraseScratch \/ EraseOldTrailer \/ EraseSlot1 \/ EraseRequest \/ EraseSlot0
      PROVE  seen' = seen
  BY <1>2 DEF EraseScratch, EraseOldTrailer, EraseSlot1, EraseRequest, EraseSlot0, boot_erase_sector
<1>3. ASSUME CopyToScratch \/ CopyToSlot1 \/ CopyToSlot0 PROVE seen' = seen
  BY <1>3 DEF CopyToScratch, CopyToSlot1, CopyToSlot0, boot_copy_sector
<1>4. ASSUME Status1 \/ Status2 \/ NextSector PROVE seen' = seen
  BY <1>4 DEF Status1, Status2, NextSector, WriteStatus
<1>5. ASSUME boot_status_init \/ MoveStatus \/ MoveTrailer PROVE seen' = seen
  <2>1. /\ Remember
        /\ pc' \in {"init size", "init magic", "status 1",
                    "move image_ok", "move size", "move magic", "status 0"}
    BY <1>5 DEF boot_status_init, MoveStatus, MoveTrailer, WriteTrailer, At, Keep
  <2>2. ~Settled'
    BY <2>1 DEF Settled, Running
  <2> QED BY <2>1, <2>2 DEF Remember
<1>6. ASSUME PowerLoss \/ UNCHANGED vars PROVE seen' = seen
  BY <1>6 DEF PowerLoss, vars
<1> QED BY <1>1, <1>2, <1>3, <1>4, <1>5, <1>6 DEF BootStep

LEMMA SlotsRead ==
  /\ Slots.current = Header(Slot0)
  /\ Slots.request = IF ~trailer[Slot1].magic THEN "none"
                     ELSE IF trailer[Slot1].image_ok THEN "perm" ELSE "test"
  /\ Slots.trial = (trailer[Slot0].magic /\ trailer[Slot0].copy_done /\ ~trailer[Slot0].image_ok)
BY DEF Slots

LEMMA SlotsReadNext ==
  /\ Slots'.current = Header(Slot0)'
  /\ Slots'.request = IF ~trailer'[Slot1].magic THEN "none"
                      ELSE IF trailer'[Slot1].image_ok THEN "perm" ELSE "test"
  /\ Slots'.trial = (trailer'[Slot0].magic /\ trailer'[Slot0].copy_done /\ ~trailer'[Slot0].image_ok)
BY DEF Slots

LEMMA DownloadUpgrades ==
  ASSUME SwapInv, SwapInv', Download PROVE Upgrade!Download
<1>1. PICK img \in Images, whole \in BOOLEAN :
        data' = [data EXCEPT ![Slot1] = ImageData(img, whole)]
  BY DEF Download
<1>2. /\ pc = "run" /\ pc' = "run" /\ Remember
      /\ trailer' = [trailer EXCEPT ![Slot1] = BlankTrailer]
  BY DEF Download
<1>3. Types /\ Types' /\ seen = Slots /\ seen' = Slots'
  BY <1>2, RestRemembers DEF SwapInv, Settled, Running, AtRest
<1>4. /\ data'[Slot0] = data[Slot0] /\ data'[Slot1] = ImageData(img, whole)
      /\ trailer'[Slot0] = trailer[Slot0] /\ trailer'[Slot1] = BlankTrailer
  BY <1>1, <1>2, <1>3 DEF Types
<1>5. Header(Slot1)' = img /\ Header(Slot0)' = Header(Slot0)
  <2>1. 0 \in Indices /\ 0 < Size[img]
    BY Numbers
  <2> QED BY <1>4, <2>1, Numbers DEF Header, ImageData
<1>6. seen'.other \in Images \cup {"damaged"}
  <2>1. Header(Slot1)' # "none"
    BY <1>5, Numbers
  <2> QED BY <1>3, <2>1, OtherTold
<1>7. seen'.request = "none" /\ seen'.current = seen.current /\ seen'.trial = seen.trial
  <2>1. ~trailer'[Slot1].magic
    BY <1>4 DEF BlankTrailer
  <2> QED BY <1>3, <1>4, <1>5, <2>1, SlotsRead, SlotsReadNext
<1> QED BY <1>6, <1>7 DEF Upgrade!Download

(* What the application writes to a trailer leaves the images alone.       *)
LEMMA ImagesSame ==
  ASSUME data' = data
  PROVE  /\ Header(Slot0)' = Header(Slot0) /\ Slots'.other = Slots.other
         /\ Valid(Slot1)' = Valid(Slot1) /\ Header(Slot1)' = Header(Slot1)
BY DEF Slots, Valid, Holds, Header

LEMMA PendingUpgrades ==
  ASSUME SwapInv, UpgradeInv, boot_set_pending PROVE Upgrade!Request
<1>1. /\ pc \in {"run", "pending"} /\ pc' \in {"run", "pending"} /\ Remember /\ data' = data
      /\ \/ ~trailer[Slot1].magic /\ Wrote(Slot1, "magic", TRUE)
         \/ pc = "pending" /\ Wrote(Slot1, "image_ok", TRUE)
  BY DEF boot_set_pending, At, Keep, Wrote
<1>2. Types /\ Asks /\ seen = Slots /\ seen' = Slots'
  BY <1>1, RestRemembers DEF SwapInv, Settled, Running, AtRest, UpgradeInv
<1>3. trailer'[Slot0] = trailer[Slot0]
  BY <1>1, <1>2 DEF Types, Wrote
<1>4. /\ seen'.current = seen.current /\ seen'.other = seen.other /\ seen'.trial = seen.trial
  BY <1>1, <1>2, <1>3, ImagesSame, SlotsRead, SlotsReadNext
<1>5. CASE ~trailer[Slot1].magic /\ Wrote(Slot1, "magic", TRUE)
  <2>1. trailer'[Slot1].magic /\ ~trailer'[Slot1].image_ok
    BY <1>2, <1>5 DEF Types, Trailers, Wrote, Asks
  <2>2. seen.request = "none" /\ seen'.request = "test"
    BY <1>2, <1>5, <2>1, SlotsRead, SlotsReadNext
  <2> QED BY <1>4, <2>2 DEF Upgrade!Request
<1>6. CASE pc = "pending" /\ Wrote(Slot1, "image_ok", TRUE)
  <2>1. seen.request = "test"
    BY <1>6 DEF UpgradeInv
  <2>2. trailer'[Slot1].magic = trailer[Slot1].magic /\ trailer'[Slot1].image_ok
    BY <1>2, <1>6 DEF Types, Trailers, Wrote
  <2>3. seen'.request = "perm"
    BY <1>2, <2>1, <2>2, SlotsRead, SlotsReadNext
  <2> QED BY <1>4, <2>1, <2>3 DEF Upgrade!Request
<1> QED BY <1>1, <1>5, <1>6

LEMMA ConfirmedUpgrades ==
  ASSUME SwapInv, boot_set_confirmed PROVE Upgrade!Confirm
<1>1. /\ pc = "run" /\ pc' = "run" /\ Remember /\ data' = data
      /\ trailer[Slot0].magic /\ trailer[Slot0].copy_done /\ ~trailer[Slot0].image_ok
      /\ Wrote(Slot0, "image_ok", TRUE)
  BY DEF boot_set_confirmed, Keep, Wrote
<1>2. Types /\ seen = Slots /\ seen' = Slots'
  BY <1>1, RestRemembers DEF SwapInv, Settled, Running, AtRest
<1>3. trailer'[Slot0].image_ok /\ trailer'[Slot1] = trailer[Slot1]
  BY <1>1, <1>2 DEF Types, Trailers, Wrote
<1>4. /\ seen'.current = seen.current /\ seen'.other = seen.other
      /\ seen'.request = seen.request /\ seen.trial /\ seen'.trial = FALSE
  BY <1>1, <1>2, <1>3, ImagesSame, SlotsRead, SlotsReadNext
<1> QED BY <1>4 DEF Upgrade!Confirm

LEMMA BootUpgrades == ASSUME SwapInv, SwapInv', Boot PROVE seen' = seen
<1>1. /\ pc = "validate" /\ pc' \in {"run", "failed"} /\ data' = data /\ trailer' = trailer /\ Remember
  BY DEF Boot, At, flash
<1>2. pc' = "run"
  BY <1>1 DEF SwapInv, State0, State1, State2
<1>3. seen' = Slots' /\ seen = Slots
  BY <1>1, <1>2, RestRemembers DEF SwapInv, Settled, Running, AtRest
<1>4. Slots' = Slots
  BY <1>1 DEF Slots, Valid, Holds, Header
<1> QED BY <1>3, <1>4

(* The exchange is done: both images have changed places, and the flag     *)
(* says whether it was a trial.                                            *)
LEMMA CopyDoneUpgrades ==
  ASSUME SwapInv, SwapInv', UpgradeInv, boot_set_copy_done PROVE Upgrade!Exchange
<1>1. /\ pc = "copy_done" /\ pc' = "validate" /\ Wrote(Slot0, "copy_done", TRUE)
      /\ Remember /\ data' = data
  BY DEF boot_set_copy_done, At, Keep, Wrote
<1>2. /\ Types /\ Exchanged /\ Types' /\ Wanted # "none"
      /\ trailer[Slot0].image_ok <=> Wanted # "test"
  BY <1>1 DEF SwapInv, UpgradeInv, Kind
<1>3. seen' = Slots'
  BY <1>1 DEF Remember, Settled
<1>4. /\ trailer'[Slot0].magic = trailer[Slot0].magic /\ trailer'[Slot0].copy_done
      /\ trailer'[Slot0].image_ok = trailer[Slot0].image_ok
      /\ trailer'[Slot1] = trailer[Slot1]
  BY <1>1, <1>2 DEF Types, Trailers, Wrote
<1>5. /\ P \in Images /\ Q \in Images /\ Holds(Slot0, Q) /\ Holds(Slot1, P)
      /\ trailer[Slot0].magic /\ ~trailer[Slot1].magic
  BY <1>2, ExchangedIsDone DEF Exchanged
<1>6. Header(Slot0) = Q /\ Header(Slot1) = P /\ Valid(Slot1)
  BY <1>5, HeaderOfWhole
<1>7. seen'.current = Q /\ seen'.other = P
  BY <1>1, <1>2, <1>3, <1>6, ImagesSame, OtherTold, SlotsReadNext
<1>8. seen'.request = "none" /\ seen'.trial = (Wanted = "test")
  BY <1>2, <1>3, <1>4, <1>5, SlotsReadNext
<1> QED BY <1>2, <1>5, <1>7, <1>8 DEF Upgrade!Exchange, Wanted, P, Q

(* No exchange: nothing has changed, or a bad image is refused.            *)
LEMMA ImageOkUpgrades ==
  ASSUME SwapInv, SwapInv', UpgradeInv, boot_set_image_ok
  PROVE  Upgrade!Refuse \/ UNCHANGED Upgrade!state
<1>1. /\ pc = "finish"
      /\ swap_type' = IF swap_type = "resumed" THEN boot_previous_swap_type ELSE swap_type
      /\ trailer' = IF swap_type' \in {"revert", "fail"}
                    THEN [trailer EXCEPT ![Slot0].image_ok = TRUE] ELSE trailer
      /\ pc' = IF swap_type' \in {"test", "perm", "revert"} THEN "copy_done" ELSE "validate"
      /\ Remember /\ data' = data
  BY DEF boot_set_image_ok
<1>2. Types /\ Types' /\ Finishing /\ Asks /\ Concluding
  BY <1>1 DEF SwapInv, UpgradeInv
<1>3. CASE swap_type \notin {"none", "fail"}
  <2>1. Exchanged /\ swap_type \in {"test", "perm", "revert", "resumed"}
    BY <1>2, <1>3 DEF Finishing
  <2>2. swap_type' \in {"test", "perm", "revert"}
    BY <1>1, <1>2, <2>1, PreviousIsPerm
  <2>3. seen' = seen
    BY <1>1, <2>2 DEF Remember, Settled, Running
  <2> QED BY <2>3 DEF Upgrade!state
<1>4. CASE swap_type \in {"none", "fail"}
  <2>1. /\ swap_type' = swap_type /\ pc' = "validate"
        /\ Intact /\ Tells
    BY <1>1, <1>2, <1>4 DEF Finishing, Concluding
  <2>2. seen' = Slots'
    BY <1>1, <2>1 DEF Remember, Settled
  <2>3. seen'.current = seen.current
    <3>1. Header(Slot0) = P
      BY <2>1, HeaderOfWhole DEF Intact
    <3> QED BY <1>1, <2>2, <3>1, ImagesSame, SlotsReadNext DEF P
  <2>4. trailer'[Slot1] = trailer[Slot1] /\ seen'.request = Slots.request
    <3>1. trailer'[Slot1] = trailer[Slot1]
      BY <1>1, <1>2 DEF Types
    <3> QED BY <2>2, <3>1, SlotsRead, SlotsReadNext
  <2>5. seen'.trial = FALSE /\ (swap_type = "none" => seen'.trial = Slots.trial)
    <3>1. CASE swap_type = "none"
      <4>1. trailer' = trailer /\ ~Slots.trial
        BY <1>1, <1>2, <2>1, <3>1 DEF Concluding
      <4> QED BY <2>2, <4>1, SlotsRead, SlotsReadNext
    <3>2. CASE swap_type = "fail"
      <4>1. trailer'[Slot0].image_ok
        BY <1>1, <1>2, <2>1, <3>2 DEF Types, Trailers
      <4> QED BY <2>2, <3>2, <4>1, SlotsReadNext
    <3> QED BY <1>4, <3>1, <3>2
  <2>6. CASE Q \in Images
    <3>1. swap_type = "none"
      BY <1>2, <1>4, <2>1, <2>6 DEF Concluding, Intact
    <3>2. Slots.request = "none" /\ seen.request = "none" /\ Slots.trial = seen.trial
      BY <1>2, <2>1, <2>6, <3>1 DEF Concluding, Tells
    <3>3. seen'.other = seen.other
      <4>1. Valid(Slot1) /\ Header(Slot1) = Q
        BY <2>1, <2>6, HeaderOfWhole DEF Intact
      <4> QED BY <1>1, <1>2, <2>2, <4>1, ImagesSame, OtherTold DEF Q
    <3> QED BY <2>3, <2>4, <2>5, <3>1, <3>2, <3>3 DEF Upgrade!state
  <2>7. CASE Q \notin Images
    <3>1. seen'.other \in {"none", "damaged"} /\ seen'.other = Slots.other
      BY <1>1, <1>2, <2>1, <2>2, <2>7, ImagesSame, OtherTold DEF Intact
    <3>2. Slots.request \in {seen.request, "none"}
      BY <2>1 DEF Tells
    <3>3. CASE Wanted # "none"
      BY <2>3, <2>4, <2>5, <2>7, <3>1, <3>2, <3>3 DEF Upgrade!Refuse, Wanted, Q
    <3>4. CASE Wanted = "none"
      <4>1. swap_type = "none"
        BY <1>2, <1>4, <3>4 DEF Concluding
      <4>2. Slots.request = seen.request /\ Slots.trial = seen.trial /\ Slots.other = seen.other
        BY <2>1, <2>7, <3>4 DEF Tells, Q
      <4> QED BY <2>3, <2>4, <2>5, <3>1, <4>1, <4>2 DEF Upgrade!state
    <3> QED BY <3>3, <3>4
  <2> QED BY <2>6, <2>7
<1> QED BY <1>3, <1>4

(* A start that exchanges nothing leaves no trial.                         *)
LEMMA NoTrialIsLeft ==
  ASSUME SwapInv, SwapInv', UpgradeInv, boot_set_image_ok, Settled'
  PROVE  seen' = Slots' /\ seen'.trial = FALSE
<1>1. /\ pc = "finish"
      /\ swap_type' = IF swap_type = "resumed" THEN boot_previous_swap_type ELSE swap_type
      /\ trailer' = IF swap_type' \in {"revert", "fail"}
                    THEN [trailer EXCEPT ![Slot0].image_ok = TRUE] ELSE trailer
      /\ pc' = IF swap_type' \in {"test", "perm", "revert"} THEN "copy_done" ELSE "validate"
      /\ Remember
  BY DEF boot_set_image_ok
<1>2. Types /\ Types' /\ Finishing /\ Concluding /\ pc' # "copy_done"
  BY <1>1 DEF SwapInv, UpgradeInv, Settled, Running
<1>3. swap_type \in {"none", "fail"}
  <2> SUFFICES ASSUME swap_type \notin {"none", "fail"} PROVE FALSE
    OBVIOUS
  <2>1. Exchanged /\ swap_type \in {"test", "perm", "revert", "resumed"}
    BY <1>2 DEF Finishing
  <2> QED BY <1>1, <1>2, <2>1, PreviousIsPerm
<1>4. seen' = Slots' /\ swap_type' = swap_type
  BY <1>1, <1>3 DEF Remember
<1>5. CASE swap_type = "none"
  <2>1. trailer' = trailer /\ ~Slots.trial
    BY <1>1, <1>2, <1>4, <1>5 DEF Concluding
  <2> QED BY <1>4, <2>1, SlotsRead, SlotsReadNext
<1>6. CASE swap_type = "fail"
  <2>1. trailer'[Slot0].image_ok
    BY <1>1, <1>2, <1>4, <1>6 DEF Types, Trailers
  <2> QED BY <1>4, <2>1, SlotsReadNext
<1> QED BY <1>3, <1>5, <1>6

LEMMA InitUpgrades == ASSUME Init PROVE Upgrade!Init
<1>1. /\ seen = Slots /\ ~trailer[Slot0].magic /\ ~trailer[Slot1].magic
  BY DEF Init, BlankTrailer
<1>2. Header(Slot0) = Initial /\ Header(Slot1) = "none"
  <2>1. /\ 0 \in Indices /\ 0 < Size[Initial]
        /\ data[Slot0] = ImageData(Initial, TRUE) /\ data[Slot1] = [k \in Indices |-> Blank]
    BY Numbers, SwapAssumption DEF Init
  <2> QED BY <2>1, SwapAssumption, Numbers DEF Header, ImageData, Blank
<1>3. Slots.other = "none"
  <2>1. ~Valid(Slot1)
    BY <1>2 DEF Valid
  <2> QED BY <1>2, <2>1 DEF Slots
<1> QED BY <1>1, <1>2, <1>3, SlotsRead DEF Upgrade!Init

LEMMA StepUpgrades ==
  ASSUME SwapInv, SwapInv', UpgradeInv, [Next]_vars
  PROVE  [Upgrade!Next]_(Upgrade!state)
<1>1. CASE seen' = seen
  BY <1>1 DEF Upgrade!state
<1>2. CASE boot_set_image_ok
  BY <1>2, ImageOkUpgrades DEF Upgrade!Next
<1>3. CASE boot_set_copy_done
  BY <1>3, CopyDoneUpgrades DEF Upgrade!Next
<1>4. CASE Download \/ boot_set_pending \/ boot_set_confirmed
  BY <1>4, DownloadUpgrades, PendingUpgrades, ConfirmedUpgrades DEF Upgrade!Next
<1>5. CASE Boot
  BY <1>1, <1>5, BootUpgrades
<1> QED BY <1>1, <1>2, <1>3, <1>4, <1>5, NothingSeen DEF Next, BootStep

(* A start has its effect in one of two actions.                           *)
LEMMA StartsSettle ==
  ASSUME SwapInv, [Next]_vars, ~Settled, Settled'
  PROVE  boot_set_image_ok \/ boot_set_copy_done
<1>0. pc \notin {"run", "pending", "validate"} /\ pc' \in {"run", "pending", "validate"}
  BY DEF Settled, Running
<1>1. ~Download /\ ~boot_set_pending /\ ~boot_set_confirmed /\ ~PowerLoss /\ ~Boot
      /\ ~UNCHANGED vars
  BY <1>0 DEF Download, boot_set_pending, boot_set_confirmed, PowerLoss, Boot, At, vars
<1>2. ~Resume /\ ~Start /\ ~Discard
  BY <1>0, ResumeEnters DEF Start, Discard, At
<1>3. ~EraseScratch /\ ~CopyToScratch /\ ~EraseOldTrailer /\ ~boot_status_init /\ ~Status1
  BY <1>0 DEF EraseScratch, CopyToScratch, EraseOldTrailer, boot_status_init, WriteTrailer,
              Status1, At
<1>4. ~EraseSlot1 /\ ~CopyToSlot1 /\ ~EraseRequest /\ ~Status2
  BY <1>0 DEF EraseSlot1, CopyToSlot1, EraseRequest, Status2, At
<1>5. ~EraseSlot0 /\ ~CopyToSlot0 /\ ~MoveStatus /\ ~MoveTrailer /\ ~NextSector
  BY <1>0 DEF EraseSlot0, CopyToSlot0, MoveStatus, MoveTrailer, WriteTrailer, NextSector, At
<1> QED BY <1>1, <1>2, <1>3, <1>4, <1>5 DEF Next, BootStep

(* Where the two images of before end, once a start has had its effect.    *)
LEMMA StepCompletes ==
  ASSUME SwapInv, SwapInv', UpgradeInv, [Next]_vars, ~Settled, Settled', seen.other \in Images
  PROVE  {seen.current, seen.other} = {seen.current, seen.other}'
<1>1. CASE boot_set_image_ok
  BY <1>1, ImageOkUpgrades DEF Upgrade!Refuse, Upgrade!state
<1>2. CASE boot_set_copy_done
  BY <1>2, CopyDoneUpgrades DEF Upgrade!Exchange
<1> QED BY <1>1, <1>2, StartsSettle

(* What is left of a trial that nothing replaced.                          *)
LEMMA StepConfirms ==
  ASSUME SwapInv, SwapInv', UpgradeInv, [Next]_vars, ~Settled, Settled',
         seen.trial, seen.request = "none"
  PROVE  ~seen'.trial
<1>1. CASE boot_set_image_ok
  BY <1>1, NoTrialIsLeft
<1>2. CASE boot_set_copy_done
  <2>1. Wanted = "revert"
    BY WantedIs
  <2> QED BY <1>2, <2>1, CopyDoneUpgrades DEF Upgrade!Exchange, Wanted
<1> QED BY <1>1, <1>2, StartsSettle

(* However often power is lost, outside the two circumstances that the     *)
(* runs "boot_stale" and "boot_revert" show to be fatal, an application    *)
(* sees the two images exchanged as a whole, once for each request, and a  *)
(* trial that was not confirmed exchanged back; or no exchange at all.     *)
THEOREM BootSwapImplementsUpgrades ==
  ASSUME Excluded = {"stale", "revert"}
  PROVE  Spec => ImplementsUpgrades
<1> DEFINE Inv == SwapInv /\ UpgradeInv
<1>1. Init => Inv /\ Upgrade!Init
  BY InitHolds, InitAsks, InitUpgrades
<1>2. Inv /\ [Next]_vars => Inv' /\ [Upgrade!Next]_(Upgrade!state)
  BY NextKeepsInv, NextAsks, StepUpgrades
<1> HIDE DEF Inv
<1> QED BY <1>1, <1>2, PTL DEF Spec, ImplementsUpgrades, Upgrade!Spec
(* Outside the circumstance of the run "boot_stale", the comment on        *)
(* boot_swap_if_needed is true: a start that has its effect leaves both    *)
(* images of before in the slots, however often it was interrupted.  The   *)
(* stale trailer is then the only cause of that run's counterexample.      *)
THEOREM InterruptedSwapsAreCompleted ==
  ASSUME Excluded = {"stale", "revert"}
  PROVE  Spec => InterruptedSwapsComplete
<1> DEFINE Inv == SwapInv /\ UpgradeInv
           Completes == ~Settled /\ Settled' /\ seen.other \in Images =>
                          {seen.current, seen.other} = {seen.current, seen.other}'
<1>1. Init => Inv
  BY InitHolds, InitAsks
<1>2. Inv /\ [Next]_vars => Inv' /\ [Completes]_vars
  BY NextKeepsInv, NextAsks, StepCompletes
<1> HIDE DEF Inv
<1>3. Spec => [][Completes]_vars
  <2> HIDE DEF Completes
  <2> QED BY <1>1, <1>2, PTL DEF Spec
<1> QED BY <1>3 DEF InterruptedSwapsComplete

(* Outside the circumstance of the run "boot_revert", a trial that was not *)
(* confirmed ends with the start after it, so that no revert is reverted   *)
(* (boot_set_image_ok for a completed revert in boot_go).                  *)
THEOREM RevertsStayConfirmed ==
  ASSUME Excluded = {"stale", "revert"}
  PROVE  Spec => RevertsAreConfirmed
<1> DEFINE Inv == SwapInv /\ UpgradeInv
           Confirms == ~Settled /\ Settled' /\ seen.trial /\ seen.request = "none"
                         => ~seen'.trial
<1>1. Init => Inv
  BY InitHolds, InitAsks
<1>2. Inv /\ [Next]_vars => Inv' /\ [Confirms]_vars
  BY NextKeepsInv, NextAsks, StepConfirms
<1> HIDE DEF Inv
<1>3. Spec => [][Confirms]_vars
  <2> HIDE DEF Confirms
  <2> QED BY <1>1, <1>2, PTL DEF Spec
<1> QED BY <1>3 DEF RevertsAreConfirmed
=============================================================================
