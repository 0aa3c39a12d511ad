------------------------------- MODULE BootSwap -------------------------------
(***************************************************************************)
(* MCUboot's image swap (library/mcuboot): the boot loader exchanges the   *)
(* images of two flash slots sector by sector through a scratch area, and  *)
(* resumes from status bytes in flash when power is lost on the way.       *)
(*                                                                         *)
(* One action is one operation on the flash: the erasure of a sector, one  *)
(* write of a trailer field, one copy of a sector.  Power may be lost      *)
(* between any two of them and in the middle of a copy.  As on the boards  *)
(* that use it, the scratch area holds one sector.                         *)
(***************************************************************************)
EXTENDS Integers, Sequences, FiniteSetsExt

CONSTANTS
  Images,       \* images that may be installed
  Size,         \* [Images -> 1 .. NumSectors], sectors each one takes
  NumSectors,   \* sectors of a slot
  Initial,      \* the image in slot 0 when the device leaves the factory
  Excluded      \* circumstances in which power is not lost: "stale", "revert"

ASSUME SwapAssumption ==
  /\ NumSectors \in Nat \ {0}
  /\ Size \in [Images -> 1 .. NumSectors]
  /\ Initial \in Images
  /\ "none" \notin Images /\ "damaged" \notin Images
  /\ Excluded \subseteq {"stale", "revert"}

VARIABLES
  data,         \* the sectors of slot 0, slot 1 and the scratch area
  trailer,      \* the trailer of each
  pc,           \* the next flash operation, or what the device does else
  bs,           \* struct boot_status: swap index and swap size
  swap_type,    \* of this start; "resumed" while it is not yet known
  seen          \* history: the slots as the last start to end left them

flash == <<data, trailer>>
vars  == <<flash, pc, bs, swap_type, seen>>

Slot0 == "slot0"    Slot1 == "slot1"    Scratch == "scratch"
Areas == {Slot0, Slot1, Scratch}
Indices == 0 .. NumSectors - 1
Last    == NumSectors - 1

Sectors  == [img : Images \cup {"none"}, k : Indices, whole : BOOLEAN]
Trailers == [magic : BOOLEAN, image_ok : BOOLEAN, copy_done : BOOLEAN,
             size : 0 .. NumSectors, status : SUBSET (0 .. 3 * NumSectors)]

Blank        == [img |-> "none", k |-> 0, whole |-> FALSE]
Idle         == [idx |-> 0, size |-> 0]
BlankTrailer == [magic |-> FALSE, image_ok |-> FALSE, copy_done |-> FALSE,
                 size |-> 0, status |-> {}]
Whole(img, k) == [img |-> img, k |-> k, whole |-> TRUE]
Torn(sector)  == [sector EXCEPT !.whole = FALSE]    \* copied in part

Header(a)  == data[a][0].img
Holds(a, img) == \A k \in 0 .. Size[img] - 1 : data[a][k] = Whole(img, k)

-----------------------------------------------------------------------------
(* boot_status_source: the first row of boot_status_tables that matches.    *)
boot_status_source ==
  IF trailer[Slot0].magic
  THEN IF trailer[Slot0].copy_done THEN "none" ELSE Slot0
  ELSE IF trailer[Scratch].magic THEN Scratch
  ELSE IF trailer[Slot0].copy_done THEN "none" ELSE Slot0

(* boot_read_status_bytes: the end of the first run of written bytes; byte *)
(* 3 * idx + state is written when the swap gets to that point.            *)
StatusEnd(a) ==
  LET S == trailer[a].status
  IN  CHOOSE p \in S : Min(S) .. p \subseteq S /\ p + 1 \notin S

Interrupted ==
  boot_status_source # "none" /\ trailer[boot_status_source].status # {}

boot_read_swap_size ==
  IF trailer[Slot0].magic THEN trailer[Slot0].size ELSE trailer[Scratch].size

boot_swap_type ==
  IF trailer[Slot1].magic
  THEN IF trailer[Slot1].image_ok THEN "perm" ELSE "test"
  ELSE IF trailer[Slot0].magic /\ ~trailer[Slot0].image_ok /\ trailer[Slot0].copy_done
  THEN "revert" ELSE "none"

boot_previous_swap_type ==
  CASE boot_swap_type = "none"   -> "perm"
    [] boot_swap_type = "revert" -> "test"
    [] OTHER                     -> "fail"

(* boot_validate_slot, and what boot_read_image_size needs of an image.    *)
Valid(a) == Header(a) # "none" /\ Holds(a, Header(a))
Sized(a) == Header(a) # "none" =>
              LET last == Size[Header(a)] - 1
              IN  data[a][last] = Whole(Header(a), last)
SectorsOf(a) == IF Header(a) = "none" THEN 0 ELSE Size[Header(a)]
SwapSize     == Max({SectorsOf(Slot0), SectorsOf(Slot1)})

-----------------------------------------------------------------------------
(* What an application can tell of the two slots.                          *)
Slots ==
  [current |-> Header(Slot0),
   other   |-> CASE Header(Slot1) = "none" -> "none"
                 [] Valid(Slot1)           -> Header(Slot1)
                 [] OTHER                  -> "damaged",
   request |-> IF ~trailer[Slot1].magic THEN "none"
               ELSE IF trailer[Slot1].image_ok THEN "perm" ELSE "test",
   trial   |-> trailer[Slot0].magic /\ trailer[Slot0].copy_done /\ ~trailer[Slot0].image_ok]

Running == pc \in {"run", "pending"}

(* A start has had its effect once its marks are written: power that is    *)
(* lost before the image is entered costs a tested image its only run.     *)
Settled == Running \/ pc = "validate"

Remember == seen' = IF Settled' THEN Slots' ELSE seen

-----------------------------------------------------------------------------
(* boot_copy_image swaps one sector at a time, the last of the images      *)
(* first.  When that is the last of the slot, its trailer goes too, and    *)
(* the scratch area keeps the status meanwhile.                            *)
Sector      == bs.size - 1 - bs.idx
use_scratch == bs.idx = 0 /\ Sector = Last
StatusArea  == IF use_scratch THEN Scratch ELSE Slot0

(* Slip: a swap cut off after slot 1's sector is erased copies it again.   *)
EntryOfEarly(state) == IF state = 2 THEN "erase slot0" ELSE "erase scratch"

EntryOf(state) == CASE state = 0 -> "erase scratch"
                    [] state = 1 -> "erase slot1"
                    [] state = 2 -> "erase slot0"

At(label, next) == pc = label /\ pc' = next

Keep(a, field, value) ==
  /\ trailer' = [trailer EXCEPT ![a][field] = value]
  /\ UNCHANGED <<data, bs, swap_type>> /\ Remember

WriteStatus(a, position) ==
  /\ trailer' = [trailer EXCEPT ![a].status = @ \cup {position}]
  /\ UNCHANGED <<data, swap_type, seen>>

Erased(a, S) ==
  /\ data' = [data EXCEPT ![a] = [k \in Indices |-> IF k \in S THEN Blank ELSE @[k]]]
  /\ trailer' = IF a = Scratch \/ Last \in S
                THEN [trailer EXCEPT ![a] = BlankTrailer] ELSE trailer

boot_erase_sector(a, k) == Erased(a, {k}) /\ UNCHANGED <<bs, swap_type, seen>>

boot_copy_sector(from, i, to, j) ==
  /\ data' = [data EXCEPT ![to][j] = data[from][i]]
  /\ UNCHANGED <<trailer, bs, swap_type, seen>>

(* Slip: the swap size is not written.                                     *)
WriteTrailerNoSize(from, to, at, next) ==
  \/ /\ At(at.image_ok, at.magic)
     /\ Keep(to, "image_ok", trailer[to].image_ok \/ trailer[from].image_ok)
  \/ At(at.magic, next) /\ Keep(to, "magic", TRUE)

(* image_ok, swap size and magic, in this order: the magic makes the rest  *)
(* count.                                                                  *)
WriteTrailer(from, to, at, next) ==
  \/ /\ At(at.image_ok, at.size)
     /\ Keep(to, "image_ok", trailer[to].image_ok \/ trailer[from].image_ok)
  \/ At(at.size, at.magic) /\ Keep(to, "size", bs.size)
  \/ At(at.magic, next) /\ Keep(to, "magic", TRUE)

-----------------------------------------------------------------------------
(* boot_swap_sectors, state 0: slot 1's sector goes to the scratch area.    *)
EraseScratch == At("erase scratch", "copy to scratch") /\ boot_erase_sector(Scratch, 0)

CopyToScratch ==
  /\ At("copy to scratch", CASE bs.idx # 0  -> "status 1"
                             [] use_scratch -> "init image_ok"
                             [] OTHER       -> "erase slot0 trailer")
  /\ boot_copy_sector(Slot1, Sector, Scratch, 0)

EraseOldTrailer ==
  At("erase slot0 trailer", "init image_ok") /\ boot_erase_sector(Slot0, Last)

boot_status_init ==
  WriteTrailer(Slot1, StatusArea, [image_ok |-> "init image_ok", size |-> "init size",
                                   magic |-> "init magic"], "status 1")

Status1 ==
  /\ At("status 1", "erase slot1")
  /\ WriteStatus(StatusArea, 3 * bs.idx + 1) /\ UNCHANGED bs

(* State 1: slot 0's sector goes to slot 1.                                *)
EraseSlot1 == At("erase slot1", "copy to slot1") /\ boot_erase_sector(Slot1, Sector)

CopyToSlot1 ==
  /\ At("copy to slot1", IF bs.idx = 0 /\ ~use_scratch
                         THEN "erase slot1 trailer" ELSE "status 2")
  /\ boot_copy_sector(Slot0, Sector, Slot1, Sector)

EraseRequest ==
  At("erase slot1 trailer", "status 2") /\ boot_erase_sector(Slot1, Last)

Status2 ==
  /\ At("status 2", "erase slot0")
  /\ WriteStatus(StatusArea, 3 * bs.idx + 2) /\ UNCHANGED bs

(* State 2: the scratch area goes to slot 0, with the status it kept.      *)
EraseSlot0 == At("erase slot0", "copy to slot0") /\ boot_erase_sector(Slot0, Sector)

CopyToSlot0 ==
  /\ At("copy to slot0", IF use_scratch THEN "move status" ELSE "status 0")
  /\ boot_copy_sector(Scratch, 0, Slot0, Sector)

MoveStatus ==
  /\ At("move status", "move image_ok")
  /\ Keep(Slot0, "status", trailer[Scratch].status)

MoveTrailer ==
  WriteTrailer(Scratch, Slot0, [image_ok |-> "move image_ok", size |-> "move size",
                                magic |-> "move magic"], "status 0")

(* Slip: bs->idx++ is forgotten.                                           *)
NextSectorStuck ==
  At("status 0", "erase scratch") /\ WriteStatus(Slot0, 3 * bs.idx) /\ UNCHANGED bs

NextSector ==
  /\ bs' = [bs EXCEPT !.idx = @ + 1]
  /\ At("status 0", IF bs'.idx < bs.size THEN "erase scratch" ELSE "finish")
  /\ WriteStatus(Slot0, 3 * bs'.idx)

-----------------------------------------------------------------------------
(* Slip: the loop of boot_copy_image does not skip what is swapped.        *)
ResumePastEnd ==
  LET position == StatusEnd(boot_status_source)
  IN  /\ pc = "off" /\ Interrupted
      /\ bs' = [idx |-> position \div 3, size |-> boot_read_swap_size]
      /\ swap_type' = "resumed"
      /\ pc' = EntryOf(position % 3)
      /\ UNCHANGED <<flash, seen>>

(* boot_swap_if_needed: a swap that was cut off is completed; else the     *)
(* trailers say whether one is wanted, and slot 1 must hold a good image.  *)
Resume ==
  LET position == StatusEnd(boot_status_source)
      idx      == position \div 3
  IN  /\ pc = "off" /\ Interrupted
      /\ bs' = [idx |-> idx, size |-> boot_read_swap_size]
      /\ swap_type' = "resumed"
      /\ pc' = CASE ~(trailer[Slot0].magic \/ trailer[Scratch].magic) -> "failed"
                 [] idx >= bs'.size -> "finish"
                 [] OTHER -> EntryOf(position % 3)
      /\ UNCHANGED <<flash, seen>>

Start ==
  /\ pc = "off" /\ ~Interrupted
  /\ UNCHANGED <<flash, seen>>
  /\ \/ /\ boot_swap_type = "none"
        /\ swap_type' = "none" /\ pc' = "finish" /\ UNCHANGED bs
     \/ /\ boot_swap_type # "none" /\ Valid(Slot1)
        /\ swap_type' = boot_swap_type
        /\ bs' = [idx |-> 0, size |-> SwapSize]
        /\ pc' = IF Sized(Slot0) /\ Sized(Slot1) THEN "erase scratch" ELSE "failed"
     \/ /\ boot_swap_type # "none" /\ ~Valid(Slot1)
        /\ swap_type' = "fail"
        /\ pc' = IF Header(Slot1) = "none" THEN "finish" ELSE "discard"
        /\ UNCHANGED bs

(* boot_validate_slot erases all of a slot 1 that holds a bad image.       *)
Discard ==
  At("discard", "finish") /\ Erased(Slot1, Indices) /\ UNCHANGED <<bs, swap_type, seen>>

(* Slip: a completed revert is not marked.                                 *)
MarkFailuresOnly ==
  /\ pc = "finish"
  /\ swap_type' = IF swap_type = "resumed" THEN boot_previous_swap_type ELSE swap_type
  /\ trailer' = IF swap_type' = "fail"
                THEN [trailer EXCEPT ![Slot0].image_ok = TRUE] ELSE trailer
  /\ pc' = IF swap_type' \in {"test", "perm", "revert"} THEN "copy_done" ELSE "validate"
  /\ UNCHANGED <<data, bs>> /\ Remember

(* boot_go, after the swap: what the next start must not do again is       *)
(* marked in slot 0, and slot 0 is checked.                                *)
boot_set_image_ok ==
  /\ pc = "finish"
  /\ swap_type' = IF swap_type = "resumed" THEN boot_previous_swap_type ELSE swap_type
  /\ trailer' = IF swap_type' \in {"revert", "fail"}
                THEN [trailer EXCEPT ![Slot0].image_ok = TRUE] ELSE trailer
  /\ pc' = IF swap_type' \in {"test", "perm", "revert"} THEN "copy_done" ELSE "validate"
  /\ UNCHANGED <<data, bs>> /\ Remember

boot_set_copy_done == At("copy_done", "validate") /\ Keep(Slot0, "copy_done", TRUE)

Boot ==
  /\ At("validate", IF Valid(Slot0) THEN "run" ELSE "failed")
  /\ bs' = Idle /\ swap_type' = "none"
  /\ UNCHANGED flash /\ Remember

BootStep ==
  \/ Resume \/ Start \/ Discard
  \/ EraseScratch \/ CopyToScratch \/ EraseOldTrailer \/ boot_status_init \/ Status1
  \/ EraseSlot1 \/ CopyToSlot1 \/ EraseRequest \/ Status2
  \/ EraseSlot0 \/ CopyToSlot0 \/ MoveStatus \/ MoveTrailer \/ NextSector
  \/ boot_set_image_ok \/ boot_set_copy_done \/ Boot

-----------------------------------------------------------------------------
(* The application: it writes slot 1, whole or not, and asks for a swap or *)
(* confirms the one that brought it.                                       *)
ImageData(img, whole) ==
  [k \in Indices |-> IF k >= Size[img] THEN Blank
                     ELSE [img |-> img, k |-> k, whole |-> whole]]

Download ==
  /\ pc = "run"
  /\ \E img \in Images, whole \in BOOLEAN :
        data' = [data EXCEPT ![Slot1] = ImageData(img, whole)]
  /\ trailer' = [trailer EXCEPT ![Slot1] = BlankTrailer]
  /\ UNCHANGED <<pc, bs, swap_type>> /\ Remember

boot_set_pending ==
  \/ /\ pc = "run" /\ ~trailer[Slot1].magic
     /\ pc' \in {"run", "pending"}
     /\ Keep(Slot1, "magic", TRUE)
  \/ At("pending", "run") /\ Keep(Slot1, "image_ok", TRUE)

boot_set_confirmed ==
  /\ pc = "run"
  /\ trailer[Slot0].magic /\ trailer[Slot0].copy_done /\ ~trailer[Slot0].image_ok
  /\ UNCHANGED pc /\ Keep(Slot0, "image_ok", TRUE)

(* Power may be lost at any moment: the flash stays as it is, the memory   *)
(* goes.  A copy, or the erasure of a slot, may be half done.              *)
Copies ==
  {[at |-> "copy to scratch", from |-> Slot1,   i |-> Sector, to |-> Scratch, j |-> 0],
   [at |-> "copy to slot1",   from |-> Slot0,   i |-> Sector, to |-> Slot1,   j |-> Sector],
   [at |-> "copy to slot0",   from |-> Scratch, i |-> 0,      to |-> Slot0,   j |-> Sector]}

(* The status is in the scratch area, where a slot 0 that still shows the  *)
(* trailer of the swap before hides it.                                    *)
Stale == trailer[Slot0].magic /\ trailer[Slot0].copy_done /\ trailer[Scratch].status # {}

PowerLoss ==
  /\ pc # "off" /\ pc' = "off"
  /\ "stale" \in Excluded => ~Stale
  /\ "revert" \in Excluded => swap_type # "revert"
  /\ \/ UNCHANGED flash
     \/ \E c \in Copies :
          /\ pc = c.at
          /\ data' = [data EXCEPT ![c.to][c.j] = Torn(data[c.from][c.i])]
          /\ UNCHANGED trailer
     \/ pc = "discard" /\ \E S \in SUBSET Indices : Erased(Slot1, S)
  /\ bs' = Idle /\ swap_type' = "none" /\ UNCHANGED seen

-----------------------------------------------------------------------------
Init ==
  /\ data = [a \in Areas |-> IF a = Slot0 THEN ImageData(Initial, TRUE)
                             ELSE [k \in Indices |-> Blank]]
  /\ trailer = [a \in Areas |-> BlankTrailer]
  /\ pc = "run" /\ bs = Idle /\ swap_type = "none"
  /\ seen = Slots

Next == BootStep \/ Download \/ boot_set_pending \/ boot_set_confirmed \/ PowerLoss

Spec     == Init /\ [][Next]_vars
FairSpec == Spec /\ WF_vars(BootStep)

-----------------------------------------------------------------------------
(* The variables have their types, and the sector a swap is at is one of   *)
(* the slot's.                                                             *)
Resting == {"off", "run", "pending", "discard", "finish", "copy_done", "validate", "failed"}

TypeOK ==
  /\ data \in [Areas -> [Indices -> Sectors]]
  /\ trailer \in [Areas -> Trailers]
  /\ bs \in [idx : 0 .. NumSectors, size : 0 .. NumSectors]
  /\ pc \notin Resting => Sector \in Indices

(* While the boot loader is at work, every sector of the two images that   *)
(* an application last saw is whole somewhere: no power loss, wherever it   *)
(* falls, costs the device an image.                                       *)
NothingLost ==
  \A img \in {seen.current, seen.other} \cap Images :
    \A k \in 0 .. Size[img] - 1 :
      \E a \in Areas, j \in Indices : data[a][j] = Whole(img, k)

(* No assertion of the boot loader fails, and boot_go never finds slot 0   *)
(* without a good image.                                                   *)
NeverFailed == pc # "failed"

(* However often power is lost, an application sees whole exchanges of the *)
(* two images, the ones that were asked for, or none.                      *)
Upgrade == INSTANCE Upgrades WITH
  current <- seen.current, other <- seen.other,
  request <- seen.request, trial <- seen.trial
ImplementsUpgrades == Upgrade!Spec

(* When power is no longer lost, an image runs in the end.                 *)
EventuallyRuns == <>[][~PowerLoss]_vars => []<>Running

(* "If a prior copy operation was interrupted by a system reset, this      *)
(* function completes that operation": a start leaves both images of       *)
(* before in the two slots.                                                *)
InterruptedSwapsComplete ==
  [][~Settled /\ Settled' /\ seen.other \in Images =>
       {seen.current, seen.other} = {seen.current, seen.other}']_vars

(* A reverted image is confirmed, so that the next start does not revert   *)
(* the revert.                                                             *)
RevertsAreConfirmed ==
  [][~Settled /\ Settled' /\ seen.trial /\ seen.request = "none" => ~seen'.trial]_vars
=============================================================================
