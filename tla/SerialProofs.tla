---------------------------- MODULE SerialProofs ----------------------------
(***************************************************************************)
(* Proofs about SerialIO, for buffers and FIFOs of any size.               *)
(*                                                                         *)
(* That no call waits for the UART needs that what a call still has to     *)
(* move was counted against room that only grows meanwhile; that output    *)
(* keeps its order needs that a write goes to the UART directly only while *)
(* the ring buffer is empty. LineInv says so for each place of the         *)
(* processor.                                                              *)
(***************************************************************************)
EXTENDS SerialIO, SequenceTheorems, TLAPS

(***************************************************************************)
(* The ring buffer is a queue. Both indices may be as large as size, where *)
(* they stand for 0, so each fact about a slot is one about an index       *)
(* modulo size.                                                            *)
(***************************************************************************)
LEMMA IndexModulo ==
  ASSUME NEW size \in Nat \ {0}, NEW i \in 0 .. size
  PROVE  i % size = IF i = size THEN 0 ELSE i
OBVIOUS

(* The fields of a sound ring buffer.                                      *)
LEMMA RingFields ==
  ASSUME NEW size \in Nat \ {0}, NEW items, NEW rb, RingSound(rb, size, items)
  PROVE  /\ rb \in [buf : [0 .. size - 1 -> items], size : {size}, avail : 0 .. size,
                   wridx : 0 .. size, rdidx : 0 .. size]
         /\ rb.buf \in [0 .. size - 1 -> items] /\ rb.size = size
         /\ rb.avail \in 0 .. size /\ rb.wridx \in 0 .. size /\ rb.rdidx \in 0 .. size
         /\ rb.wridx % size = Slot(rb, (rb.rdidx % size) + Used(rb))
         /\ rb.wridx % size = IF rb.wridx = size THEN 0 ELSE rb.wridx
         /\ rb.rdidx % size = IF rb.rdidx = size THEN 0 ELSE rb.rdidx
         /\ Used(rb) = size - rb.avail
BY IndexModulo DEF RingSound, Used

(* What a sound ring buffer holds is a sequence of items, as long as avail *)
(* says.                                                                   *)
LEMMA ContentsSequence ==
  ASSUME NEW size \in Nat \ {0}, NEW items, NEW rb, RingSound(rb, size, items)
  PROVE  /\ Contents(rb) \in Seq(items)
         /\ Len(Contents(rb)) = Used(rb)
         /\ Used(rb) \in 0 .. size
         /\ \A i \in 1 .. Used(rb) :
              Contents(rb)[i] = rb.buf[Slot(rb, (rb.rdidx % size) + i - 1)]
<1> DEFINE n == Used(rb)
           r == rb.rdidx % size
<1>1. n \in 0 .. size /\ r \in 0 .. size - 1 /\ rb.size = size
  BY RingFields
<1>2. \A i \in 1 .. n : Slot(rb, r + i - 1) \in 0 .. size - 1
  BY <1>1 DEF Slot
<1>3. \A i \in 1 .. n : rb.buf[Slot(rb, r + i - 1)] \in items
  BY <1>2, RingFields
<1>4. Contents(rb) = [i \in 1 .. n |-> rb.buf[Slot(rb, r + i - 1)]]
  BY <1>1 DEF Contents
<1> HIDE DEF n, r
<1>5. Contents(rb) \in [1 .. n -> items]
  BY <1>3, <1>4
<1>6. Contents(rb) \in Seq(items)
  BY <1>1, <1>5, SeqDef
<1>7. Len(Contents(rb)) = n
  BY <1>1, <1>5
<1> QED BY <1>1, <1>4, <1>6, <1>7 DEF n, r

(* A new ring buffer is sound and empty.                                   *)
LEMMA InitContents ==
  ASSUME NEW size \in Nat \ {0}, NEW items, 0 \in items
  PROVE  /\ RingSound(rb_init(size), size, items)
         /\ rb_isempty(rb_init(size))
         /\ Contents(rb_init(size)) = <<>>
<1>1. 0 % size = 0
  BY IndexModulo
<1>2. RingSound(rb_init(size), size, items)
  BY <1>1 DEF RingSound, rb_init, Slot, Used
<1>3. Used(rb_init(size)) = 0
  BY DEF rb_init, Used
<1> QED BY <1>2, <1>3, ContentsSequence DEF rb_isempty, rb_init

(* Empty and full are what they say.                                       *)
LEMMA EmptyContents ==
  ASSUME NEW size \in Nat \ {0}, NEW items, NEW rb, RingSound(rb, size, items)
  PROVE  /\ rb_isempty(rb) <=> Contents(rb) = <<>>
         /\ rb_isfull(rb) <=> Len(Contents(rb)) = size
<1>1. Len(Contents(rb)) = size - rb.avail /\ rb.avail \in 0 .. size /\ rb.size = size
  BY ContentsSequence, RingFields
<1>2. Contents(rb) = <<>> <=> Len(Contents(rb)) = 0
  BY ContentsSequence, EmptySeq
<1> QED BY <1>1, <1>2 DEF rb_isempty, rb_isfull

(* rb_add puts its item behind the others.                                 *)
LEMMA AddContents ==
  ASSUME NEW size \in Nat \ {0}, NEW items, NEW rb, RingSound(rb, size, items),
         NEW item \in items, ~rb_isfull(rb)
  PROVE  /\ RingSound(rb_add(rb, item), size, items)
         /\ Contents(rb_add(rb, item)) = Append(Contents(rb), item)
<1> DEFINE w == rb.wridx % size
           r == rb.rdidx % size
           n == Used(rb)
           new == rb_add(rb, item)
<1>0. /\ rb \in [buf : [0 .. size - 1 -> items], size : {size}, avail : 0 .. size,
                 wridx : 0 .. size, rdidx : 0 .. size]
      /\ rb.buf \in [0 .. size - 1 -> items]
      /\ rb.wridx \in 0 .. size /\ rb.rdidx \in 0 .. size
  BY RingFields
<1>1. /\ w \in 0 .. size - 1 /\ r \in 0 .. size - 1 /\ n \in 0 .. size - 1
      /\ rb.size = size /\ n = size - rb.avail /\ rb.avail \in 1 .. size
      /\ w = Slot(rb, r + n)
  BY RingFields DEF rb_isfull
<1>2. new = [rb EXCEPT !.buf = [rb.buf EXCEPT ![w] = item], !.wridx = w + 1,
                       !.avail = rb.avail - 1]
  BY <1>1 DEF rb_add
<1>r. r = rb.rdidx % size /\ n = Used(rb)
  OBVIOUS
<1> HIDE DEF w, r, n, new
<1>3. /\ new \in [buf : [0 .. size - 1 -> items], size : {size}, avail : 0 .. size,
                  wridx : 0 .. size, rdidx : 0 .. size]
      /\ new.buf = [rb.buf EXCEPT ![w] = item]
      /\ new.size = size /\ new.avail = rb.avail - 1
      /\ new.wridx = w + 1 /\ new.rdidx = rb.rdidx
  <2>1. [rb.buf EXCEPT ![w] = item] \in [0 .. size - 1 -> items]
    BY <1>0, <1>1
  <2>2. w + 1 \in 0 .. size /\ rb.avail - 1 \in 0 .. size
    BY <1>1
  <2> QED BY <1>0, <1>2, <2>1, <2>2
<1>n. /\ w \in Nat /\ r \in Nat /\ n \in Nat /\ size \in Nat /\ w < size /\ r < size /\ n < size
      /\ w = IF r + n >= size THEN r + n - size ELSE r + n
  BY <1>1 DEF Slot
<1>s. \A j : /\ Slot(rb, j) = IF j >= size THEN j - size ELSE j
             /\ Slot(new, j) = IF j >= size THEN j - size ELSE j
  BY <1>1, <1>3 DEF Slot
<1>4. Used(new) = n + 1
  BY <1>1, <1>3 DEF Used
<1>5. RingSound(new, size, items)
  <2>1. (w + 1) % size = IF w + 1 = size THEN 0 ELSE w + 1
    BY <1>1, IndexModulo
  <2>2. (IF w + 1 = size THEN 0 ELSE w + 1) = Slot(new, r + n + 1)
    BY <1>n, <1>s
  <2>3. new.wridx % size = Slot(new, (new.rdidx % size) + Used(new))
    BY <1>1, <1>r, <1>3, <1>4, <2>1, <2>2
  <2> QED BY <1>3, <2>3 DEF RingSound
<1>6. Contents(new) = Append(Contents(rb), item)
  <2>1. /\ Contents(rb) \in Seq(items) /\ Len(Contents(rb)) = n
        /\ \A i \in 1 .. n : Contents(rb)[i] = rb.buf[Slot(rb, r + i - 1)]
    BY <1>r, ContentsSequence
  <2>2. /\ Contents(new) \in Seq(items) /\ Len(Contents(new)) = n + 1
        /\ \A i \in 1 .. n + 1 : Contents(new)[i] = new.buf[Slot(new, r + i - 1)]
    <3>1. new.rdidx % size = r
      BY <1>r, <1>3
    <3> QED BY <1>4, <1>5, <3>1, ContentsSequence
  <2>3. \A i \in 1 .. n : /\ Slot(new, r + i - 1) = Slot(rb, r + i - 1)
                          /\ Slot(rb, r + i - 1) \in 0 .. size - 1
                          /\ Slot(rb, r + i - 1) # w
    BY <1>n, <1>s
  <2>4. Slot(new, r + (n + 1) - 1) = w
    BY <1>n, <1>s
  <2>5. \A j \in 0 .. size - 1 : new.buf[j] = IF j = w THEN item ELSE rb.buf[j]
    BY <1>0, <1>1, <1>3
  <2> DEFINE old == Contents(rb)  got == Contents(new)  want == Append(old, item)
  <2>6. /\ want \in Seq(items) /\ Len(want) = n + 1
        /\ \A i \in 1 .. n : want[i] = old[i]
    BY <2>1, AppendProperties
  <2>7. want[n + 1] = item
    BY <2>1, AppendProperties
  <2>8. ASSUME NEW i \in 1 .. n PROVE got[i] = want[i]
    <3>1. i \in 1 .. n + 1 /\ n \in Nat
      BY <1>1
    <3>2. got[i] = new.buf[Slot(new, r + i - 1)]
      BY <2>2, <3>1
    <3>3. new.buf[Slot(new, r + i - 1)] = rb.buf[Slot(rb, r + i - 1)]
      BY <2>3, <2>5
    <3> QED BY <2>1, <2>6, <3>2, <3>3
  <2>9. got[n + 1] = item
    <3>1. n + 1 \in 1 .. n + 1
      BY <1>1
    <3>2. got[n + 1] = new.buf[Slot(new, r + (n + 1) - 1)]
      BY <2>2, <3>1
    <3> QED BY <1>1, <2>4, <2>5, <3>2
  <2>10. \A i \in 1 .. n + 1 : got[i] = want[i]
    <3>1. \A i \in 1 .. n + 1 : i \in 1 .. n \/ i = n + 1
      BY <1>1
    <3> HIDE DEF got, want
    <3> QED BY <2>7, <2>8, <2>9, <3>1
  <2> HIDE DEF want, got
  <2> QED BY <2>2, <2>6, <2>10, SeqEqual DEF want, got
<1> QED BY <1>5, <1>6 DEF new

(* rb_remove returns the first item and keeps the others.                  *)
LEMMA RemoveContents ==
  ASSUME NEW size \in Nat \ {0}, NEW items, NEW rb, RingSound(rb, size, items),
         ~rb_isempty(rb)
  PROVE  /\ RingSound(rb_remove(rb), size, items)
         /\ Contents(rb) # <<>>
         /\ rb_next(rb) = Head(Contents(rb))
         /\ Contents(rb_remove(rb)) = Tail(Contents(rb))
<1> DEFINE w == rb.wridx % size
           r == rb.rdidx % size
           n == Used(rb)
           new == rb_remove(rb)
<1>0. /\ rb \in [buf : [0 .. size - 1 -> items], size : {size}, avail : 0 .. size,
                 wridx : 0 .. size, rdidx : 0 .. size]
      /\ rb.buf \in [0 .. size - 1 -> items]
      /\ rb.wridx \in 0 .. size /\ rb.rdidx \in 0 .. size
  BY RingFields
<1>1. /\ w \in 0 .. size - 1 /\ r \in 0 .. size - 1 /\ n \in 1 .. size
      /\ rb.size = size /\ n = size - rb.avail /\ rb.avail \in 0 .. size - 1
      /\ w = Slot(rb, r + n)
  BY RingFields DEF rb_isempty
<1>2. new = [rb EXCEPT !.rdidx = r + 1, !.avail = rb.avail + 1]
  BY <1>1 DEF rb_remove
<1>r. r = rb.rdidx % size /\ n = Used(rb) /\ w = rb.wridx % size
  OBVIOUS
<1> HIDE DEF w, r, n, new
<1>3. /\ new \in [buf : [0 .. size - 1 -> items], size : {size}, avail : 0 .. size,
                  wridx : 0 .. size, rdidx : 0 .. size]
      /\ new.buf = rb.buf /\ new.size = size /\ new.avail = rb.avail + 1
      /\ new.wridx = rb.wridx /\ new.rdidx = r + 1
  <2>1. r + 1 \in 0 .. size /\ rb.avail + 1 \in 0 .. size
    BY <1>1
  <2> QED BY <1>0, <1>2, <2>1
<1>n. /\ w \in Nat /\ r \in Nat /\ n \in Nat /\ size \in Nat /\ w < size /\ r < size /\ 0 < n /\ n <= size
      /\ w = IF r + n >= size THEN r + n - size ELSE r + n
  BY <1>1 DEF Slot
<1>s. \A j : /\ Slot(rb, j) = IF j >= size THEN j - size ELSE j
             /\ Slot(new, j) = IF j >= size THEN j - size ELSE j
  BY <1>1, <1>3 DEF Slot
<1>4. (r + 1) % size = IF r + 1 = size THEN 0 ELSE r + 1
  <2>1. r + 1 \in 0 .. size
    BY <1>1
  <2> QED BY <2>1, IndexModulo
<1>9. Used(new) = n - 1
  <2>1. Used(new) = new.size - new.avail
    BY DEF Used
  <2>2. new.size = size /\ new.avail = rb.avail + 1
    BY <1>3
  <2>3. size \in Nat /\ n = size - rb.avail /\ rb.avail \in Nat
    BY <1>1
  <2> HIDE DEF new
  <2> QED BY <2>1, <2>2, <2>3
<1>5. RingSound(new, size, items)
  <2>1. new.wridx % size = Slot(new, (new.rdidx % size) + Used(new))
    <3>2. w = Slot(new, (IF r + 1 = size THEN 0 ELSE r + 1) + (n - 1))
      BY <1>n, <1>s
    <3>3. new.wridx % size = w
      BY <1>r, <1>3
    <3> QED BY <1>3, <1>4, <1>9, <3>2, <3>3
  <2> QED BY <1>3, <2>1 DEF RingSound
<1>6. /\ Contents(rb) \in Seq(items) /\ Len(Contents(rb)) = n
      /\ \A i \in 1 .. n : Contents(rb)[i] = rb.buf[Slot(rb, r + i - 1)]
  BY <1>r, ContentsSequence
<1>7. Contents(rb) # <<>>
  BY <1>1, <1>6
<1>8. rb_next(rb) = Head(Contents(rb))
  <2>1. Head(Contents(rb)) = Contents(rb)[1]
    OBVIOUS
  <2>2. Slot(rb, r + 1 - 1) = r
    BY <1>1 DEF Slot
  <2> QED BY <1>1, <1>r, <1>6, <2>1, <2>2 DEF rb_next
<1>10. Contents(new) = Tail(Contents(rb))
  <2>1. /\ Contents(new) \in Seq(items) /\ Len(Contents(new)) = n - 1
        /\ \A i \in 1 .. n - 1 :
             Contents(new)[i] = rb.buf[Slot(new, ((r + 1) % size) + i - 1)]
    BY <1>3, <1>9, <1>5, ContentsSequence
  <2>2. \A i \in 1 .. n - 1 :
          Slot(new, ((r + 1) % size) + i - 1) = Slot(rb, r + (i + 1) - 1)
    <3> DEFINE next == (r + 1) % size
    <3>1. next = IF r + 1 = size THEN 0 ELSE r + 1
      BY <1>4
    <3> HIDE DEF next
    <3>2. \A i \in 1 .. n - 1 : Slot(new, next + i - 1) = Slot(rb, r + (i + 1) - 1)
      BY <1>n, <1>s, <3>1
    <3> QED BY <3>2 DEF next
  <2> DEFINE old == Contents(rb)  got == Contents(new)
  <2>3. /\ Tail(old) \in Seq(items) /\ Len(Tail(old)) = n - 1
        /\ \A i \in 1 .. n - 1 : Tail(old)[i] = old[i + 1]
    BY <1>6, <1>7, HeadTailProperties
  <2>4. ASSUME NEW i \in 1 .. n - 1 PROVE got[i] = Tail(old)[i]
    <3>1. i + 1 \in 1 .. n
      BY <1>1
    <3>2. old[i + 1] = rb.buf[Slot(rb, r + (i + 1) - 1)]
      BY <1>6, <3>1
    <3> QED BY <2>1, <2>2, <2>3, <3>2
  <2> HIDE DEF old, got
  <2> QED BY <2>1, <2>3, <2>4, SeqEqual DEF old, got
<1> QED BY <1>5, <1>7, <1>8, <1>10 DEF new

-----------------------------------------------------------------------------

LineInv ==
    /\ TypeOK
    /\ NeverWaits
    /\ rbbuf # <<>> => pc \in {"write", "push", "rx_read", "tx_pop", "tx_more", "tx_last"}
    /\ todo > 0 => pc \in {"write", "read", "rx_read", "tx_pop"}
    /\ pc = "write" => todo <= Len(rbbuf) /\ (todo > 0 => rb_isempty(snd_rb))
    /\ pc = "tx_pop" => Len(rbbuf) <= todo /\ todo <= tx_avail
    /\ timedout \/ pc = "rx_timeout" => rxfifo # <<>>
    /\ pc = "closed" => txfifo = <<>> /\ rb_isempty(snd_rb) /\ rb_isempty(rcv_rb)

-----------------------------------------------------------------------------
LEMMA FollowingChar ==
  ASSUME NEW c \in Chars, NEW n \in Nat
  PROVE  Following(c, n) \in Chars
BY SizesAssumption DEF Following, Chars

LEMMA CharZero == 0 \in Chars
BY SizesAssumption DEF Chars

LEMMA QueueOps ==
  ASSUME NEW s \in Seq(Chars)
  PROVE  /\ Len(s) \in Nat /\ (s = <<>> <=> Len(s) = 0)
         /\ \A c \in Chars : Append(s, c) \in Seq(Chars) /\ Len(Append(s, c)) = Len(s) + 1
         /\ s # <<>> => /\ Head(s) \in Chars /\ Tail(s) \in Seq(Chars)
                        /\ Len(Tail(s)) = Len(s) - 1
BY AppendProperties, HeadTailProperties, EmptySeq, LenProperties

LEMMA InitLine == Init => LineInv
<1> SUFFICES ASSUME Init PROVE LineInv
  OBVIOUS
<1>1. /\ RingSound(snd_rb, tx_bufsz, Chars) /\ rb_isempty(snd_rb)
      /\ RingSound(rcv_rb, rx_bufsz, Chars) /\ rb_isempty(rcv_rb)
  BY SizesAssumption, CharZero, InitContents DEF Init
<1>2. <<>> \in Seq(Chars) /\ Len(<<>>) = 0
  BY EmptySeq
<1>3. TypeOK
  <2>1. /\ pc \in Places /\ todo \in Nat /\ rbbuf \in Seq(Chars)
        /\ txint \in BOOLEAN /\ closing \in BOOLEAN /\ timedout \in BOOLEAN
        /\ written \in Chars /\ arrived \in Chars
    BY <1>2, CharZero DEF Init, Places
  <2>2. /\ txfifo \in Seq(Chars) /\ Len(txfifo) <= tx_fifo_len
        /\ rxfifo \in Seq(Chars) /\ Len(rxfifo) <= rx_fifo_len
    BY <1>2, SizesAssumption DEF Init
  <2> QED BY <1>1, <2>1, <2>2 DEF TypeOK
<1> QED BY <1>1, <1>2, <1>3 DEF Init, LineInv, NeverWaits

(* Every step preserves it, action by action.                              *)
LEMMA StepLine == LineInv /\ [Next]_vars => LineInv'
<1> SUFFICES ASSUME LineInv, [Next]_vars PROVE LineInv'
  OBVIOUS
<1> USE SizesAssumption
<1>t. TypeOK
  BY DEF LineInv
<1>q. /\ Len(txfifo) \in Nat /\ Len(rxfifo) \in Nat /\ Len(rbbuf) \in Nat
      /\ (txfifo = <<>> <=> Len(txfifo) = 0) /\ (rxfifo = <<>> <=> Len(rxfifo) = 0)
      /\ (rbbuf = <<>> <=> Len(rbbuf) = 0)
      /\ <<>> \in Seq(Chars) /\ Len(<<>>) = 0
      /\ todo \in Nat /\ tx_avail \in Nat /\ tx_avail = tx_fifo_len - Len(txfifo)
      /\ tx_avail' = tx_fifo_len - Len(txfifo')
  BY <1>t, QueueOps, EmptySeq DEF TypeOK, tx_avail
<1>1. CASE Drain
  <2>1. Tail(txfifo) \in Seq(Chars) /\ Len(Tail(txfifo)) = Len(txfifo) - 1
    BY <1>1, <1>t, QueueOps DEF Drain, TypeOK
  <2> QED BY <1>1, <1>q, <2>1 DEF Drain, LineInv, TypeOK, NeverWaits
<1>2. CASE Arrive
  <2>1. rxfifo' \in Seq(Chars) /\ Len(rxfifo') = Len(rxfifo) + 1
    BY <1>2, <1>t, QueueOps DEF Arrive, TypeOK
  <2>2. Following(arrived, 1) \in Chars
    BY <1>t, FollowingChar DEF TypeOK
  <2>3. /\ Len(rxfifo') <= rx_fifo_len /\ arrived' \in Chars /\ timedout' = FALSE
        /\ UNCHANGED <<pc, todo, rbbuf, snd_rb, rcv_rb, txint, closing, txfifo, written>>
    BY <1>2, <1>q, <2>1, <2>2 DEF Arrive
  <2>4. TypeOK'
    BY <1>t, <2>1, <2>3 DEF TypeOK
  <2>5. rxfifo' # <<>>
    BY <1>q, <2>1
  <2> QED BY <1>q, <2>1, <2>3, <2>4, <2>5 DEF LineInv, NeverWaits
<1>3. CASE CharTimeout
  BY <1>3, <1>q DEF CharTimeout, LineInv, TypeOK, NeverWaits
<1>4. ASSUME NEW n \in 1 .. MaxCnt, ez_sio_write(n) PROVE LineInv'
  <2>1. /\ rbbuf' \in Seq(Chars) /\ Len(rbbuf') = n
    <3>1. \A i \in 1 .. n : Following(written, i - 1) \in Chars
      BY <1>t, FollowingChar DEF TypeOK
    <3>2. rbbuf' \in [1 .. n -> Chars] /\ n \in Nat
      BY <1>4, <3>1 DEF ez_sio_write
    <3> QED BY <3>2, SeqDef
  <2>2. /\ Direct(n) \in Nat /\ Direct(n) <= n /\ Direct(n) <= tx_avail
        /\ Direct(n) > 0 => rb_isempty(snd_rb)
    BY <1>q DEF Direct, Least
  <2> QED BY <1>4, <1>q, <2>1, <2>2 DEF ez_sio_write, LineInv, TypeOK, NeverWaits, Places
<1>5. ASSUME NEW n \in 1 .. MaxCnt, ez_sio_read(n) PROVE LineInv'
  BY <1>5, <1>q DEF ez_sio_read, Calls, LineInv, TypeOK, NeverWaits, Places
<1>6. CASE ez_sio_close
  BY <1>6, <1>q DEF ez_sio_close, LineInv, TypeOK, NeverWaits
<1>7. CASE CloseRxint
  BY <1>7, <1>q DEF CloseRxint, Calls, LineInv, TypeOK, NeverWaits, Places
<1>8. CASE ez_sio_open
  <2>1. /\ pc' = "idle" /\ rxfifo' = <<>> /\ timedout' \in BOOLEAN /\ ~timedout'
        /\ UNCHANGED <<todo, rbbuf, snd_rb, rcv_rb, txint, closing, txfifo,
                       written, arrived>>
    BY <1>8 DEF ez_sio_open
  <2>2. TypeOK'
    BY <1>t, <1>q, <2>1 DEF TypeOK, Places
  <2> QED BY <1>8, <1>q, <2>1, <2>2 DEF ez_sio_open, LineInv, NeverWaits
<1>9. CASE WriteDirect
  <2>1. /\ rbbuf # <<>> /\ tx_avail > 0 /\ todo > 0
    BY <1>9, <1>q DEF WriteDirect, LineInv
  <2>2. /\ Head(rbbuf) \in Chars /\ Tail(rbbuf) \in Seq(Chars)
        /\ Len(Tail(rbbuf)) = Len(rbbuf) - 1
    BY <2>1, <1>t, QueueOps DEF TypeOK
  <2>3. /\ Append(txfifo, Head(rbbuf)) \in Seq(Chars)
        /\ Len(Append(txfifo, Head(rbbuf))) = Len(txfifo) + 1
    BY <2>2, <1>t, QueueOps DEF TypeOK
  <2>4. Following(written, 1) \in Chars
    BY <1>t, FollowingChar DEF TypeOK
  <2> QED BY <1>9, <1>q, <2>1, <2>2, <2>3, <2>4
        DEF WriteDirect, LineInv, TypeOK, NeverWaits, Places
<1>10. CASE WritePush
  <2>1. /\ Head(rbbuf) \in Chars /\ Tail(rbbuf) \in Seq(Chars)
        /\ Len(Tail(rbbuf)) = Len(rbbuf) - 1
    BY <1>10, <1>t, QueueOps DEF TypeOK, WritePush
  <2>2. RingSound(rb_add(snd_rb, Head(rbbuf)), tx_bufsz, Chars)
    BY <1>10, <1>t, <2>1, AddContents DEF TypeOK, WritePush
  <2>3. Following(written, 1) \in Chars
    BY <1>t, FollowingChar DEF TypeOK
  <2> QED BY <1>10, <1>q, <2>1, <2>2, <2>3
        DEF WritePush, LineInv, TypeOK, NeverWaits, Places
<1>11. CASE WriteReturn
  BY <1>11, <1>q DEF WriteReturn, TxintAfterWrite, LineInv, TypeOK, NeverWaits, Places
<1>12. CASE ReadPop
  <2>1. RingSound(rb_remove(rcv_rb), rx_bufsz, Chars)
    BY <1>12, <1>t, RemoveContents DEF TypeOK, ReadPop
  <2> QED BY <1>12, <1>q, <2>1 DEF ReadPop, LineInv, TypeOK, NeverWaits, Places
<1>13. CASE ReadReturn
  BY <1>13, <1>q DEF ReadReturn, LineInv, TypeOK, NeverWaits, Places
<1>14. CASE CloseReturn
  <2>1. /\ RingSound(snd_rb', tx_bufsz, Chars) /\ rb_isempty(snd_rb')
        /\ RingSound(rcv_rb', rx_bufsz, Chars) /\ rb_isempty(rcv_rb')
    BY <1>14, CharZero, InitContents DEF CloseReturn
  <2> QED BY <1>14, <1>q, <2>1 DEF CloseReturn, LineInv, TypeOK, NeverWaits, Places
<1>15. CASE dw_uart_isr
  <2>1. pc' \in {"rx", "rx_timeout", "tx"} /\ (pc' = "rx_timeout" => timedout)
    BY <1>15 DEF dw_uart_isr
  <2> QED BY <1>15, <1>q, <2>1 DEF dw_uart_isr, LineInv, TypeOK, NeverWaits, Places
<1>16. CASE RxTimeout
  <2>1. Tail(rxfifo) \in Seq(Chars) /\ Len(Tail(rxfifo)) = Len(rxfifo) - 1
    BY <1>16, <1>t, QueueOps DEF RxTimeout, LineInv, TypeOK
  <2>2. /\ pc' = "idle" /\ rxfifo' = Tail(rxfifo) /\ timedout' \in BOOLEAN /\ ~timedout'
        /\ UNCHANGED <<todo, rbbuf, snd_rb, rcv_rb, txint, closing, txfifo,
                       written, arrived>>
    BY <1>16 DEF RxTimeout
  <2>3. TypeOK'
    BY <1>t, <1>q, <2>1, <2>2 DEF TypeOK, Places
  <2> QED BY <1>16, <1>q, <2>2, <2>3 DEF RxTimeout, LineInv, NeverWaits
<1>17. CASE sio_rx_callback
  BY <1>17, <1>q DEF sio_rx_callback, Least, LineInv, TypeOK, NeverWaits, Places
<1>18. CASE RxRead
  <2>1. /\ Head(rxfifo) \in Chars /\ Tail(rxfifo) \in Seq(Chars)
        /\ Len(Tail(rxfifo)) = Len(rxfifo) - 1
    BY <1>18, <1>t, QueueOps DEF TypeOK, RxRead
  <2>2. Append(rbbuf, Head(rxfifo)) \in Seq(Chars)
    BY <2>1, <1>t, QueueOps DEF TypeOK
  <2>3. /\ pc = "rx_read" /\ todo > 0
        /\ rbbuf' = Append(rbbuf, Head(rxfifo)) /\ rxfifo' = Tail(rxfifo)
        /\ todo' = todo - 1 /\ timedout' \in BOOLEAN /\ ~timedout'
        /\ UNCHANGED <<pc, snd_rb, rcv_rb, txint, closing, txfifo, written, arrived>>
    BY <1>18 DEF RxRead
  <2>4. TypeOK'
    BY <1>t, <1>q, <2>1, <2>2, <2>3 DEF TypeOK
  <2> QED BY <1>q, <2>1, <2>3, <2>4 DEF LineInv, NeverWaits
<1>19. CASE RxPush
  <2>1. /\ Head(rbbuf) \in Chars /\ Tail(rbbuf) \in Seq(Chars)
    BY <1>19, <1>t, QueueOps DEF TypeOK, RxPush
  <2>2. RingSound(rb_add(rcv_rb, Head(rbbuf)), rx_bufsz, Chars)
    BY <1>19, <1>t, <2>1, AddContents DEF TypeOK, RxPush
  <2> QED BY <1>19, <1>q, <2>1, <2>2 DEF RxPush, LineInv, TypeOK, NeverWaits, Places
<1>20. CASE RxPushed
  BY <1>20, <1>q DEF RxPushed, LineInv, TypeOK, NeverWaits, Places
<1>21. CASE sio_tx_callback
  BY <1>21, <1>q DEF sio_tx_callback, Least, LineInv, TypeOK, NeverWaits, Places
<1>22. CASE TxPop
  <2>1. /\ rb_next(snd_rb) \in Chars /\ RingSound(rb_remove(snd_rb), tx_bufsz, Chars)
    <3>1. RingSound(snd_rb, tx_bufsz, Chars) /\ ~rb_isempty(snd_rb)
      BY <1>22, <1>t DEF TypeOK, TxPop
    <3>2. Contents(snd_rb) \in Seq(Chars) /\ Contents(snd_rb) # <<>>
      BY <3>1, RemoveContents, ContentsSequence
    <3>3. Head(Contents(snd_rb)) \in Chars
      BY <3>2, QueueOps
    <3> QED BY <3>1, <3>3, RemoveContents
  <2>2. /\ Append(rbbuf, rb_next(snd_rb)) \in Seq(Chars)
        /\ Len(Append(rbbuf, rb_next(snd_rb))) = Len(rbbuf) + 1
    BY <2>1, <1>t, QueueOps DEF TypeOK
  <2> QED BY <1>22, <1>q, <2>1, <2>2 DEF TxPop, LineInv, TypeOK, NeverWaits, Places
<1>23. CASE TxPopped
  BY <1>23, <1>q DEF TxPopped, TxintAfterPop, LineInv, TypeOK, NeverWaits, Places
<1>24. CASE TxWrite
  <2>1. /\ Head(rbbuf) \in Chars /\ Tail(rbbuf) \in Seq(Chars)
        /\ Len(Tail(rbbuf)) = Len(rbbuf) - 1
    BY <1>24, <1>t, QueueOps DEF TypeOK, TxWrite
  <2>2. /\ Append(txfifo, Head(rbbuf)) \in Seq(Chars)
        /\ Len(Append(txfifo, Head(rbbuf))) = Len(txfifo) + 1
    BY <2>1, <1>t, QueueOps DEF TypeOK
  <2> QED BY <1>24, <1>q, <2>1, <2>2 DEF TxWrite, LineInv, TypeOK, NeverWaits, Places
<1>25. CASE TxWritten
  BY <1>25, <1>q DEF TxWritten, LineInv, TypeOK, NeverWaits, Places
<1>26. CASE UNCHANGED vars
  BY <1>26 DEF vars, LineInv, TypeOK, NeverWaits, tx_avail
<1> QED BY <1>1, <1>2, <1>3, <1>4, <1>5, <1>6, <1>7, <1>8, <1>9, <1>10, <1>11,
          <1>12, <1>13, <1>14, <1>15, <1>16, <1>17, <1>18, <1>19, <1>20, <1>21, <1>22,
          <1>23, <1>24, <1>25, <1>26
       DEF Next, Inside, Handler

LEMMA AlwaysLine == Spec => []LineInv
BY InitLine, StepLine, PTL DEF Spec

(* The types of SerialIO, and the soundness of both ring buffers, for      *)
(* every size of the buffers and of the UART's FIFOs.                      *)
THEOREM TypeCorrect == Spec => []TypeOK
BY AlwaysLine, PTL DEF LineInv

(* No call and no handler ever waits for the UART while it holds the       *)
(* processor: there is always room, or a character, for what it counted    *)
(* before (dw_uart_psnd_chr, dw_uart_prcv_chr).                            *)
THEOREM NobodyWaits == Spec => []NeverWaits
BY AlwaysLine, PTL DEF LineInv

-----------------------------------------------------------------------------
(* Sequences in a row, and what the steps do to them *)

LEMMA AppendToRow ==
  ASSUME NEW a \in Seq(Chars), NEW b \in Seq(Chars), NEW e \in Chars
  PROVE  a \o Append(b, e) = Append(a \o b, e)
<1>1. a \o b \in Seq(Chars) /\ <<e>> \in Seq(Chars)
  BY ConcatProperties
<1>2. Append(b, e) = b \o <<e>> /\ Append(a \o b, e) = (a \o b) \o <<e>>
  BY <1>1, AppendIsConcat
<1> QED BY <1>1, <1>2, ConcatAssociative

LEMMA HeadAndTail ==
  ASSUME NEW a \in Seq(Chars), a # <<>>
  PROVE  a = <<Head(a)>> \o Tail(a)
<1>1. /\ Head(a) \in Chars /\ Tail(a) \in Seq(Chars) /\ Len(Tail(a)) = Len(a) - 1
      /\ \A i \in 1 .. Len(Tail(a)) : Tail(a)[i] = a[i + 1]
      /\ Len(a) \in Nat
  BY HeadTailProperties, LenProperties
<1>2. <<Head(a)>> \in Seq(Chars) /\ Len(<<Head(a)>>) = 1 /\ <<Head(a)>>[1] = a[1]
  BY <1>1
<1> DEFINE h == <<Head(a)>>
           s == Tail(a)
<1> HIDE DEF h, s
<1>3. /\ h \o s \in Seq(Chars) /\ Len(h \o s) = 1 + Len(s)
      /\ \A i \in 1 .. 1 + Len(s) : (h \o s)[i] = IF i <= 1 THEN h[i] ELSE s[i - 1]
  BY <1>1, <1>2, ConcatProperties DEF h, s
<1>4. \A i \in 1 .. Len(a) : a[i] = (h \o s)[i]
  <2> TAKE i \in 1 .. Len(a)
  <2>1. CASE i = 1
    BY <1>1, <1>2, <1>3, <2>1 DEF h, s
  <2>2. CASE i > 1
    <3>1. i - 1 \in 1 .. Len(s) /\ i \in 1 .. 1 + Len(s) /\ ~(i <= 1)
      BY <1>1, <2>2 DEF s
    <3>2. s[i - 1] = a[(i - 1) + 1] /\ (i - 1) + 1 = i
      BY <1>1, <3>1 DEF s
    <3> QED BY <1>3, <3>1, <3>2
  <2>3. i = 1 \/ i > 1
    BY <1>1
  <2> QED BY <2>1, <2>2, <2>3
<1>5. Len(a) = Len(h \o s)
  BY <1>1, <1>3 DEF s
<1> QED BY <1>3, <1>4, <1>5, SeqEqual DEF h, s

(* What leaves one sequence for the next one's end leaves the row as it is. *)
LEMMA HandOver ==
  ASSUME NEW a \in Seq(Chars), NEW b \in Seq(Chars), b # <<>>
  PROVE  Append(a, Head(b)) \o Tail(b) = a \o b
<1>1. /\ Head(b) \in Chars /\ Tail(b) \in Seq(Chars) /\ <<Head(b)>> \in Seq(Chars)
  BY HeadTailProperties
<1>2. Append(a, Head(b)) = a \o <<Head(b)>>
  BY <1>1, AppendIsConcat
<1>3. (a \o <<Head(b)>>) \o Tail(b) = a \o (<<Head(b)>> \o Tail(b))
  BY <1>1, ConcatAssociative
<1> QED BY <1>2, <1>3, HeadAndTail

(* What leaves the first sequence leaves the row.                          *)
LEMMA TailOfRow ==
  ASSUME NEW a \in Seq(Chars), NEW b \in Seq(Chars), a # <<>>
  PROVE  a \o b # <<>> /\ Tail(a) \o b = Tail(a \o b)
<1>1. /\ Head(a) \in Chars /\ Tail(a) \in Seq(Chars) /\ <<Head(a)>> \in Seq(Chars)
  BY HeadTailProperties
<1> DEFINE s == Tail(a) \o b
           r == a \o b
<1>2. s \in Seq(Chars) /\ r \in Seq(Chars)
  BY <1>1, ConcatProperties
<1>3. r # <<>>
  BY ConcatEqualIffEmpty
<1>4. r = <<Head(a)>> \o s
  BY <1>1, HeadAndTail, ConcatAssociative
<1>5. r = <<Head(r)>> \o Tail(r) /\ Tail(r) \in Seq(Chars) /\ Head(r) \in Chars
  BY <1>2, <1>3, HeadAndTail, HeadTailProperties
<1> HIDE DEF s, r
<1>6. Head(r) = Head(a)
  <2>1. r[1] = Head(a)
    <3>1. (<<Head(a)>> \o s)[1] = <<Head(a)>>[1]
      BY <1>1, <1>2, ConcatProperties, LenProperties
    <3> QED BY <1>4, <3>1
  <2> QED BY <2>1
<1>7. Tail(r) = s
  BY <1>1, <1>2, <1>4, <1>5, <1>6, ConcatSimplifications
<1> QED BY <1>3, <1>7 DEF s, r

(* The first of two sequences in a row.                                    *)
LEMMA StartOfRow ==
  ASSUME NEW a \in Seq(Chars), NEW b \in Seq(Chars)
  PROVE  SubSeq(a \o b, 1, Len(a)) = a
<1> DEFINE r == a \o b
           m == Len(a)
           s == SubSeq(r, 1, m)
<1>1. /\ r \in Seq(Chars) /\ Len(r) = m + Len(b) /\ m \in Nat /\ Len(b) \in Nat
      /\ \A i \in 1 .. m + Len(b) : r[i] = IF i <= m THEN a[i] ELSE b[i - m]
  BY ConcatProperties, LenProperties
<1> HIDE DEF r, m
<1>2. \A i \in 1 .. m : r[i] \in Chars /\ r[i] = a[i]
  BY <1>1, ElementOfSeq
<1>3. /\ s \in Seq(Chars) /\ Len(s) = IF 1 <= m THEN m - 1 + 1 ELSE 0
      /\ \A i \in 1 .. m - 1 + 1 : s[i] = r[1 + i - 1]
  BY <1>1, <1>2, SubSeqProperties
<1> HIDE DEF s
<1>4. Len(s) = m /\ \A i \in 1 .. m : s[i] = a[i]
  BY <1>1, <1>2, <1>3
<1> QED BY <1>3, <1>4, SeqEqual DEF s, r, m

-----------------------------------------------------------------------------
(* The refinement *)

Out == IF pc \in {"tx_pop", "tx_more", "tx_last"} THEN rbbuf ELSE <<>>
In == IF pc = "rx_read" THEN rbbuf ELSE <<>>

(* The three parts of what is under way in each direction.                 *)
LEMMA PartsTyped ==
  ASSUME LineInv
  PROVE  /\ txfifo \in Seq(Chars) /\ rxfifo \in Seq(Chars) /\ rbbuf \in Seq(Chars)
         /\ Contents(snd_rb) \in Seq(Chars) /\ Contents(rcv_rb) \in Seq(Chars)
         /\ Out \in Seq(Chars) /\ In \in Seq(Chars)
         /\ txfifo \o Out \in Seq(Chars) /\ Contents(rcv_rb) \o In \in Seq(Chars)
         /\ Outgoing \in Seq(Chars) /\ Received \in Seq(Chars)
         /\ Outgoing = txfifo \o Out \o Contents(snd_rb)
         /\ Received = Contents(rcv_rb) \o In
<1>1. /\ RingSound(snd_rb, tx_bufsz, Chars) /\ RingSound(rcv_rb, rx_bufsz, Chars)
      /\ txfifo \in Seq(Chars) /\ rxfifo \in Seq(Chars) /\ rbbuf \in Seq(Chars)
  BY DEF LineInv, TypeOK
<1>2. Contents(snd_rb) \in Seq(Chars) /\ Contents(rcv_rb) \in Seq(Chars)
  BY <1>1, SizesAssumption, ContentsSequence
<1>3. Out \in Seq(Chars) /\ In \in Seq(Chars)
  BY <1>1, EmptySeq DEF Out, In
<1>4. txfifo \o Out \in Seq(Chars) /\ Contents(rcv_rb) \o In \in Seq(Chars)
  BY <1>1, <1>2, <1>3, ConcatProperties
<1>5. txfifo \o Out \o Contents(snd_rb) \in Seq(Chars)
  BY <1>1, <1>2, <1>4, ConcatProperties
<1> QED BY <1>1, <1>2, <1>3, <1>4, <1>5 DEF Outgoing, Received, Out, In

LEMMA InitImplements == Init => Line!Init
<1> SUFFICES ASSUME Init PROVE Line!Init
  OBVIOUS
<1>1. Contents(snd_rb) = <<>> /\ Contents(rcv_rb) = <<>>
  BY SizesAssumption, CharZero, InitContents DEF Init
<1>2. <<>> \o <<>> = <<>>
  BY EmptySeq, ConcatEmptySeq
<1> QED BY <1>1, <1>2 DEF Init, Line!Init, Outgoing, Received

(* A step that changes no part, or hands characters over, is a stutter.    *)
LEMMA Stutter ==
  ASSUME Outgoing' = Outgoing, Received' = Received, rxfifo' = rxfifo,
         timedout' = timedout, (pc' = "rx_timeout") = (pc = "rx_timeout"),
         (pc' = "closed") = (pc = "closed")
  PROVE  [Line!Next]_(Line!vars)
BY DEF Line!vars

LEMMA StepImplements == LineInv /\ LineInv' /\ [Next]_vars => [Line!Next]_(Line!vars)
<1> SUFFICES ASSUME LineInv, LineInv', [Next]_vars PROVE [Line!Next]_(Line!vars)
  OBVIOUS
<1> USE SizesAssumption
<1>p. /\ txfifo \in Seq(Chars) /\ rxfifo \in Seq(Chars) /\ rbbuf \in Seq(Chars)
      /\ Contents(snd_rb) \in Seq(Chars) /\ Contents(rcv_rb) \in Seq(Chars)
      /\ Out \in Seq(Chars) /\ In \in Seq(Chars)
      /\ txfifo \o Out \in Seq(Chars) /\ Contents(rcv_rb) \o In \in Seq(Chars)
      /\ Outgoing \in Seq(Chars) /\ Received \in Seq(Chars)
      /\ Outgoing = txfifo \o Out \o Contents(snd_rb)
      /\ Received = Contents(rcv_rb) \o In
  BY PartsTyped
<1>n. /\ Outgoing' = txfifo' \o Out' \o Contents(snd_rb')
      /\ Received' = Contents(rcv_rb') \o In'
  BY DEF Outgoing, Received, Out, In
<1>r. /\ RingSound(snd_rb, tx_bufsz, Chars) /\ RingSound(rcv_rb, rx_bufsz, Chars)
      /\ RingSound(snd_rb', tx_bufsz, Chars) /\ RingSound(rcv_rb', rx_bufsz, Chars)
  BY DEF LineInv, TypeOK
<1>e. /\ pc \notin {"tx_pop", "tx_more", "tx_last"} => Out = <<>>
      /\ pc' \notin {"tx_pop", "tx_more", "tx_last"} => Out' = <<>>
      /\ pc # "rx_read" => In = <<>>
      /\ pc' # "rx_read" => In' = <<>>
      /\ pc \in {"tx_pop", "tx_more", "tx_last"} => Out = rbbuf
      /\ pc' \in {"tx_pop", "tx_more", "tx_last"} => Out' = rbbuf'
      /\ pc = "rx_read" => In = rbbuf
      /\ pc' = "rx_read" => In' = rbbuf'
      /\ pc \in {"idle", "read", "flush", "closed", "rx", "rx_timeout", "tx"} => rbbuf = <<>>
  BY DEF Out, In, LineInv
\* A step that leaves a direction's parts alone leaves the direction alone.
<1>s. /\ UNCHANGED <<txfifo, Out, snd_rb>> => Outgoing' = Outgoing
      /\ UNCHANGED <<rcv_rb, In>> => Received' = Received
  BY <1>p, <1>n
<1>1. CASE Drain
  <2>1. Received' = Received /\ Out' = Out /\ snd_rb' = snd_rb
    BY <1>1, <1>s, <1>e DEF Drain, In, Out
  <2>2. Outgoing # <<>> /\ Outgoing' = Tail(Outgoing)
    <3>1. txfifo \o Out # <<>> /\ Tail(txfifo) \o Out = Tail(txfifo \o Out)
      BY <1>1, <1>p, TailOfRow DEF Drain
    <3>2. /\ (txfifo \o Out) \o Contents(snd_rb) # <<>>
          /\ Tail(txfifo \o Out) \o Contents(snd_rb)
               = Tail((txfifo \o Out) \o Contents(snd_rb))
      BY <1>p, <3>1, TailOfRow
    <3> QED BY <1>1, <1>p, <1>n, <2>1, <3>1, <3>2 DEF Drain
  <2> QED BY <1>1, <2>1, <2>2 DEF Drain, Line!Next, Line!Emit
<1>2. CASE Arrive
  <2>1. Outgoing' = Outgoing /\ Received' = Received
    BY <1>2, <1>s, <1>e DEF Arrive, In, Out
  <2>2. arrived \in Chars
    BY DEF LineInv, TypeOK
  <2>3. Line!Arrive
    BY <1>2, <2>1, <2>2 DEF Arrive, Line!Arrive
  <2> QED BY <2>3 DEF Line!Next
<1>3. CASE CharTimeout
  <2>1. Outgoing' = Outgoing /\ Received' = Received
    BY <1>3, <1>s, <1>e DEF CharTimeout, In, Out
  <2> QED BY <1>3, <2>1 DEF CharTimeout, Line!Next, Line!Linger
<1>4. ASSUME NEW n \in 1 .. MaxCnt, ez_sio_write(n) PROVE [Line!Next]_(Line!vars)
  BY <1>4, <1>s, <1>e, Stutter DEF ez_sio_write, Calls
<1>5. ASSUME NEW n \in 1 .. MaxCnt, ez_sio_read(n) PROVE [Line!Next]_(Line!vars)
  BY <1>5, <1>s, <1>e, Stutter DEF ez_sio_read, Calls
<1>6. CASE ez_sio_close
  BY <1>6, <1>s, <1>e, Stutter DEF ez_sio_close, Calls
<1>7. CASE CloseRxint
  BY <1>7, <1>s, <1>e, Stutter DEF CloseRxint, Calls
<1>8. CASE ez_sio_open
  <2>1. Outgoing' = Outgoing /\ Received' = Received
    BY <1>8, <1>s, <1>e DEF ez_sio_open
  <2> QED BY <1>8, <2>1 DEF ez_sio_open, Line!Next, Line!Reopen
<1>9. CASE WriteDirect
  <2>1. /\ Contents(snd_rb) = <<>> /\ Out = <<>> /\ Out' = <<>>
        /\ snd_rb' = snd_rb /\ Received' = Received
    BY <1>9, <1>e, <1>r, <1>s, EmptyContents DEF WriteDirect, LineInv
  <2>2. Head(rbbuf) \in Chars
    <3>1. rbbuf # <<>>
      BY <1>9, <1>p, EmptySeq DEF WriteDirect, LineInv, TypeOK
    <3> QED BY <1>p, <3>1, QueueOps
  <2>3. Append(txfifo, Head(rbbuf)) \in Seq(Chars)
    BY <1>p, <2>2, AppendProperties
  <2>4. Outgoing = txfifo /\ Outgoing' = Append(txfifo, Head(rbbuf))
    BY <1>9, <1>p, <1>n, <2>1, <2>3, ConcatEmptySeq DEF WriteDirect
  <2> QED BY <1>9, <2>1, <2>2, <2>4 DEF WriteDirect, Line!Next, Line!Accept
<1>10. CASE WritePush
  <2>1. /\ Out' = Out /\ txfifo' = txfifo /\ Received' = Received
    BY <1>10, <1>e, <1>s DEF WritePush
  <2>2. Head(rbbuf) \in Chars
    BY <1>10, <1>p, QueueOps DEF WritePush
  <2>3. Contents(snd_rb') = Append(Contents(snd_rb), Head(rbbuf))
    BY <1>10, <1>r, <2>2, AddContents DEF WritePush
  <2>4. Outgoing' = Append(Outgoing, Head(rbbuf))
    <3>1. Outgoing' = (txfifo \o Out) \o Append(Contents(snd_rb), Head(rbbuf))
      BY <1>n, <2>1, <2>3
    <3> QED BY <1>p, <2>2, <3>1, AppendToRow
  <2> QED BY <1>10, <2>1, <2>2, <2>4 DEF WritePush, Line!Next, Line!Accept
<1>11. CASE WriteReturn
  BY <1>11, <1>s, <1>e, Stutter DEF WriteReturn
<1>12. CASE ReadPop
  <2>1. /\ Outgoing' = Outgoing /\ In' = <<>> /\ In = <<>>
        /\ Contents(rcv_rb) # <<>> /\ Contents(rcv_rb') = Tail(Contents(rcv_rb))
    BY <1>12, <1>e, <1>s, <1>r, RemoveContents DEF ReadPop
  <2>2. Received # <<>> /\ Received' = Tail(Received)
    BY <1>p, <1>n, <2>1, TailOfRow
  <2> QED BY <1>12, <2>1, <2>2 DEF ReadPop, Line!Next, Line!Deliver
<1>13. CASE ReadReturn
  BY <1>13, <1>s, <1>e, Stutter DEF ReadReturn
<1>14. CASE CloseReturn
  <2>1. /\ Contents(snd_rb') = <<>> /\ Contents(rcv_rb') = <<>>
        /\ txfifo' = <<>> /\ Out' = <<>> /\ In' = <<>>
    BY <1>14, <1>e, CharZero, InitContents DEF CloseReturn
  <2>2. <<>> \o <<>> = <<>>
    BY EmptySeq, ConcatEmptySeq
  <2>3. Outgoing' = <<>> /\ Received' = <<>>
    BY <1>n, <2>1, <2>2
  <2> QED BY <1>14, <2>3 DEF CloseReturn, Line!Next, Line!Close
<1>15. CASE dw_uart_isr
  <2>1. pc' \in {"rx", "rx_timeout", "tx"} /\ (pc' = "rx_timeout" => timedout)
    BY <1>15 DEF dw_uart_isr
  <2>2. /\ Outgoing' = Outgoing /\ Received' = Received /\ rxfifo' = rxfifo
        /\ timedout' = timedout /\ pc = "idle"
    BY <1>15, <1>s, <1>e, <2>1 DEF dw_uart_isr
  <2> QED BY <2>1, <2>2 DEF Line!vars
<1>16. CASE RxTimeout
  <2>1. Outgoing' = Outgoing /\ Received' = Received
    BY <1>16, <1>s, <1>e DEF RxTimeout
  <2>2. rxfifo # <<>>
    BY <1>16 DEF RxTimeout, LineInv
  <2> QED BY <1>16, <2>1, <2>2 DEF RxTimeout, Line!Next, Line!Discard
<1>17. CASE sio_rx_callback
  BY <1>17, <1>s, <1>e, Stutter DEF sio_rx_callback
<1>18. CASE RxRead
  <2>1. /\ Outgoing' = Outgoing /\ In = rbbuf /\ In' = Append(rbbuf, Head(rxfifo))
        /\ rxfifo # <<>> /\ rcv_rb' = rcv_rb
    BY <1>18, <1>e, <1>s DEF RxRead
  <2>2. Head(rxfifo) \in Chars
    BY <1>p, <2>1, QueueOps
  <2>3. Received' = Append(Received, Head(rxfifo))
    BY <1>p, <1>n, <2>1, <2>2, AppendToRow
  <2> QED BY <1>18, <2>1, <2>3 DEF RxRead, Line!Next, Line!Take
<1>19. CASE RxPush
  <2>1. Outgoing' = Outgoing /\ In = rbbuf /\ In' = Tail(rbbuf) /\ rbbuf # <<>>
    BY <1>19, <1>e, <1>s DEF RxPush
  <2>2. Head(rbbuf) \in Chars
    BY <1>p, <2>1, QueueOps
  <2>3. Contents(rcv_rb') = Append(Contents(rcv_rb), Head(rbbuf))
    BY <1>19, <1>r, <2>2, AddContents DEF RxPush
  <2>4. Received' = Received
    <3>1. Received' = Append(Contents(rcv_rb), Head(rbbuf)) \o Tail(rbbuf)
      BY <1>n, <2>1, <2>3
    <3>2. Append(Contents(rcv_rb), Head(rbbuf)) \o Tail(rbbuf) = Contents(rcv_rb) \o rbbuf
      BY <1>p, <2>1, HandOver
    <3> QED BY <1>p, <2>1, <3>1, <3>2
  <2>5. UNCHANGED <<pc, rxfifo, timedout>>
    BY <1>19 DEF RxPush
  <2> QED BY <2>1, <2>4, <2>5, Stutter
<1>20. CASE RxPushed
  <2>1. /\ Outgoing' = Outgoing /\ In = rbbuf /\ In' = <<>> /\ rcv_rb' = rcv_rb
    BY <1>20, <1>e, <1>s DEF RxPushed
  <2>2. CASE rbbuf = <<>>
    BY <1>20, <1>s, <2>1, <2>2, Stutter DEF RxPushed
  <2>3. CASE rbbuf # <<>>
    <3> DEFINE C == Contents(rcv_rb)
    <3>1. Len(C) = rx_bufsz
      BY <1>20, <1>r, <2>3, EmptyContents DEF RxPushed
    <3>2. Received' = C
      BY <1>p, <1>n, <2>1, ConcatEmptySeq
    <3>3. Len(Received) > rx_bufsz
      <4>1. Len(C) \in Nat /\ Len(rbbuf) \in Nat \ {0}
        BY <1>p, <2>3, LenProperties, EmptySeq
      <4>2. Len(C \o rbbuf) = Len(C) + Len(rbbuf)
        BY <1>p, ConcatProperties
      <4> QED BY <1>p, <2>1, <3>1, <4>1, <4>2
    <3>4. SubSeq(Received, 1, Len(C)) = C
      BY <1>p, <2>1, StartOfRow
    <3> QED BY <1>20, <2>1, <3>1, <3>2, <3>3, <3>4 DEF RxPushed, Line!Next, Line!Overflow
  <2> QED BY <2>2, <2>3
<1>21. CASE sio_tx_callback
  BY <1>21, <1>s, <1>e, Stutter DEF sio_tx_callback
<1>22. CASE TxPop
  <2>1. /\ Received' = Received /\ txfifo' = txfifo /\ Out = rbbuf
        /\ Out' = Append(rbbuf, Head(Contents(snd_rb)))
        /\ Contents(snd_rb) # <<>> /\ Contents(snd_rb') = Tail(Contents(snd_rb))
    BY <1>22, <1>e, <1>s, <1>r, RemoveContents DEF TxPop
  <2>2. Head(Contents(snd_rb)) \in Chars
    BY <1>p, <2>1, QueueOps
  <2>3. txfifo \o Append(rbbuf, Head(Contents(snd_rb)))
          = Append(txfifo \o Out, Head(Contents(snd_rb)))
    BY <1>p, <2>1, <2>2, AppendToRow
  <2>4. Outgoing' = Outgoing
    <3>1. Outgoing' = Append(txfifo \o Out, Head(Contents(snd_rb))) \o Tail(Contents(snd_rb))
      BY <1>n, <2>1, <2>3
    <3> QED BY <1>p, <2>1, <3>1, HandOver
  <2> QED BY <1>22, <2>1, <2>4, Stutter DEF TxPop
<1>23. CASE TxPopped
  BY <1>23, <1>s, <1>e, Stutter DEF TxPopped
<1>24. CASE TxWrite
  <2>1. /\ Received' = Received /\ snd_rb' = snd_rb /\ Out = rbbuf /\ Out' = Tail(rbbuf)
        /\ rbbuf # <<>> /\ txfifo' = Append(txfifo, Head(rbbuf))
    BY <1>24, <1>e, <1>s DEF TxWrite
  <2>2. Outgoing' = Outgoing
    BY <1>p, <1>n, <2>1, HandOver
  <2> QED BY <1>24, <2>1, <2>2, Stutter DEF TxWrite
<1>25. CASE TxWritten
  BY <1>25, <1>s, <1>e, Stutter DEF TxWritten
<1>26. CASE UNCHANGED vars
  BY <1>26, <1>s, <1>e, Stutter DEF vars, Out, In
<1> QED BY <1>1, <1>2, <1>3, <1>4, <1>5, <1>6, <1>7, <1>8, <1>9, <1>10, <1>11,
          <1>12, <1>13, <1>14, <1>15, <1>16, <1>17, <1>18, <1>19, <1>20, <1>21, <1>22,
          <1>23, <1>24, <1>25, <1>26
       DEF Next, Inside, Handler

(* ez_sio and its callbacks implement two queues of characters: nothing is *)
(* lost on its way out, or reordered either way, while the line is open.   *)
(* Of what came in, the handler loses what it has taken beyond a full      *)
(* receive buffer (sio_rx_callback), and the oldest character in the UART  *)
(* for each character timeout (dw_uart_isr, RX_TIMEOUT), no more.          *)
THEOREM SerialIOImplementsLine == Spec => ImplementsSerialLine
BY AlwaysLine, InitImplements, StepImplements, PTL
   DEF Spec, ImplementsSerialLine, Line!Spec
=============================================================================
