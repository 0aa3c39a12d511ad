----------------------------- MODULE RingBuffer -----------------------------
(***************************************************************************)
(* The ring buffer of ringbuffer.c: both indices count from 0 to size and  *)
(* are brought back below size when they are used next; avail alone tells  *)
(* a full buffer from an empty one.                                        *)
(***************************************************************************)
EXTENDS Naturals, Sequences

\* buf is what malloc returned: its contents do not matter.
rb_init(size) ==
    [buf |-> [i \in 0 .. size - 1 |-> 0],
     size |-> size, avail |-> size, wridx |-> 0, rdidx |-> 0]

rb_isfull(rb) == rb.avail = 0

rb_isemptyAtOne(rb) == rb.avail + 1 >= rb.size       \* slip: off by one
rb_isempty(rb) == rb.avail = rb.size

\* One item into a buffer that is not full.
rb_addNoWrap(rb, item) ==                            \* slip: no "% size"
    [rb EXCEPT !.buf[rb.wridx] = item, !.wridx = @ + 1, !.avail = @ - 1]
rb_add(rb, item) ==
    LET w == rb.wridx % rb.size
    IN  [rb EXCEPT !.buf[w] = item, !.wridx = w + 1, !.avail = @ - 1]

\* The item that rb_remove returns, and the buffer after it.
rb_next(rb) == rb.buf[rb.rdidx % rb.size]
rb_remove(rb) ==
    [rb EXCEPT !.rdidx = (rb.rdidx % rb.size) + 1, !.avail = @ + 1]

-----------------------------------------------------------------------------
(* What a ring buffer stands for *)

Slot(rb, j) == IF j >= rb.size THEN j - rb.size ELSE j
Used(rb) == rb.size - rb.avail

\* The items in the order in which they will be removed.
Contents(rb) ==
    [i \in 1 .. Used(rb) |-> rb.buf[Slot(rb, (rb.rdidx % rb.size) + i - 1)]]

\* The fields are in range and the two indices are avail items apart.
RingSound(rb, size, items) ==
    /\ rb \in [buf : [0 .. size - 1 -> items], size : {size}, avail : 0 .. size,
              wridx : 0 .. size, rdidx : 0 .. size]
    /\ rb.wridx % size = Slot(rb, (rb.rdidx % size) + Used(rb))
=============================================================================
