------------------------------ MODULE SerialIO ------------------------------
(***************************************************************************)
(* Serial I/O with ez_sio (ez_sio.c) over the DesignWare UART driver       *)
(* (dw_uart.c): a program reads and writes, the handler and its callbacks  *)
(* move characters between ring buffers and the UART's FIFOs, and the line *)
(* takes and brings characters at any time.                                *)
(*                                                                         *)
(* Reading and writing hold the processor lock and the handler is not      *)
(* interrupted, so the processor is at one place, pc; only the line moves  *)
(* between its steps. Closing takes no lock: the handler may run until     *)
(* both interrupts are off. The driver is used without buffer descriptors  *)
(* (UART_CMD_SET_TXINT_BUF NULL), and of the UART's interrupts only        *)
(* received data, with the character timeout, and an empty transmitter are *)
(* ever turned on. The receive FIFO interrupts from one character on.      *)
(***************************************************************************)
EXTENDS RingBuffer

CONSTANTS
    tx_bufsz, rx_bufsz,         \* the sizes given to ez_sio_open
    tx_fifo_len, rx_fifo_len,   \* the UART's
    BUFSZ_LOCAL,                \* the callbacks' buffers
    MaxCnt,                     \* the longest read or write (bound)
    Numbers                     \* characters are numbered modulo this

ASSUME SizesAssumption ==
    /\ tx_bufsz \in Nat \ {0} /\ rx_bufsz \in Nat \ {0}
    /\ tx_fifo_len \in Nat \ {0} /\ rx_fifo_len \in Nat \ {0}
    /\ BUFSZ_LOCAL \in Nat \ {0} /\ MaxCnt \in Nat \ {0} /\ Numbers \in Nat \ {0}

VARIABLES
    pc,                \* where the processor is
    todo,              \* characters the call there still has to move
    rbbuf,             \* those between: of the caller, or a callback's buffer
    snd_rb, rcv_rb,    \* the ring buffers
    txint,             \* transmit interrupt on (IER and int_status)
    closing,           \* ez_sio_close has turned it off, the other not yet
    txfifo, rxfifo,    \* the UART's FIFOs
    timedout,          \* characters wait in rxfifo and nothing has moved there
    written, arrived   \* the numbers of the next characters out and in

vars == <<pc, todo, rbbuf, snd_rb, rcv_rb, txint, closing, txfifo, rxfifo, timedout,
          written, arrived>>

Chars == 0 .. Numbers - 1
Following(c, n) == (c + n) % Numbers

tx_avail == tx_fifo_len - Len(txfifo)
Least(a, b) == IF a <= b THEN a ELSE b

Init ==
    /\ pc = "idle" /\ todo = 0 /\ rbbuf = <<>>
    /\ snd_rb = rb_init(tx_bufsz) /\ rcv_rb = rb_init(rx_bufsz)
    /\ txint = FALSE /\ closing = FALSE
    /\ txfifo = <<>> /\ rxfifo = <<>> /\ timedout = FALSE
    /\ written = 0 /\ arrived = 0

-----------------------------------------------------------------------------
(* The line *)

Drain ==
    /\ txfifo # <<>>
    /\ txfifo' = Tail(txfifo)
    /\ UNCHANGED <<pc, todo, rbbuf, snd_rb, rcv_rb, txint, closing, rxfifo,
                   timedout, written, arrived>>

\* A character that finds the FIFO full is lost without a trace.
Arrive ==
    /\ pc # "closed" /\ Len(rxfifo) < rx_fifo_len
    /\ rxfifo' = Append(rxfifo, arrived)
    /\ arrived' = Following(arrived, 1)
    /\ timedout' = FALSE
    /\ UNCHANGED <<pc, todo, rbbuf, snd_rb, rcv_rb, txint, closing, txfifo, written>>

\* The UART's character timeout.
CharTimeout ==
    /\ pc # "closed" /\ rxfifo # <<>>
    /\ timedout' = TRUE
    /\ UNCHANGED <<pc, todo, rbbuf, snd_rb, rcv_rb, txint, closing, txfifo, rxfifo,
                   written, arrived>>

\* The two interrupts that the driver turns on, and their conditions.
RxPending == rxfifo # <<>>
TxPending == txint /\ txfifo = <<>>

\* The processor takes a pending interrupt before the program goes on.
Calls == pc = "idle" /\ ~RxPending /\ ~TxPending

-----------------------------------------------------------------------------
(* Calls of the program *)

\* How much goes to the UART at once: only when nothing waits before it.
DirectAll(n) == IF rb_isempty(snd_rb) THEN n ELSE 0  \* slip
DirectAlways(n) == Least(tx_avail, n)                \* slip
Direct(n) == IF rb_isempty(snd_rb) THEN Least(tx_avail, n) ELSE 0

ez_sio_write(n) ==
    /\ Calls /\ ~closing
    /\ pc' = "write"
    /\ rbbuf' = [i \in 1 .. n |-> Following(written, i - 1)]
    /\ todo' = Direct(n)
    /\ UNCHANGED <<snd_rb, rcv_rb, txint, closing, txfifo, rxfifo,
                   timedout, written, arrived>>

\* dw_uart_psnd_chr: waits for room in the FIFO.
WriteDirect ==
    /\ pc = "write" /\ todo > 0 /\ tx_avail > 0
    /\ txfifo' = Append(txfifo, Head(rbbuf))
    /\ rbbuf' = Tail(rbbuf)
    /\ todo' = todo - 1
    /\ written' = Following(written, 1)
    /\ UNCHANGED <<pc, snd_rb, rcv_rb, txint, closing, rxfifo, timedout, arrived>>

WritePush ==
    /\ pc \in {"write", "push"} /\ todo = 0
    /\ rbbuf # <<>> /\ ~rb_isfull(snd_rb)
    /\ snd_rb' = rb_add(snd_rb, Head(rbbuf))
    /\ rbbuf' = Tail(rbbuf)
    /\ pc' = "push"
    /\ written' = Following(written, 1)
    /\ UNCHANGED <<todo, rcv_rb, txint, closing, txfifo, rxfifo, timedout, arrived>>

\* What does not fit is left to the caller.
TxintWhenFull == txint \/ rb_isfull(snd_rb)          \* slip
TxintAfterWrite == txint \/ pc = "push" \/ rbbuf # <<>>
WriteReturn ==
    /\ pc \in {"write", "push"} /\ todo = 0
    /\ rbbuf = <<>> \/ rb_isfull(snd_rb)
    /\ txint' = TxintAfterWrite
    /\ pc' = "idle" /\ rbbuf' = <<>>
    /\ UNCHANGED <<todo, snd_rb, rcv_rb, closing, txfifo, rxfifo,
                   timedout, written, arrived>>

ez_sio_read(n) ==
    /\ Calls /\ ~closing
    /\ pc' = "read" /\ todo' = n
    /\ UNCHANGED <<rbbuf, snd_rb, rcv_rb, txint, closing, txfifo, rxfifo,
                   timedout, written, arrived>>

ReadPop ==
    /\ pc = "read" /\ todo > 0 /\ ~rb_isempty(rcv_rb)
    /\ rcv_rb' = rb_remove(rcv_rb)
    /\ todo' = todo - 1
    /\ UNCHANGED <<pc, rbbuf, snd_rb, txint, closing, txfifo, rxfifo,
                   timedout, written, arrived>>

ReadReturn ==
    /\ pc = "read" /\ (todo = 0 \/ rb_isempty(rcv_rb))
    /\ pc' = "idle" /\ todo' = 0
    /\ UNCHANGED <<rbbuf, snd_rb, rcv_rb, txint, closing, txfifo, rxfifo,
                   timedout, written, arrived>>

\* Without the lock: after the first of its steps the handler still runs.
ez_sio_close ==
    /\ Calls /\ ~closing
    /\ txint' = FALSE /\ closing' = TRUE
    /\ UNCHANGED <<pc, todo, rbbuf, snd_rb, rcv_rb, txfifo, rxfifo, timedout,
                   written, arrived>>

\* With the other interrupt off too no handler comes between the rest:
\* dw_uart_close waits for the FIFO to drain.
CloseRxint ==
    /\ Calls /\ closing
    /\ pc' = "flush" /\ closing' = FALSE
    /\ UNCHANGED <<todo, rbbuf, snd_rb, rcv_rb, txint, txfifo, rxfifo, timedout,
                   written, arrived>>

\* The ring buffers are freed with what they hold.
CloseReturn ==
    /\ pc = "flush" /\ txfifo = <<>>
    /\ pc' = "closed"
    /\ snd_rb' = rb_init(tx_bufsz) /\ rcv_rb' = rb_init(rx_bufsz)
    /\ UNCHANGED <<todo, rbbuf, txint, closing, txfifo, rxfifo,
                   timedout, written, arrived>>

\* dw_uart_init resets the FIFOs.
ez_sio_open ==
    /\ pc = "closed"
    /\ pc' = "idle" /\ rxfifo' = <<>> /\ timedout' = FALSE
    /\ UNCHANGED <<todo, rbbuf, snd_rb, rcv_rb, txint, closing, txfifo,
                   written, arrived>>

-----------------------------------------------------------------------------
(* The handler *)

\* Received data come before an empty transmitter in what the UART
\* identifies. Whether a timeout comes before or after them is the UART's.
dw_uart_isr ==
    /\ pc = "idle"
    /\ \/ RxPending /\ pc' = "rx"
       \/ timedout /\ pc' = "rx_timeout"
       \/ TxPending /\ ~RxPending /\ pc' = "tx"
    /\ UNCHANGED <<todo, rbbuf, snd_rb, rcv_rb, txint, closing, txfifo, rxfifo,
                   timedout, written, arrived>>

\* A timeout ends by reading a character, which goes nowhere.
RxTimeout ==
    /\ pc = "rx_timeout" /\ pc' = "idle"
    /\ rxfifo' = Tail(rxfifo) /\ timedout' = FALSE
    /\ UNCHANGED <<todo, rbbuf, snd_rb, rcv_rb, txint, closing, txfifo, written, arrived>>

\* sio_rx_callback at its loop. With a full ring buffer it returns, and the
\* interrupt is still pending.
sio_rx_callback ==
    /\ pc = "rx"
    /\ IF rxfifo = <<>> \/ rb_isfull(rcv_rb)
       THEN pc' = "idle" /\ UNCHANGED todo
       ELSE pc' = "rx_read" /\ todo' = Least(Len(rxfifo), BUFSZ_LOCAL)
    /\ UNCHANGED <<rbbuf, snd_rb, rcv_rb, txint, closing, txfifo, rxfifo,
                   timedout, written, arrived>>

\* dw_uart_prcv_chr: waits for a character.
RxRead ==
    /\ pc = "rx_read" /\ todo > 0 /\ rxfifo # <<>>
    /\ rbbuf' = Append(rbbuf, Head(rxfifo))
    /\ rxfifo' = Tail(rxfifo)
    /\ todo' = todo - 1 /\ timedout' = FALSE
    /\ UNCHANGED <<pc, snd_rb, rcv_rb, txint, closing, txfifo,
                   written, arrived>>

RxPush ==
    /\ pc = "rx_read" /\ todo = 0 /\ rbbuf # <<>> /\ ~rb_isfull(rcv_rb)
    /\ rcv_rb' = rb_add(rcv_rb, Head(rbbuf))
    /\ rbbuf' = Tail(rbbuf)
    /\ UNCHANGED <<pc, todo, snd_rb, txint, closing, txfifo, rxfifo,
                   timedout, written, arrived>>

\* What does not fit is lost.
RxPushed ==
    /\ pc = "rx_read" /\ todo = 0 /\ (rbbuf = <<>> \/ rb_isfull(rcv_rb))
    /\ pc' = IF rbbuf = <<>> THEN "rx" ELSE "idle"
    /\ rbbuf' = <<>>
    /\ UNCHANGED <<todo, snd_rb, rcv_rb, txint, closing, txfifo, rxfifo,
                   timedout, written, arrived>>

sio_tx_callback ==
    /\ pc = "tx"
    /\ IF tx_avail = 0
       THEN pc' = "idle" /\ UNCHANGED todo
       ELSE pc' = "tx_pop" /\ todo' = Least(tx_avail, BUFSZ_LOCAL)
    /\ UNCHANGED <<rbbuf, snd_rb, rcv_rb, txint, closing, txfifo, rxfifo,
                   timedout, written, arrived>>

TxPop ==
    /\ pc = "tx_pop" /\ Len(rbbuf) < todo /\ ~rb_isempty(snd_rb)
    /\ rbbuf' = Append(rbbuf, rb_next(snd_rb))
    /\ snd_rb' = rb_remove(snd_rb)
    /\ UNCHANGED <<pc, todo, rcv_rb, txint, closing, txfifo, rxfifo,
                   timedout, written, arrived>>

\* The interrupt goes off only when there was nothing at all to pop; with
\* less than asked for this is the last round.
TxintAfterPop == txint /\ rbbuf # <<>>
TxPopped ==
    /\ pc = "tx_pop" /\ (Len(rbbuf) = todo \/ rb_isempty(snd_rb))
    /\ txint' = TxintAfterPop
    /\ pc' = CASE rbbuf = <<>> -> "idle"
               [] Len(rbbuf) = todo -> "tx_more"
               [] OTHER -> "tx_last"
    /\ todo' = 0
    /\ UNCHANGED <<rbbuf, snd_rb, rcv_rb, closing, txfifo, rxfifo,
                   timedout, written, arrived>>

TxWrite ==
    /\ pc \in {"tx_more", "tx_last"} /\ rbbuf # <<>> /\ tx_avail > 0
    /\ txfifo' = Append(txfifo, Head(rbbuf))
    /\ rbbuf' = Tail(rbbuf)
    /\ UNCHANGED <<pc, todo, snd_rb, rcv_rb, txint, closing, rxfifo,
                   timedout, written, arrived>>

TxWritten ==
    /\ pc \in {"tx_more", "tx_last"} /\ rbbuf = <<>>
    /\ pc' = IF pc = "tx_more" THEN "tx" ELSE "idle"
    /\ UNCHANGED <<todo, rbbuf, snd_rb, rcv_rb, txint, closing, txfifo, rxfifo,
                   timedout, written, arrived>>

-----------------------------------------------------------------------------
Handler ==
    \/ dw_uart_isr \/ RxTimeout
    \/ sio_rx_callback \/ RxRead \/ RxPush \/ RxPushed
    \/ sio_tx_callback \/ TxPop \/ TxPopped \/ TxWrite \/ TxWritten

\* A call that has begun.
Inside ==
    \/ WriteDirect \/ WritePush \/ WriteReturn
    \/ ReadPop \/ ReadReturn
    \/ CloseRxint \/ CloseReturn

Next ==
    \/ Drain \/ Arrive \/ CharTimeout
    \/ \E n \in 1 .. MaxCnt : ez_sio_write(n) \/ ez_sio_read(n)
    \/ ez_sio_close \/ ez_sio_open
    \/ Inside
    \/ Handler

Spec == Init /\ [][Next]_vars

-----------------------------------------------------------------------------
(* Properties *)

Places == {"idle", "write", "push", "read", "flush", "closed",
           "rx", "rx_timeout", "rx_read", "tx", "tx_pop", "tx_more", "tx_last"}

\* The variables have their types, and both ring buffers are sound: indices
\* in range and as far apart as avail says.
TypeOK ==
    /\ pc \in Places /\ todo \in Nat
    /\ txint \in BOOLEAN /\ closing \in BOOLEAN /\ timedout \in BOOLEAN
    /\ rbbuf \in Seq(Chars)
    /\ txfifo \in Seq(Chars) /\ Len(txfifo) <= tx_fifo_len
    /\ rxfifo \in Seq(Chars) /\ Len(rxfifo) <= rx_fifo_len
    /\ RingSound(snd_rb, tx_bufsz, Chars) /\ RingSound(rcv_rb, rx_bufsz, Chars)
    /\ written \in Chars /\ arrived \in Chars

\* dw_uart_write and dw_uart_read, which wait for the UART, never have to:
\* with the lock held or in a handler that would stop everything else.
NeverWaits ==
    /\ pc = "write" => todo <= tx_avail
    /\ pc \in {"tx_more", "tx_last"} => Len(rbbuf) <= tx_avail
    /\ pc = "rx_read" => todo <= Len(rxfifo)

\* All that is under way to the line, in order, and what the program has
\* still to read of what came from it.
Outgoing ==
    txfifo \o (IF pc \in {"tx_pop", "tx_more", "tx_last"} THEN rbbuf ELSE <<>>)
           \o Contents(snd_rb)
Received == Contents(rcv_rb) \o (IF pc = "rx_read" THEN rbbuf ELSE <<>>)

Line == INSTANCE SerialLine WITH
            Held <- rx_bufsz, outgoing <- Outgoing, buffer <- Received,
            waiting <- rxfifo, stale <- timedout \/ pc = "rx_timeout",
            closed <- pc = "closed"

\* Characters come out in the order in which they were accepted, and arrive
\* in order. What the handler has taken from the UART is lost only beyond
\* a full receive buffer, or when the line is closed; what waits in the UART
\* only to its character timeout, one for each time without traffic.
ImplementsSerialLine == Line!Spec

\* The processor and the line work on; the program opens the line again
\* after closing it and, when it keeps it open, reads again and again.
FairSpec ==
    /\ Spec
    /\ WF_vars(Drain) /\ WF_vars(Inside) /\ WF_vars(Handler) /\ WF_vars(ez_sio_open)
    /\ SF_vars(\E n \in 1 .. MaxCnt : ez_sio_read(n))

\* The receive buffer is full, and the interrupt for the characters that
\* wait in the UART keeps the program from reading it.
Jammed == rb_isfull(rcv_rb) /\ RxPending /\ pc # "read"

\* Without time in the model, a character may follow on each one that the
\* timeout has discarded before the program runs.
DiscardsForEver == []<><<RxTimeout>>_vars

\* What ez_sio_write accepted keeps leaving for the line, until nothing is
\* left or the line is closed: only a receiver that is jammed for good, or
\* that discards for ever, can keep it in the buffers.
OutputGoesOn ==
    []<>(Outgoing = <<>>) \/ []<><<Drain>>_vars \/ <>[]Jammed \/ DiscardsForEver

\* What arrived keeps being read by the program, with the same exceptions.
InputGoesOn ==
    []<>(Received \o rxfifo = <<>>) \/ []<><<ReadPop>>_vars
        \/ <>[]Jammed \/ DiscardsForEver
=============================================================================
