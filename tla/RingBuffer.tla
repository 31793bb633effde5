---------------------------- MODULE RingBuffer ----------------------------
(***************************************************************************)
(* core_ringbuf (aiot_at_api.c): the ring between the UART interrupt,      *)
(* which writes, and one task, which reads (rsp_rb in core_at_wait_resp,   *)
(* data_rb in aiot_at_nwk_recv) and, for rsp_rb, resets.  No lock is       *)
(* taken: the interrupt falls between any two loads or stores of the task, *)
(* the task never between two of the interrupt.                            *)
(*                                                                         *)
(* The pointers are offsets from rbuf->buf.  Bytes are numbered in the     *)
(* order the interrupt was told they were stored, so that a byte out of    *)
(* place is seen.                                                          *)
(***************************************************************************)
EXTENDS Integers, Sequences

CONSTANTS Size,      \* rbuf->size
          MaxChunk,  \* longest piece written at once, and read at once
          MaxBytes   \* bytes written in a behaviour

ASSUME RingAssumption == /\ Size \in Nat \ {0}
                         /\ MaxChunk \in Nat /\ MaxBytes \in Nat

VARIABLES buf,   \* buf[i]: number of the byte at offset i
          head,  \* offset of the next byte to read
          tail,  \* offset of the next byte to write
          sent,  \* bytes for which core_ringbuf_write returned len
          next,  \* one more than the bytes the task has read or reset: the number of
                 \* the byte it has to see next
          pc,    \* where the task is
          ahead, \* the comparison tail >= head, once loaded
          used,  \* what core_ringbuf_get_occupy returned
          chunk, \* the bytes copied by core_ringbuf_read
          full   \* history: a write has filled the ring since the last reset

vars == <<buf, head, tail, sent, next, pc, ahead, used, chunk, full>>

Offsets == 0..(Size - 1)
PCs == {"idle", "measure", "copy", "advance", "reset"}

\* Mutant of Wrap: the pointer may stop at rbuf->end
WrapLate(x) == IF x > Size THEN x - Size ELSE x
Wrap(x) == IF x >= Size THEN x - Size ELSE x

\* how far offset i lies after offset j
Distance(i, j) == IF i >= j THEN i - j ELSE i - j + Size

\* core_ringbuf_get_occupy, when nothing interrupts it
Occupy == Distance(tail, head)

Init == /\ buf = [i \in Offsets |-> 0]
        /\ head = 0 /\ tail = 0
        /\ sent = 0 /\ next = 1
        /\ pc = "idle" /\ ahead = TRUE /\ used = 0 /\ chunk = <<>>
        /\ full = FALSE

-----------------------------------------------------------------------------
(* The interrupt.                                                          *)

Store(len) == /\ buf' = [i \in Offsets |-> IF Distance(i, tail) < len
                                           THEN sent + 1 + Distance(i, tail)
                                           ELSE buf[i]]
              /\ tail' = Wrap(tail + len)
              /\ sent' = sent + len
              /\ full' = (full \/ len = Size - Occupy)
              /\ UNCHANGED <<head, next, pc, ahead, used, chunk>>

\* the whole of the free space may be taken: tail then meets head, as in an empty ring
Room(len) == len <= Size - Occupy

\* Mutant of Write: the free space is not looked at
WriteAnyway(len) == len <= Size /\ sent + len <= MaxBytes /\ Store(len)

\* core_ringbuf_write; with no room it stores nothing and returns
\* STATE_AT_RINGBUF_OVERFLOW
Write(len) == /\ Room(len)
              /\ sent + len <= MaxBytes
              /\ Store(len)

-----------------------------------------------------------------------------
(* The task.                                                               *)

\* core_ringbuf_get_occupy: the comparison, then the subtraction, each loading
\* tail on its own
Compare == /\ pc = "idle"
           /\ ahead' = (tail >= head)
           /\ pc' = "measure"
           /\ UNCHANGED <<buf, head, tail, sent, next, used, chunk, full>>

\* a negative count is an empty ring to aiot_at_nwk_recv, and a length that
\* core_ringbuf_read refuses to core_at_wait_resp
Measure == /\ pc = "measure"
           /\ used' = IF ahead THEN tail - head ELSE tail - head + Size
           /\ pc' = IF used' <= 0 THEN "idle" ELSE "copy"
           /\ UNCHANGED <<buf, head, tail, sent, next, ahead, chunk, full>>

\* core_ringbuf_read of all there is, or of the len bytes the caller still wants;
\* with fewer in the ring (a write has filled it since) it copies nothing.  The
\* memcpy is one step: the interrupt writes in free places, and to reach what is being
\* copied it would have to fill the ring and be called again within one memcpy
Copy(len) == /\ pc = "copy"
             /\ len <= used
             /\ IF len <= Occupy
                THEN /\ chunk' = [k \in 1..len |-> buf[Wrap(head + k - 1)]]
                     /\ pc' = "advance"
                ELSE /\ pc' = "idle"
                     /\ UNCHANGED chunk
             /\ UNCHANGED <<buf, head, tail, sent, next, ahead, used, full>>

\* Mutant of Advance: head moves by all that was measured
AdvanceUsed == /\ pc = "advance"
               /\ head' = Wrap(head + used)
               /\ next' = next + Len(chunk)
               /\ chunk' = <<>>
               /\ pc' = "idle"
               /\ UNCHANGED <<buf, tail, sent, ahead, used, full>>

\* the store of rbuf->head after the copy
Advance == /\ pc = "advance"
           /\ head' = Wrap(head + Len(chunk))
           /\ next' = next + Len(chunk)
           /\ chunk' = <<>>
           /\ pc' = "idle"
           /\ UNCHANGED <<buf, tail, sent, ahead, used, full>>

\* core_ringbuf_reset: tail first, head second
ResetTail == /\ pc = "idle"
             /\ tail' = 0
             /\ next' = sent + 1
             /\ full' = FALSE
             /\ pc' = "reset"
             /\ UNCHANGED <<buf, head, sent, ahead, used, chunk>>

ResetHead == /\ pc = "reset"
             /\ head' = 0
             /\ pc' = "idle"
             /\ UNCHANGED <<buf, tail, sent, next, ahead, used, chunk, full>>

Next == \/ \E len \in 1..MaxChunk : Write(len) \/ Copy(len)
        \/ Compare \/ Measure \/ Advance \/ ResetTail \/ ResetHead

Spec == Init /\ [][Next]_vars

-----------------------------------------------------------------------------
(* Properties.                                                             *)

\* Type invariant: both pointers stay inside the buffer, whatever the lengths
\* (the wrap of core_ringbuf_write and core_ringbuf_read).
TypeOK == /\ buf \in [Offsets -> Nat]
          /\ head \in Offsets /\ tail \in Offsets
          /\ sent \in Nat /\ next \in Nat
          /\ pc \in PCs /\ ahead \in BOOLEAN /\ used \in Int
          /\ chunk \in Seq(Nat)
          /\ full \in BOOLEAN

\* What core_ringbuf_read copies out is consecutive bytes in the order they were
\* written, although the interrupt writes at any moment; none is missing before
\* them, unless the ring was filled to its last byte.  Then a multiple of Size is.
InOrder == pc = "advance" =>
    \E gap \in 0..sent :
        /\ chunk = [k \in 1..Len(chunk) |-> next + gap + k - 1]
        /\ gap % Size = 0
        /\ ~full => gap = 0

\* Every byte for which core_ringbuf_write returned success is in the ring until the
\* task has read it or reset the ring; only a write that fills the ring to its last
\* byte (len = size - occupied is accepted) can make bytes disappear, and what
\* disappears is a whole ring of them.
LostByFillingOnly ==
    pc # "reset" => Occupy = IF full THEN (sent - next + 1) % Size ELSE sent - next + 1
=============================================================================
