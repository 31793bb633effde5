------------------------------- MODULE Stream -------------------------------
(***************************************************************************)
(* How the bytes of the modem become lines, prompts and socket data: DMA   *)
(* ring and receive interrupt (hal_adapter.c), core_at_hal_process         *)
(* (aiot_at_api.c).  The bytes come in pieces cut anywhere; what the       *)
(* parser hands on must not depend on the cuts.                            *)
(*                                                                         *)
(* A symbol stands for one byte or, where the code only tells it as a      *)
(* whole, for a word: "+" and "recv" make the head +QIURC: "recv", "1" and *)
(* "0" are the digits of a length (two digits are enough to cut between),  *)
(* the members of Links are socket numbers.                                *)
(***************************************************************************)
EXTENDS Integers, Sequences, SequencesExt

CONSTANTS Symbols,   \* what the bytes are told apart by
          Wires,     \* what the modem may send: sequences of items
          Links,     \* numbers the modem gives the sockets
          Printed,   \* how the modem prints a length
          BufSize,   \* AIOT_AT_RSP_LEN_MAXIMUM
          DmaSize,   \* RING_BUFFER_SIZE of hal_adapter.c
          DataSize,  \* size of a socket's data ring
          MaxUnseen  \* bytes that come before the interrupt is served

CRLF == <<"\r", "\n">>
Digits == {"0", "1"}
Lengths == DOMAIN Printed
Blanks == {"\r", "\n", "blank"}

\* sscanf of the digits of a length
Number(ds) == LET upto[k \in 0..Len(ds)] ==
                    IF k = 0 THEN 0 ELSE 2 * upto[k - 1] + (IF ds[k] = "1" THEN 1 ELSE 0)
              IN upto[Len(ds)]

\* An item is a line, the prompt of QISEND, or a report of socket data.
Items == [kind : {"line"}, text : Seq(Symbols \ {"\r", "\n", ">", "recv"})]
         \cup [kind : {"prompt"}]
         \cup [kind : {"data"}, link : Links, body : Seq(Symbols)]

\* A line is not blank, and a line or the head of a report fits rsp_buf.
Fits(it) ==
  /\ it.kind = "line" => /\ it.text # <<>> /\ Len(it.text) + 2 <= BufSize
                         /\ it.text[1] # "blank" /\ it.text[Len(it.text)] # "blank"
  /\ it.kind = "data" => /\ Len(it.body) \in Lengths
                         /\ 3 + Len(Printed[Len(it.body)]) + 2 <= BufSize

ASSUME StreamAssumption ==
  /\ BufSize \in Nat /\ BufSize >= 3
  /\ DmaSize \in Nat \ {0} /\ DataSize \in Nat \ {0}
  /\ MaxUnseen \in 1..DmaSize
  /\ Links \subseteq Symbols \ {">"} /\ Links # {}
  /\ Blanks \cup {">", "+", "recv"} \cup Digits \subseteq Symbols
  /\ Lengths \subseteq Nat \ {0}
  /\ \A n \in Lengths : /\ Printed[n] \in Seq(Digits) /\ Printed[n] # <<>>
                        /\ Number(Printed[n]) = n
  /\ \A w \in Wires : w \in Seq(Items) /\ \A i \in 1..Len(w) : Fits(w[i])

VARIABLES wire,    \* the items of this behaviour
          arrived, \* bytes the DMA has stored
          dma,     \* uart_dma_rx_buf.data
          last,    \* uart_dma_rx_buf.tail: where the last interrupt stopped
          from,    \* pData of aiot_at_hal_recv_handle, as offset in dma
          left,    \* recv_size: bytes of the piece not consumed
          rest,    \* bytes from the start of dma, to be passed next
          seen,    \* bytes of the wire the parser has consumed
          rsp,     \* rsp_buf up to rsp_buf_offset
          link,    \* reader.curr_link_id
          remain,  \* reader.remain_len
          lines,   \* what core_at_process_line was given, but for blanks
          data,    \* data_rb of each socket
          got,     \* what aiot_at_nwk_recv has returned, per socket
          lost     \* socket bytes that found no room or were written over

dmaVars == <<wire, arrived, dma>>
streamVars == <<wire, arrived, dma, last, from, left, rest, seen,
          rsp, link, remain, lines, data, got, lost>>

Least(a, b) == IF a <= b THEN a ELSE b

ItemBytes(it) ==
  CASE it.kind = "line"   -> CRLF \o it.text \o CRLF
    [] it.kind = "prompt" -> CRLF \o <<">", "blank">>
    [] it.kind = "data"   -> CRLF \o <<"+", "recv", it.link>> \o Printed[Len(it.body)]
                                  \o CRLF \o it.body

\* What the items of w say up to each of them: the bytes they are sent as, and,
\* read whole, the lines and prompts and each socket's data.
Said(s, it) ==
  [bytes |-> s.bytes \o ItemBytes(it),
   lines |-> CASE it.kind = "line"   -> Append(s.lines, it.text)
               [] it.kind = "prompt" -> Append(s.lines, <<">">>)
               [] it.kind = "data"   -> s.lines,
   data  |-> [l \in Links |-> IF it.kind = "data" /\ it.link = l
                              THEN s.data[l] \o it.body ELSE s.data[l]]]
Nothing == [bytes |-> <<>>, lines |-> <<>>, data |-> [l \in Links |-> <<>>]]
Says(w) == LET says[k \in 0..Len(w)] == IF k = 0 THEN Nothing ELSE Said(says[k - 1], w[k])
           IN says
Whole == Says(wire)[Len(wire)]
Bytes == Whole.bytes

StreamInit == /\ wire \in Wires
        /\ arrived = 0 /\ dma = [o \in 0..(DmaSize - 1) |-> ""]
        /\ last = 0 /\ from = 0 /\ left = 0 /\ rest = 0 /\ seen = 0
        /\ rsp = <<>> /\ link = (CHOOSE l \in Links : TRUE) /\ remain = 0 /\ lines = <<>>
        /\ data = [l \in Links |-> <<>>]
        /\ got = [l \in Links |-> <<>>] /\ lost = [l \in Links |-> 0]

-----------------------------------------------------------------------------
(* The DMA and the interrupt.                                              *)

\* the DMA stores a byte, whatever the processor does
Arrive == /\ arrived < Len(Bytes)
          /\ arrived - seen < MaxUnseen
          /\ dma' = [dma EXCEPT ![arrived % DmaSize] = Bytes[arrived + 1]]
          /\ arrived' = arrived + 1
          /\ UNCHANGED <<wire, last, from, left, rest, seen,
                         rsp, link, remain, lines, data, got, lost>>

\* _usart_recv_isr on an idle line or a half or a whole DMA ring: the bytes
\* since the last time, in two pieces when they run over the end
Interrupt == LET now == arrived % DmaSize IN
  /\ left = 0
  /\ now # last
  /\ last' = now
  /\ from' = last
  /\ IF now > last THEN left' = now - last /\ rest' = 0
                   ELSE left' = DmaSize - last /\ rest' = now
  /\ UNCHANGED <<seen, rsp, link, remain, lines, data, got, lost>>
  /\ UNCHANGED dmaVars

\* the loop of aiot_at_hal_recv_handle: at the end of a piece the next begins.
\* A prompt at the end of the piece counts one byte more than there is.
Consume(used) == LET n == Least(used, left) IN
  /\ seen' = seen + n
  /\ IF n < left THEN from' = from + n /\ left' = left - n /\ UNCHANGED rest
                 ELSE from' = 0 /\ left' = rest /\ rest' = 0

Piece(n) == [k \in 1..n |-> dma[from + k - 1]]

-----------------------------------------------------------------------------
(* core_at_hal_process: each call takes one of Body, Header, Line, Keep.   *)

\* core_ringbuf_write into a socket's ring: what does not fit is refused as a
\* whole; a ring filled to its last byte counts as empty
Occupied(l) == Len(data[l]) % DataSize
StoreData(l, piece) ==
  IF Len(piece) > DataSize - Occupied(l)
  THEN /\ lost' = [lost EXCEPT ![l] = @ + Len(piece)]
       /\ UNCHANGED data
  ELSE IF Occupied(l) = 0
  THEN /\ lost' = [lost EXCEPT ![l] = @ + Len(data[l])]
       /\ data' = [data EXCEPT ![l] = piece]
  ELSE /\ data' = [data EXCEPT ![l] = @ \o piece]
       /\ UNCHANGED lost

\* Mutant of Body: bytes that were refused are still awaited
BodyAgain == LET n == Least(remain, left) IN
  /\ left > 0 /\ remain > 0
  /\ StoreData(link, Piece(n))
  /\ remain' = IF lost' = lost THEN remain - n ELSE remain
  /\ Consume(n)
  /\ UNCHANGED <<last, rsp, link, lines, got>> /\ UNCHANGED dmaVars

\* the announced bytes are stored, and counted even when they are refused
Body == LET n == Least(remain, left) IN
  /\ left > 0 /\ remain > 0
  /\ StoreData(link, Piece(n))
  /\ remain' = remain - n
  /\ Consume(n)
  /\ UNCHANGED <<last, rsp, link, lines, got>> /\ UNCHANGED dmaVars

\* otherwise the piece goes behind what rsp_buf holds, as far as there is room
Added == Least(left, BufSize - Len(rsp))
Filled == rsp \o Piece(Added)

\* strstr: 0 when there is none
Find(text, word) == LET at == {i \in 1..(Len(text) - Len(word) + 1) :
                                 SubSeq(text, i, i + Len(word) - 1) = word}
                    IN IF at = {} THEN 0 ELSE Min(at)

\* core_at_recv_prefix_match
HeadAt == Find(Filled, <<"+", "recv">>)
HeadDigits == LET tl == SubSeq(Filled, HeadAt + 3, Len(Filled)) IN
              SubSeq(tl, 1, CHOOSE n \in 0..Len(tl) :
                              /\ \A k \in 1..n : tl[k] \in Digits
                              /\ n < Len(tl) => tl[n + 1] \notin Digits)
\* the head printed again from the two numbers
HeadLen == 3 + Len(HeadDigits) + 2
Scanned == /\ HeadAt # 0
           /\ Find(Filled, CRLF) = 0 \/ Find(Filled, CRLF) > HeadAt
           /\ HeadDigits # <<>>
\* Mutant of HeadComplete: the length of the printed head is not compared
HeadScanned == Scanned
HeadComplete == Scanned /\ HeadLen <= Len(Filled) - HeadAt + 1

Header == /\ left > 0 /\ remain = 0
          /\ HeadComplete
          /\ link' = Filled[HeadAt + 2]
          /\ remain' = Number(HeadDigits)
          /\ rsp' = <<>>
          /\ Consume(HeadLen - Len(rsp))
          /\ UNCHANGED <<last, lines, data, got, lost>> /\ UNCHANGED dmaVars

\* where a line ends: CRLF, else a prompt
LineEnd == IF Find(Filled, CRLF) # 0 THEN Find(Filled, CRLF) ELSE Find(Filled, <<">">>)

\* What core_at_process_line makes of a line: the blanks around it mean nothing, and
\* a line of blanks says nothing (a prompt's is cut behind it or behind its blank).
Trim(line) == LET said == {i \in 1..Len(line) : line[i] \notin Blanks}
              IN IF said = {} THEN <<>> ELSE SubSeq(line, Min(said), Max(said))
ProcessLine(line) == lines' = IF Trim(line) = <<>> THEN lines ELSE Append(lines, Trim(line))

\* Mutant of Line: what was left in rsp_buf counts as consumed again
LineForgetful == /\ left > 0 /\ remain = 0
                 /\ ~HeadComplete /\ LineEnd # 0
                 /\ ProcessLine(SubSeq(Filled, 1, Least(LineEnd + 1, Len(Filled))))
                 /\ rsp' = <<>>
                 /\ Consume(LineEnd + 1)
                 /\ UNCHANGED <<last, link, remain, data, got, lost>> /\ UNCHANGED dmaVars

Line == /\ left > 0 /\ remain = 0
        /\ ~HeadComplete /\ LineEnd # 0
        /\ ProcessLine(SubSeq(Filled, 1, Least(LineEnd + 1, Len(Filled))))
        /\ rsp' = <<>>
        /\ Consume(LineEnd + 1 - Len(rsp))
        /\ UNCHANGED <<last, link, remain, data, got, lost>> /\ UNCHANGED dmaVars

\* Mutant of Keep: only the first byte of the piece is taken as consumed
KeepOne == /\ left > 0 /\ remain = 0
           /\ ~HeadComplete /\ LineEnd = 0
           /\ rsp' = Filled
           /\ Consume(1)
           /\ UNCHANGED <<last, link, remain, lines, data, got, lost>> /\ UNCHANGED dmaVars

\* neither: the bytes wait for the next call, those without room are dropped
Keep == /\ left > 0 /\ remain = 0
        /\ ~HeadComplete /\ LineEnd = 0
        /\ rsp' = Filled
        /\ Consume(left)
        /\ UNCHANGED <<last, link, remain, lines, data, got, lost>> /\ UNCHANGED dmaVars

-----------------------------------------------------------------------------
(* The task that polls a socket; the interrupt is over when it runs.       *)

Read(l) == /\ left = 0
           /\ Occupied(l) > 0
           /\ got' = [got EXCEPT ![l] = @ \o data[l]]
           /\ data' = [data EXCEPT ![l] = <<>>]
           /\ UNCHANGED <<last, from, left, rest, seen, rsp, link, remain, lines, lost>>
           /\ UNCHANGED dmaVars

StreamNext == \/ Arrive \/ Interrupt
        \/ Body \/ Header \/ Line \/ Keep
        \/ \E l \in Links : Read(l)

StreamSpec == StreamInit /\ [][StreamNext]_streamVars

-----------------------------------------------------------------------------
(* Properties.                                                             *)

\* Type invariant: the loop of aiot_at_hal_recv_handle stays within its piece,
\* rsp_buf and the rings within their sizes, and rsp_buf never fills up: from then
\* on the parser would drop everything (aiot_at_api.c:735).
StreamTypeOK == /\ arrived \in 0..Len(Bytes) /\ seen \in 0..arrived
          /\ last \in 0..(DmaSize - 1) /\ from \in 0..(DmaSize - 1)
          /\ left \in 0..DmaSize /\ rest \in 0..DmaSize
          /\ from + left <= DmaSize
          /\ Len(rsp) < BufSize
          /\ link \in Links /\ remain \in Nat
          /\ \A l \in Links : Len(data[l]) <= DataSize /\ lost[l] \in Nat

\* Wherever the interrupts cut the bytes, core_at_process_line is given the lines
\* and prompts that were sent, in order, none torn, joined or made of socket
\* data (the byte counts of core_at_hal_process, aiot_at_api.c:742-771).
LinesWhole == IsPrefix(lines, Whole.lines)

\* A socket's reader gets the bytes that were sent to that socket, in order and
\* with none added, as long as its ring had room for all of them.
DataWhole == \A l \in Links : lost[l] = 0 => IsPrefix(got[l] \o data[l], Whole.data[l])

\* When a socket's ring has no room its bytes are lost, but what follows them is
\* still told apart: once all is consumed, every line has been handed on and
\* every data byte is received, waiting or lost (remain_len is decremented for
\* refused bytes too, aiot_at_api.c:728-729).
FramingKept == seen = Len(Bytes) =>
  /\ remain = 0
  /\ lines = Whole.lines
  /\ \A l \in Links : Len(got[l]) + Len(data[l]) + lost[l] = Len(Whole.data[l])
=============================================================================
