--------------------------- MODULE ReceiveProofs ---------------------------
(***************************************************************************)
(* Proofs about the receive path.  RingBuffer, for every size and every    *)
(* length of the pieces: it is a first-in first-out queue between the      *)
(* interrupt and the task, from which only a write that fills it to its    *)
(* last byte takes anything, and then a whole ring of bytes.  Stream, for  *)
(* every wire, every size of the buffers and every way the bytes are cut:  *)
(* what the parser hands on is what was sent.                              *)
(***************************************************************************)
EXTENDS RingBuffer, Stream, FiniteSetTheorems, SequenceTheorems, TLAPS

-----------------------------------------------------------------------------
(* Remainders.                                                              *)

\* A remainder is known by the quotient that leaves it.
LEMMA Quotient ==
  ASSUME NEW m \in Nat \ {0}, NEW q \in Int, NEW s \in 0..(m - 1), NEW x \in Nat,
         x = m * q + s
  PROVE  x % m = s
<1> DEFINE p == x \div m
           t == x % m
<1>1. x = m * p + t /\ t \in 0..(m - 1) /\ p \in Int
  OBVIOUS
<1> HIDE DEF p, t
<1>2. m * q \in Int /\ m * p \in Int
  BY <1>1
<1>3. ASSUME NEW u \in Int, NEW v \in Int, u < v PROVE m * v >= m * u + m
  <2>1. v >= u + 1 /\ m * v >= m * (u + 1)
    BY <1>3
  <2>2. m * (u + 1) = m * u + m
    OBVIOUS
  <2> QED BY <2>1, <2>2
<1>4. ~(p < q) /\ ~(q < p)
  <2>1. p < q => m * q >= m * p + m
    BY <1>1, <1>3
  <2>2. q < p => m * p >= m * q + m
    BY <1>1, <1>3
  <2> QED BY <1>1, <1>2, <2>1, <2>2
<1>5. p = q
  BY <1>1, <1>4
<1>6. t = s
  BY <1>1, <1>2, <1>5
<1> QED BY <1>6 DEF t

\* n bytes further on in a ring of size d.
LEMMA Further ==
  ASSUME NEW a \in Nat, NEW d \in Nat \ {0}, NEW n \in 0..d
  PROVE  /\ a % d \in 0..(d - 1)
         /\ (a + n) % d = IF (a % d) + n < d THEN (a % d) + n ELSE (a % d) + n - d
<1> DEFINE q == a \div d
           r == a % d
<1>1. a = d * q + r /\ r \in 0..(d - 1) /\ q \in Int
  OBVIOUS
<1> HIDE DEF q, r
<1>2. d * q \in Int /\ d * (q + 1) = d * q + d /\ q + 1 \in Int
  BY <1>1
<1>3. CASE r + n < d
  <2>1. a + n = d * q + (r + n) /\ r + n \in 0..(d - 1) /\ a + n \in Nat
    BY <1>1, <1>2, <1>3
  <2>2. (a + n) % d = r + n
    BY <1>1, <2>1, Quotient
  <2> QED BY <1>1, <1>3, <2>2 DEF r
<1>4. CASE ~(r + n < d)
  <2>1. a + n = d * (q + 1) + (r + n - d) /\ r + n - d \in 0..(d - 1) /\ a + n \in Nat
    BY <1>1, <1>2, <1>4
  <2> DEFINE x == a + n
             t == r + n - d
             p == q + 1
  <2>2. x % d = t
    <3>1. x = d * p + t /\ t \in 0..(d - 1) /\ x \in Nat /\ p \in Int
      BY <1>2, <2>1
    <3> HIDE DEF x, t, p
    <3> QED BY <3>1, Quotient
  <2> QED BY <1>1, <1>4, <2>2 DEF r
<1> QED BY <1>3, <1>4

\* The remainder of a number up to the divisor.
LEMMA Small == ASSUME NEW d \in Nat \ {0}, NEW a \in 0..d PROVE a % d = IF a < d THEN a ELSE 0
<1>1. 0 % d = 0
  <2>1. 0 = d * 0 + 0 /\ 0 \in 0..(d - 1)
    OBVIOUS
  <2> QED BY <2>1, Quotient
<1>2. 0 \in Nat /\ 0 + a = a
  OBVIOUS
<1>3. (0 + a) % d = IF (0 % d) + a < d THEN (0 % d) + a ELSE (0 % d) + a - d
  BY <1>2, Further
<1> QED BY <1>1, <1>2, <1>3

-----------------------------------------------------------------------------
(* RingBuffer: the ring between the interrupt and the task.                 *)

\* the bytes stored and neither read nor reset, those overwritten included
Unread == sent - next + 1

\* how many bytes ago offset i was written, when the last Size bytes are looked at
Back(i) == IF tail > i THEN tail - i ELSE tail - i + Size

\* before tail lie the latest bytes, in order
Latest == \A i \in Offsets : Back(i) <= Unread => buf[i] = sent + 1 - Back(i)

\* what was copied: consecutive bytes, behind a gap of whole rings
Copied == \E gap \in 0..sent :
              /\ chunk = [k \in 1..Len(chunk) |-> next + gap + k - 1]
              /\ gap % Size = 0
              /\ ~full => gap = 0

RingInv == /\ TypeOK
           /\ next > 0 /\ Unread >= 0
           /\ Latest
           /\ pc # "reset" => /\ Occupy = Unread % Size
                              /\ ~full => Unread = Occupy
           /\ pc = "reset" => /\ tail = Unread % Size
                              /\ ~full => Unread = tail /\ (head = 0 \/ tail < head)
           /\ pc = "advance" => /\ Len(chunk) < Size /\ Len(chunk) <= Unread
                                /\ ~full => Len(chunk) <= Occupy
                                /\ Copied

\* The ring starts empty.
LEMMA InitInv == ASSUME Init PROVE RingInv
<1>1. 0 % Size = 0
  BY RingAssumption, Small
<1> QED BY <1>1, RingAssumption DEF Init, RingInv, TypeOK, Offsets, PCs, Unread, Latest, Back, Occupy, Distance

\* A write of the interrupt: the ring holds the latest bytes, and a write that fills
\* it loses as many as the ring holds.
LEMMA WriteKeeps ==
  ASSUME NEW len \in 1..MaxChunk, RingInv, Write(len)
  PROVE  RingInv'
<1>1. /\ len \in Nat /\ len > 0 /\ len <= Size - Occupy
      /\ tail' = Wrap(tail + len) /\ sent' = sent + len
      /\ \A i \in Offsets : buf'[i] = IF Distance(i, tail) < len
                                      THEN sent + 1 + Distance(i, tail) ELSE buf[i]
      /\ full' = (full \/ len = Size - Occupy)
      /\ UNCHANGED <<head, next, pc, ahead, used, chunk>>
  BY RingAssumption DEF Write, Store, Room
<1>2. /\ head \in Offsets /\ tail \in Offsets /\ sent \in Nat /\ next \in Nat \ {0}
      /\ Size \in Nat \ {0} /\ full \in BOOLEAN
  BY RingAssumption DEF RingInv, TypeOK
<1>3. TypeOK'
  <2>1. buf' \in [Offsets -> Nat]
    BY <1>1, <1>2, RingAssumption DEF Write, Store, Distance, Offsets, RingInv, TypeOK
  <2>2. tail' \in Offsets /\ sent' \in Nat
    BY <1>1, <1>2 DEF Wrap, Offsets, Occupy, Distance
  <2>3. full' \in BOOLEAN
    BY <1>1, <1>2
  <2> QED BY <1>1, <2>1, <2>2, <2>3 DEF RingInv, TypeOK
<1>4. Unread \in Nat /\ Unread' = Unread + len /\ next' > 0 /\ Unread' >= 0
  BY <1>1, <1>2 DEF Unread, RingInv
<1>5. Occupy \in 0..(Size - 1) /\ len \in 0..Size
  BY <1>1, <1>2 DEF Occupy, Distance, Offsets
<1>11. ASSUME ~full' PROVE ~full /\ len < Size - Occupy
  <2>1. full' = (full \/ len = Size - Occupy)
    BY <1>1
  <2>2. ~full /\ len # Size - Occupy
    BY <1>11, <2>1, Zenon
  <2> QED BY <1>1, <1>2, <1>5, <2>2
<1>6. /\ Unread % Size \in 0..(Size - 1)
      /\ Unread' % Size = IF (Unread % Size) + len < Size THEN (Unread % Size) + len
                          ELSE (Unread % Size) + len - Size
  BY <1>2, <1>4, <1>5, Further
<1>7. Latest'
  <2>1. ASSUME NEW i \in Offsets, Back(i)' <= Unread' PROVE buf'[i] = sent' + 1 - Back(i)'
    <3>1. CASE Distance(i, tail) < len
      <4>1. Back(i)' = len - Distance(i, tail)
        BY <1>1, <1>2, <1>5, <3>1 DEF Back, Distance, Wrap, Offsets
      <4>2. Distance(i, tail) \in Int
        BY <1>2 DEF Distance, Offsets
      <4> QED BY <1>1, <1>2, <3>1, <4>1, <4>2
    <3>2. CASE ~(Distance(i, tail) < len)
      <4>1. Back(i)' = Back(i) + len /\ Back(i) \in Int
        BY <1>1, <1>2, <1>5, <3>2 DEF Back, Distance, Wrap, Offsets
      <4>2. buf[i] = sent + 1 - Back(i)
        BY <1>1, <1>4, <2>1, <4>1 DEF RingInv, Latest
      <4> QED BY <1>1, <1>2, <3>2, <4>1, <4>2
    <3> QED BY <3>1, <3>2
  <2> QED BY <2>1 DEF Latest
<1>8. ASSUME pc # "reset" PROVE Occupy' = Unread' % Size /\ (~full' => Unread' = Occupy')
  <2>1. Occupy = Unread % Size /\ (~full => Unread = Occupy)
    BY <1>8 DEF RingInv
  <2>2. Occupy' = IF Occupy + len < Size THEN Occupy + len ELSE 0
    BY <1>1, <1>2, <1>5 DEF Occupy, Distance, Wrap, Offsets
  <2>3. (Occupy + len < Size /\ ~full /\ Unread = Occupy) \/ full'
    BY <1>2, <1>5, <1>11, <2>1
  <2>4. Occupy' = Unread' % Size
    <3>1. len <= Size - Occupy
      BY <1>1
    <3> QED BY <1>2, <1>5, <1>6, <2>1, <2>2, <3>1
  <2> QED BY <1>1, <1>2, <1>4, <1>5, <2>2, <2>3, <2>4
<1>9. ASSUME pc = "reset"
      PROVE  tail' = Unread' % Size /\ (~full' => Unread' = tail' /\ (head' = 0 \/ tail' < head'))
  <2>1. tail = Unread % Size /\ (~full => Unread = tail /\ (head = 0 \/ tail < head))
    BY <1>9 DEF RingInv
  <2>2. tail' = IF tail + len < Size THEN tail + len ELSE tail + len - Size
    BY <1>1, <1>2 DEF Wrap, Offsets
  <2>3. ~full' => tail + len < Size /\ (head = 0 \/ tail + len < head)
    <3>1. ASSUME ~full' PROVE tail + len < Size /\ (head = 0 \/ tail + len < head)
      BY <1>2, <1>5, <1>11, <2>1, <3>1 DEF Occupy, Distance, Offsets
    <3> QED BY <3>1
  <2> QED BY <1>1, <1>2, <1>4, <1>6, <1>11, <2>1, <2>2, <2>3
<1>10. ASSUME pc = "advance"
       PROVE  Len(chunk) < Size /\ Len(chunk) <= Unread' /\ (~full' => Len(chunk) <= Occupy') /\ Copied'
  <2>1. /\ Len(chunk) \in Nat /\ Len(chunk) < Size /\ Len(chunk) <= Unread
        /\ ~full => Len(chunk) <= Occupy
    BY <1>10 DEF RingInv, TypeOK
  <2>2. ~full' => ~full /\ Occupy' = Occupy + len
    <3>1. ASSUME ~full' PROVE ~full /\ Occupy' = Occupy + len
      <4>1. ~full /\ len < Size - Occupy
        BY <1>11, <3>1
      <4>2. tail' = Wrap(tail + len) /\ head' = head
        BY <1>1
      <4> QED BY <1>2, <1>5, <4>1, <4>2 DEF Occupy, Distance, Wrap, Offsets
    <3> QED BY <3>1
  <2>3. Copied'
    <3>1. PICK gap \in 0..sent : /\ chunk = [k \in 1..Len(chunk) |-> next + gap + k - 1]
                                 /\ gap % Size = 0 /\ (~full => gap = 0)
      BY <1>10 DEF RingInv, Copied
    <3>2. gap \in 0..sent'
      BY <1>1, <1>2
    <3> QED BY <1>1, <3>1, <3>2 DEF Copied
  <2> QED BY <1>1, <1>4, <1>5, <2>1, <2>2, <2>3
<1> QED BY <1>1, <1>3, <1>4, <1>7, <1>8, <1>9, <1>10 DEF RingInv

\* The task copies consecutive bytes, whatever is written meanwhile.
LEMMA CopyKeeps ==
  ASSUME NEW len \in 1..MaxChunk, RingInv, Copy(len)
  PROVE  RingInv'
<1>1. /\ len \in Nat /\ len > 0 /\ pc = "copy"
      /\ UNCHANGED <<buf, head, tail, sent, next, ahead, used, full>>
  BY RingAssumption DEF Copy
<1>2. /\ head \in Offsets /\ tail \in Offsets /\ buf \in [Offsets -> Nat]
      /\ sent \in Nat /\ next \in Nat \ {0} /\ Size \in Nat \ {0} /\ Unread >= 0
  BY RingAssumption DEF RingInv, TypeOK
<1>3. /\ Occupy = Unread % Size /\ (~full => Unread = Occupy) /\ Latest
  BY <1>1 DEF RingInv
<1>4. Unread \in Nat /\ Occupy \in 0..(Size - 1)
  BY <1>2 DEF Unread, Occupy, Distance, Offsets
<1> DEFINE gap == Unread - Occupy
<1>5. gap \in 0..sent /\ gap % Size = 0
  <2> DEFINE q == Unread \div Size
             r == Unread % Size
  <2>1. Unread = Size * q + r /\ r \in 0..(Size - 1) /\ q \in Int /\ q >= 0
    BY <1>2, <1>4
  <2> HIDE DEF q, r
  <2>2. Size * q \in Int /\ Occupy = r
    BY <1>2, <1>3, <2>1 DEF r
  <2>3. gap = Size * q + 0 /\ gap \in Int
    BY <1>4, <2>1, <2>2
  <2>4. gap >= 0
    <3>1. Size * q >= 0
      BY <1>2, <2>1
    <3> QED BY <2>2, <2>3, <3>1
  <2> HIDE DEF gap
  <2>5. gap % Size = 0
    BY <1>2, <2>1, <2>3, <2>4, Quotient
  <2>6. gap <= sent
    BY <1>2, <1>4 DEF gap, Unread
  <2> QED BY <2>3, <2>4, <2>5, <2>6
<1>6. CASE len <= Occupy
  <2>1. pc' = "advance" /\ chunk' = [k \in 1..len |-> buf[Wrap(head + k - 1)]]
    BY <1>6 DEF Copy
  <2>2. ASSUME NEW k \in 1..len PROVE buf[Wrap(head + k - 1)] = next + gap + k - 1
    <3>1. /\ Wrap(head + k - 1) \in Offsets
          /\ Back(Wrap(head + k - 1)) = Occupy - k + 1
      BY <1>1, <1>2, <1>4, <1>6 DEF Wrap, Back, Distance, Occupy, Offsets
    <3>2. Occupy <= Unread
      BY <1>2, <1>4, <1>5
    <3>3. Occupy - k + 1 <= Unread
      BY <1>4, <3>2
    <3>4. buf[Wrap(head + k - 1)] = sent + 1 - (Occupy - k + 1)
      BY <1>3, <3>1, <3>3 DEF Latest
    <3> QED BY <1>1, <1>2, <1>4, <3>4 DEF Unread
  <2>3. chunk' = [k \in 1..len |-> next + gap + k - 1] /\ Len(chunk') = len /\ chunk' \in Seq(Nat)
    <3>1. chunk' = [k \in 1..len |-> next + gap + k - 1]
      BY <2>1, <2>2
    <3>2. \A k \in 1..len : next + gap + k - 1 \in Nat
      BY <1>1, <1>2, <1>5
    <3> HIDE DEF gap
    <3> QED BY <1>1, <3>1, <3>2
  <2>4. Copied'
    <3>1. ~full => gap = 0
      BY <1>3, <1>4
    <3> HIDE DEF gap
    <3> QED BY <1>1, <1>5, <2>3, <3>1 DEF Copied
  <2>5. Len(chunk') < Size /\ Len(chunk') <= Unread /\ Len(chunk') <= Occupy
    BY <1>2, <1>4, <1>5, <1>6, <2>3
  <2> QED BY <1>1, <1>2, <1>3, <2>1, <2>3, <2>4, <2>5
          DEF RingInv, TypeOK, PCs, Occupy, Distance, Unread, Latest, Back
<1>7. CASE ~(len <= Occupy)
  <2>1. pc' = "idle" /\ chunk' = chunk
    BY <1>7 DEF Copy
  <2> QED BY <1>1, <1>2, <1>3, <2>1
          DEF RingInv, TypeOK, PCs, Occupy, Distance, Unread, Latest, Back
<1> QED BY <1>6, <1>7

\* The task frees the bytes it copied.
LEMMA AdvanceKeeps == ASSUME RingInv, Advance PROVE RingInv'
<1> DEFINE n == Len(chunk)
<1>1. /\ n \in Nat /\ n < Size /\ n <= Unread /\ (~full => n <= Occupy)
      /\ pc = "advance" /\ pc' = "idle"
      /\ head' = Wrap(head + n) /\ next' = next + n /\ chunk' = <<>>
      /\ UNCHANGED <<buf, tail, sent, ahead, used, full>>
  BY LenProperties DEF Advance, RingInv, TypeOK
<1>2. head \in Offsets /\ tail \in Offsets /\ sent \in Nat /\ next \in Nat \ {0} /\ Size \in Nat \ {0}
  BY RingAssumption DEF RingInv, TypeOK
<1> HIDE DEF n
<1>3. Unread \in Nat /\ Unread' = Unread - n /\ Unread' \in Nat
  BY <1>1, <1>2 DEF Unread, RingInv
<1>4. /\ head' \in Offsets
      /\ Occupy' = IF n <= Occupy THEN Occupy - n ELSE Occupy - n + Size
      /\ Occupy \in 0..(Size - 1)
  BY <1>1, <1>2 DEF Occupy, Distance, Wrap, Offsets
<1>5. Occupy = Unread % Size /\ (~full => Unread = Occupy) /\ Latest
  BY <1>1 DEF RingInv
<1>6. Occupy' = Unread' % Size
  <2> DEFINE a == Unread'
  <2>1. /\ a % Size \in 0..(Size - 1)
        /\ (a + n) % Size = IF (a % Size) + n < Size THEN (a % Size) + n ELSE (a % Size) + n - Size
    <3>1. a \in Nat /\ n \in 0..Size
      BY <1>1, <1>2, <1>3
    <3> HIDE DEF a
    <3> QED BY <1>2, <3>1, Further
  <2>2. a + n = Unread
    BY <1>1, <1>3
  <2> HIDE DEF a
  <2>3. Occupy = IF (a % Size) + n < Size THEN (a % Size) + n ELSE (a % Size) + n - Size
    BY <1>5, <2>1, <2>2
  <2>4. Occupy' = a % Size
    BY <1>1, <1>2, <1>4, <2>1, <2>3
  <2> QED BY <2>4 DEF a
<1>7. Latest'
  <2>1. \A i \in Offsets : Back(i)' = Back(i) /\ Back(i) \in Int
    BY <1>1, <1>2 DEF Back, Offsets
  <2> QED BY <1>1, <1>3, <1>5, <2>1 DEF Latest
<1>8. ~full' => Unread' = Occupy'
  BY <1>1, <1>3, <1>4, <1>5
<1>9. TypeOK' /\ next' > 0
  BY <1>1, <1>2, <1>4 DEF RingInv, TypeOK, PCs
<1> QED BY <1>1, <1>3, <1>6, <1>7, <1>8, <1>9 DEF RingInv

\* A reset drops what the ring held, in two stores.
LEMMA ResetKeeps == ASSUME RingInv, ResetTail \/ ResetHead PROVE RingInv'
<1>0. head \in Offsets /\ tail \in Offsets /\ sent \in Nat /\ next \in Nat \ {0} /\ Size \in Nat \ {0}
  BY RingAssumption DEF RingInv, TypeOK
<1>1. CASE ResetTail
  <2>1. 0 % Size = 0
    BY <1>0, Small
  <2>2. Unread' = 0 /\ next' > 0 /\ tail' = 0 /\ pc' = "reset" /\ full' = FALSE /\ head' = head
    BY <1>0, <1>1 DEF ResetTail, Unread
  <2>3. Latest'
    <3>1. \A i \in Offsets : ~(Back(i)' <= Unread')
      BY <1>0, <2>2 DEF Back, Offsets
    <3> QED BY <3>1 DEF Latest
  <2>4. TypeOK'
    <3>1. TypeOK
      BY DEF RingInv
    <3>2. 0 \in Offsets /\ sent + 1 \in Nat
      BY <1>0 DEF Offsets
    <3>3. "reset" \in PCs /\ UNCHANGED <<buf, head, sent, ahead, used, chunk>> /\ next' = sent + 1
      BY <1>1 DEF ResetTail, PCs
    <3> QED BY <2>2, <3>1, <3>2, <3>3 DEF TypeOK
  <2>5. head' = 0 \/ tail' < head'
    BY <1>0, <2>2 DEF Offsets
  <2> QED BY <2>1, <2>2, <2>3, <2>4, <2>5 DEF RingInv
<1>2. CASE ResetHead
  <2>1. /\ pc = "reset" /\ pc' = "idle" /\ head' = 0
        /\ UNCHANGED <<buf, tail, sent, next, ahead, used, chunk, full>>
    BY <1>2 DEF ResetHead
  <2>2. Occupy' = tail
    BY <1>0, <2>1 DEF Occupy, Distance, Offsets
  <2>3. Unread' = Unread /\ Latest'
    BY <2>1 DEF RingInv, Unread, Latest, Back
  <2>4. TypeOK'
    BY <1>0, <2>1 DEF RingInv, TypeOK, Offsets, PCs
  <2> QED BY <2>1, <2>2, <2>3, <2>4 DEF RingInv
<1> QED BY <1>1, <1>2

\* Reading the pointers disturbs nothing.
LEMMA LoadKeeps == ASSUME RingInv, Compare \/ Measure PROVE RingInv'
<1>1. /\ TypeOK' /\ pc' \notin {"reset", "advance"} /\ pc # "reset"
      /\ UNCHANGED <<buf, head, tail, sent, next, full>>
  <2>1. CASE Compare
    BY <2>1 DEF Compare, RingInv, TypeOK, PCs
  <2>2. CASE Measure
    <3>1. used' \in Int /\ pc' \in {"idle", "copy"} /\ pc = "measure"
      BY <2>2, RingAssumption DEF Measure, RingInv, TypeOK, Offsets
    <3> QED BY <2>2, <3>1 DEF Measure, RingInv, TypeOK, PCs
  <2> QED BY <2>1, <2>2
<1> QED BY <1>1 DEF RingInv, Occupy, Distance, Unread, Latest, Back

\* Every step keeps the ring in order.
LEMMA NextInv == ASSUME RingInv, [Next]_vars PROVE RingInv'
<1>1. CASE UNCHANGED vars
  BY <1>1 DEF vars, RingInv, TypeOK, Occupy, Distance, Unread, Latest, Back, Copied
<1> QED BY <1>1, WriteKeeps, CopyKeeps, AdvanceKeeps, ResetKeeps, LoadKeeps DEF Next

\* The ring is in order in every state.
LEMMA Invariance == Spec => []RingInv
<1>1. RingInv /\ [Next]_vars => RingInv'
  BY NextInv
<1> QED BY InitInv, <1>1, PTL DEF Spec

\* The pointers never leave the buffer, for any size and any lengths.
THEOREM RingTypeCorrect == Spec => []TypeOK
BY Invariance, PTL DEF RingInv

\* The task reads the interrupt's bytes in order, with none missing, or a multiple
\* of the ring's size once a write has filled it.
THEOREM RingInOrder == Spec => []InOrder
<1>1. RingInv => InOrder
  BY DEF RingInv, InOrder, Copied
<1> QED BY Invariance, <1>1, PTL

\* What core_ringbuf_write accepted stays in the ring until it is read or reset,
\* except for a whole ring of bytes at every write that fills it.
THEOREM RingLosesByFillingOnly == Spec => []LostByFillingOnly
<1>1. RingInv => LostByFillingOnly
  BY DEF RingInv, LostByFillingOnly, Unread
<1> QED BY Invariance, <1>1, PTL

-----------------------------------------------------------------------------
(* Stream: numbers and what the items say.                                  *)

\* A set of numbers that is not empty has a least one.
LEMMA LeastNumber ==
  ASSUME NEW S \in SUBSET Nat, S # {}
  PROVE  \E m \in S : \A n \in S : m <= n
<1> DEFINE below == {0..n : n \in S}
<1>1. below # {} /\ below \subseteq FiniteSubsetsOf(Nat)
  <2>1. \A n \in S : 0..n \subseteq Nat /\ IsFiniteSet(0..n)
    BY FS_Interval
  <2> QED BY <2>1 DEF FiniteSubsetsOf
<1>2. PICK x \in below : \A y \in below : <<y, x>> \notin StrictSubsetOrdering(Nat)
  <2> HIDE DEF below
  <2> QED BY <1>1, FS_StrictSubsetOrderingWellFounded, WFMin
<1>3. PICK m \in S : x = 0..m
  OBVIOUS
<1>4. ASSUME NEW n \in S, n < m PROVE FALSE
  <2>1. 0..n \in below /\ 0..n \subseteq 0..m /\ 0..n # 0..m /\ 0..n \subseteq Nat /\ 0..m \subseteq Nat
    BY <1>4
  <2>2. <<0..n, 0..m>> \notin StrictSubsetOrdering(Nat)
    BY <1>2, <1>3, <2>1
  <2>3. <<0..n, 0..m>> \in StrictSubsetOrdering(Nat)
    BY <2>1 DEF StrictSubsetOrdering
  <2> QED BY <2>2, <2>3
<1> QED BY <1>4

\* The least member that Min chooses is there.
LEMMA MinExists ==
  ASSUME NEW S \in SUBSET Nat, S # {}
  PROVE  Min(S) \in S /\ \A n \in S : Min(S) <= n
BY LeastNumber DEF Min

\* A member below all others is the one Min chooses.
LEMMA MinIs ==
  ASSUME NEW S \in SUBSET Nat, NEW m \in S, \A n \in S : m <= n
  PROVE  Min(S) = m
<1> DEFINE x == Min(S)
<1>1. x \in S /\ x <= m
  BY MinExists
<1>2. m <= x /\ x \in Int /\ m \in Int
  <2> HIDE DEF x
  <2> QED BY <1>1
<1>3. x = m
  <2> HIDE DEF x
  <2> QED BY <1>1, <1>2
<1> QED BY <1>3

\* What the items say is defined for each of them.
LEMMA SaysRecursion ==
  ASSUME NEW w \in Seq(Items)
  PROVE  /\ Says(w)[0] = Nothing
         /\ \A k \in 1..Len(w) : Says(w)[k] = Said(Says(w)[k - 1], w[k])
<1> DEFINE Upto(g, n) == g = [k \in 0..n |-> IF k = 0 THEN Nothing ELSE Said(g[k - 1], w[k])]
           bad == {n \in 0..Len(w) : \A g : ~Upto(g, n)}
<1>0. Len(w) \in Nat
  OBVIOUS
<1>1. bad = {}
  <2> SUFFICES ASSUME bad # {} PROVE FALSE
    OBVIOUS
  <2>1. PICK m \in bad : \A n \in bad : m <= n
    <3>1. bad \in SUBSET Nat
      BY <1>0
    <3> HIDE DEF bad
    <3> QED BY <3>1, LeastNumber
  <2>2. CASE m = 0
    <3>1. Upto([k \in 0..0 |-> Nothing], 0)
      OBVIOUS
    <3> QED BY <2>1, <2>2, <3>1
  <2>3. CASE m > 0
    <3>1. m - 1 \in 0..Len(w) /\ m - 1 \notin bad
      BY <1>0, <2>1, <2>3
    <3>2. PICK g : Upto(g, m - 1)
      BY <3>1
    <3> DEFINE h == [k \in 0..m |-> IF k = m THEN Said(g[m - 1], w[m]) ELSE g[k]]
    <3>3. Upto(h, m)
      <4>1. \A k \in 0..(m - 1) : g[k] = IF k = 0 THEN Nothing ELSE Said(g[k - 1], w[k])
        BY <3>2, Zenon
      <4>2. ASSUME NEW k \in 0..m PROVE h[k] = IF k = 0 THEN Nothing ELSE Said(h[k - 1], w[k])
        <5>1. CASE k = m
          <6>1. h[k - 1] = g[m - 1]
            BY <2>1, <2>3, <5>1
          <6> QED BY <2>3, <5>1, <6>1
        <5>2. CASE k # m
          <6>1. k \in 0..(m - 1) /\ h[k] = g[k] /\ (k # 0 => h[k - 1] = g[k - 1])
            BY <2>1, <5>2
          <6> HIDE DEF h
          <6> QED BY <4>1, <6>1
        <5> QED BY <5>1, <5>2
      <4>3. h = [k \in 0..m |-> h[k]]
        OBVIOUS
      <4> HIDE DEF h
      <4> QED BY <4>2, <4>3
    <3> QED BY <2>1, <3>3
  <2> QED BY <1>0, <2>1, <2>2, <2>3
<1>2. PICK g : Upto(g, Len(w))
  BY <1>0, <1>1
<1>3. Upto(Says(w), Len(w))
  <2>1. Says(w) = CHOOSE s : Upto(s, Len(w))
    BY DEF Says
  <2> HIDE DEF Upto
  <2> QED BY <1>2, <2>1
<1> QED BY <1>0, <1>3

\* Two sequences joined, element by element.
LEMMA Joined ==
  ASSUME NEW S, NEW s \in Seq(S), NEW t \in Seq(S)
  PROVE  /\ s \o t \in Seq(S) /\ Len(s \o t) = Len(s) + Len(t)
         /\ \A i \in 1..Len(s) : (s \o t)[i] = s[i]
         /\ \A i \in 1..Len(t) : (s \o t)[Len(s) + i] = t[i]
<1> DEFINE u == s \o t
<1>1. u \in Seq(S) /\ Len(u) = Len(s) + Len(t) /\ Len(s) \in Nat /\ Len(t) \in Nat
      /\ \A i \in 1 .. Len(s) + Len(t) : u[i] = IF i <= Len(s) THEN s[i] ELSE t[i - Len(s)]
  BY ConcatProperties, LenProperties
<1> HIDE DEF u
<1>2. \A i \in 1..Len(s) : u[i] = s[i]
  BY <1>1
<1>3. ASSUME NEW i \in 1..Len(t) PROVE u[Len(s) + i] = t[i]
  <2>1. Len(s) + i \in 1 .. Len(s) + Len(t) /\ ~(Len(s) + i <= Len(s)) /\ Len(s) + i - Len(s) = i
    BY <1>1
  <2> QED BY <1>1, <2>1
<1> QED BY <1>1, <1>2, <1>3 DEF u

\* A sequence that is not empty has a length above zero.
LEMMA NonEmpty == ASSUME NEW S, NEW s \in Seq(S), s # <<>> PROVE Len(s) \in Nat \ {0}
BY EmptySeq, Zenon

\* an item the modem may send, and a sequence of them
GoodItem(it) == it \in Items /\ Fits(it)
GoodWire(w) == w \in Seq(Items) /\ \A i \in 1..Len(w) : Fits(w[i])
\* what has been said up to some item
Heard == [bytes : Seq(Symbols), lines : Seq(Seq(Symbols)), data : [Links -> Seq(Symbols)]]

\* how the modem prints the length of a report
Figures(it) == Printed[Len(it.body)]

\* The length of a report is printed in digits that say it, and its head fits rsp_buf.
LEMMA FiguresType ==
  ASSUME NEW it, GoodItem(it), it.kind = "data"
  PROVE  /\ it.body \in Seq(Symbols) /\ it.link \in Links
         /\ Len(it.body) \in Nat \ {0}
         /\ Figures(it) \in Seq(Digits) /\ Len(Figures(it)) \in Nat \ {0}
         /\ Number(Figures(it)) = Len(it.body)
         /\ 3 + Len(Figures(it)) + 2 <= BufSize
<1>1. /\ it.body \in Seq(Symbols) /\ it.link \in Links
      /\ Len(it.body) \in Lengths
      /\ 3 + Len(Printed[Len(it.body)]) + 2 <= BufSize
  BY DEF GoodItem, Items, Fits
<1>2. /\ Len(it.body) \in Nat \ {0}
      /\ Figures(it) \in Seq(Digits) /\ Figures(it) # <<>>
      /\ Number(Figures(it)) = Len(it.body)
  BY <1>1, StreamAssumption DEF Figures
<1>3. Len(Figures(it)) \in Nat \ {0}
  BY <1>2, NonEmpty, Zenon
<1> QED BY <1>1, <1>2, <1>3 DEF Figures

\* An item's bytes, one by one.
LEMMA LineSpells ==
  ASSUME NEW it, GoodItem(it), it.kind = "line"
  PROVE  /\ it.text \in Seq(Symbols \ {"\r", "\n", ">", "recv"})
         /\ Len(it.text) \in Nat \ {0} /\ Len(it.text) + 2 <= BufSize
         /\ it.text[1] # "blank" /\ it.text[Len(it.text)] # "blank"
         /\ ItemBytes(it) \in Seq(Symbols)
         /\ Len(ItemBytes(it)) = Len(it.text) + 4
         /\ ItemBytes(it)[1] = "\r" /\ ItemBytes(it)[2] = "\n"
         /\ \A j \in 1..Len(it.text) : ItemBytes(it)[2 + j] = it.text[j]
         /\ ItemBytes(it)[Len(it.text) + 3] = "\r" /\ ItemBytes(it)[Len(it.text) + 4] = "\n"
<1> DEFINE t == it.text
<1>1. /\ t \in Seq(Symbols \ {"\r", "\n", ">", "recv"}) /\ t # <<>> /\ Len(t) + 2 <= BufSize
      /\ t[1] # "blank" /\ t[Len(t)] # "blank"
  BY DEF GoodItem, Items, Fits
<1>0. {"\r", "\n", ">", "blank", "+", "recv"} \subseteq Symbols
  BY StreamAssumption DEF Blanks
<1>2. ItemBytes(it) = <<"\r", "\n">> \o t \o <<"\r", "\n">>
  BY DEF ItemBytes, CRLF
<1>3. t \in Seq(Symbols)
  BY <1>1
<1> HIDE DEF t
<1>4. Len(t) \in Nat \ {0}
  BY <1>1, NonEmpty
<1> DEFINE h == <<"\r", "\n">>
           i == h \o t
<1>5. /\ i \in Seq(Symbols) /\ Len(i) = 2 + Len(t) /\ i[1] = "\r" /\ i[2] = "\n"
      /\ \A n \in 1..Len(t) : i[2 + n] = t[n]
  <2>1. h \in Seq(Symbols) /\ Len(h) = 2 /\ h[1] = "\r" /\ h[2] = "\n"
    BY <1>0
  <2> HIDE DEF h
  <2>2. /\ i \in Seq(Symbols) /\ Len(i) = Len(h) + Len(t)
        /\ \A n \in 1..Len(h) : i[n] = h[n]
        /\ \A n \in 1..Len(t) : i[Len(h) + n] = t[n]
    BY <1>3, <2>1, Joined, SMT
  <2> QED BY <2>1, <2>2
<1>6. ItemBytes(it) = i \o h
  BY <1>2
<1> HIDE DEF i
<1>7. /\ ItemBytes(it) \in Seq(Symbols) /\ Len(ItemBytes(it)) = Len(t) + 4
      /\ \A n \in 1..(2 + Len(t)) : ItemBytes(it)[n] = i[n]
      /\ ItemBytes(it)[Len(t) + 3] = "\r" /\ ItemBytes(it)[Len(t) + 4] = "\n"
  BY <1>0, <1>4, <1>5, <1>6
<1>8. ASSUME NEW n \in 1..Len(t) PROVE ItemBytes(it)[2 + n] = t[n]
  <2>1. 2 + n \in 1..(2 + Len(t))
    BY <1>4
  <2> QED BY <1>5, <1>7, <2>1
<1>9. ItemBytes(it)[1] = "\r" /\ ItemBytes(it)[2] = "\n"
  BY <1>4, <1>5, <1>7
<1> QED BY <1>1, <1>4, <1>7, <1>8, <1>9, Zenon DEF t

\* The bytes of a prompt.
LEMMA PromptSpells ==
  ASSUME NEW it, GoodItem(it), it.kind = "prompt"
  PROVE  /\ ItemBytes(it) \in Seq(Symbols) /\ Len(ItemBytes(it)) = 4
         /\ ItemBytes(it)[1] = "\r" /\ ItemBytes(it)[2] = "\n"
         /\ ItemBytes(it)[3] = ">" /\ ItemBytes(it)[4] = "blank"
<1>0. {"\r", "\n", ">", "blank", "+", "recv"} \subseteq Symbols
  BY StreamAssumption DEF Blanks
<1>1. ItemBytes(it) = <<"\r", "\n">> \o <<">", "blank">>
  BY DEF ItemBytes, CRLF
<1> QED BY <1>0, <1>1

\* The bytes of a report of socket data: its head, a line end and the body.
LEMMA DataSpells ==
  ASSUME NEW it, GoodItem(it), it.kind = "data"
  PROVE  LET d == Figures(it) IN
         /\ ItemBytes(it) \in Seq(Symbols)
         /\ Len(ItemBytes(it)) = 7 + Len(d) + Len(it.body)
         /\ ItemBytes(it)[1] = "\r" /\ ItemBytes(it)[2] = "\n"
         /\ ItemBytes(it)[3] = "+" /\ ItemBytes(it)[4] = "recv" /\ ItemBytes(it)[5] = it.link
         /\ \A j \in 1..Len(d) : ItemBytes(it)[5 + j] = d[j]
         /\ ItemBytes(it)[6 + Len(d)] = "\r" /\ ItemBytes(it)[7 + Len(d)] = "\n"
         /\ \A j \in 1..Len(it.body) : ItemBytes(it)[7 + Len(d) + j] = it.body[j]
<1> DEFINE d == Figures(it)
           b == it.body
           l == it.link
<1>1. ItemBytes(it) = <<"\r", "\n">> \o <<"+", "recv", l>> \o d \o <<"\r", "\n">> \o b
  BY DEF ItemBytes, CRLF, Figures
<1>0. {"\r", "\n", ">", "blank", "+", "recv"} \subseteq Symbols
  BY StreamAssumption DEF Blanks
<1>2. d \in Seq(Symbols) /\ b \in Seq(Symbols) /\ l \in Symbols /\ Len(d) \in Nat /\ Len(b) \in Nat
  <2>1. d \in Seq(Digits) /\ b \in Seq(Symbols) /\ l \in Links
    BY FiguresType
  <2>2. Digits \subseteq Symbols /\ Links \subseteq Symbols
    BY StreamAssumption
  <2> QED BY <2>1, <2>2
<1> HIDE DEF d, b, l
<1> DEFINE h == <<"\r", "\n">> \o <<"+", "recv", l>>
           i == h \o d
           j == i \o <<"\r", "\n">>
<1>4. h \in Seq(Symbols) /\ Len(h) = 5 /\ h[1] = "\r" /\ h[2] = "\n" /\ h[3] = "+" /\ h[4] = "recv" /\ h[5] = l
  BY <1>0, <1>2
<1> HIDE DEF h
<1>5. /\ i \in Seq(Symbols) /\ Len(i) = 5 + Len(d)
      /\ \A n \in 1..5 : i[n] = h[n]
      /\ \A n \in 1..Len(d) : i[5 + n] = d[n]
  <2>1. /\ i \in Seq(Symbols) /\ Len(i) = Len(h) + Len(d)
        /\ \A n \in 1..Len(h) : i[n] = h[n]
        /\ \A n \in 1..Len(d) : i[Len(h) + n] = d[n]
    <3>1. h \in Seq(Symbols) /\ d \in Seq(Symbols)
      BY <1>2, <1>4
    <3> QED BY ONLY <3>1, Joined, SMT
  <2> QED BY <1>4, <2>1
<1> HIDE DEF i
<1>6. /\ j \in Seq(Symbols) /\ Len(j) = 7 + Len(d)
      /\ \A n \in 1..(5 + Len(d)) : j[n] = i[n]
      /\ j[6 + Len(d)] = "\r" /\ j[7 + Len(d)] = "\n"
  BY <1>0, <1>2, <1>5
<1> HIDE DEF j
<1>7. /\ ItemBytes(it) \in Seq(Symbols) /\ Len(ItemBytes(it)) = 7 + Len(d) + Len(b)
      /\ \A n \in 1..(7 + Len(d)) : ItemBytes(it)[n] = j[n]
      /\ \A n \in 1..Len(b) : ItemBytes(it)[7 + Len(d) + n] = b[n]
  <2>1. ItemBytes(it) = j \o b
    BY <1>1 DEF h, i, j
  <2>2. /\ j \o b \in Seq(Symbols) /\ Len(j \o b) = Len(j) + Len(b)
        /\ \A n \in 1..Len(j) : (j \o b)[n] = j[n]
        /\ \A n \in 1..Len(b) : (j \o b)[Len(j) + n] = b[n]
    <3>1. j \in Seq(Symbols) /\ b \in Seq(Symbols)
      BY <1>2, <1>6
    <3> QED BY ONLY <3>1, Joined, SMT
  <2> QED BY <1>6, <2>1, <2>2
<1>8. ASSUME NEW n \in 1..Len(d) PROVE ItemBytes(it)[5 + n] = d[n]
  <2>1. 5 + n \in 1..(5 + Len(d)) /\ 5 + n \in 1..(7 + Len(d))
    BY <1>2
  <2> QED BY <1>5, <1>6, <1>7, <2>1
<1>9. \A n \in 1..5 : ItemBytes(it)[n] = h[n]
  BY <1>2, <1>5, <1>6, <1>7
<1>10. ItemBytes(it)[6 + Len(d)] = "\r" /\ ItemBytes(it)[7 + Len(d)] = "\n"
  BY <1>2, <1>6, <1>7
<1>11. /\ ItemBytes(it)[1] = "\r" /\ ItemBytes(it)[2] = "\n"
       /\ ItemBytes(it)[3] = "+" /\ ItemBytes(it)[4] = "recv" /\ ItemBytes(it)[5] = l
  BY <1>4, <1>9
<1> QED BY <1>7, <1>8, <1>10, <1>11, Zenon DEF d, b, l

\* Every item is spelled in symbols and begins with a line end.
LEMMA SpellsType ==
  ASSUME NEW it, GoodItem(it)
  PROVE  /\ ItemBytes(it) \in Seq(Symbols) /\ Len(ItemBytes(it)) >= 4
         /\ ItemBytes(it)[1] = "\r" /\ ItemBytes(it)[2] = "\n"
<1>1. it.kind \in {"line", "prompt", "data"}
  BY DEF GoodItem, Items
<1>2. CASE it.kind = "line"
  <2> DEFINE n == Len(it.text)
  <2>1. /\ ItemBytes(it) \in Seq(Symbols) /\ Len(ItemBytes(it)) = n + 4 /\ n \in Nat
        /\ ItemBytes(it)[1] = "\r" /\ ItemBytes(it)[2] = "\n"
    BY <1>2, LineSpells
  <2> HIDE DEF n
  <2> QED BY <2>1
<1>3. CASE it.kind = "prompt"
  BY <1>3, PromptSpells
<1>4. CASE it.kind = "data"
  <2> DEFINE n == Len(Figures(it))
             m == Len(it.body)
  <2>1. n \in Nat /\ m \in Nat
    BY <1>4, FiguresType
  <2>2. /\ ItemBytes(it) \in Seq(Symbols) /\ Len(ItemBytes(it)) = 7 + n + m
        /\ ItemBytes(it)[1] = "\r" /\ ItemBytes(it)[2] = "\n"
    BY <1>4, DataSpells
  <2> HIDE DEF n, m
  <2> QED BY <2>1, <2>2
<1> QED BY <1>1, <1>2, <1>3, <1>4

-----------------------------------------------------------------------------
(* Stream: what was said grows.                                             *)

\* b begins with a, and t with s in bytes, lines and each socket's data
Begins(a, b) == Len(a) <= Len(b) /\ \A i \in 1..Len(a) : a[i] = b[i]
Grows(s, t) == /\ Begins(s.bytes, t.bytes) /\ Begins(s.lines, t.lines)
               /\ \A l \in Links : Begins(s.data[l], t.data[l])

\* To begin with is to have for a prefix.
LEMMA BeginsPrefix ==
  ASSUME NEW S, NEW a \in Seq(S), NEW b \in Seq(S)
  PROVE  Begins(a, b) <=> IsPrefix(a, b)
<1>1. Len(a) \in Nat /\ Len(b) \in Nat
  BY LenProperties
<1>2. CASE Len(a) <= Len(b)
  <2>1. /\ SubSeq(a, 1, Len(a)) = a
        /\ SubSeq(b, 1, Len(a)) \in Seq(S) /\ Len(SubSeq(b, 1, Len(a))) = Len(a)
        /\ \A i \in 1..Len(a) : SubSeq(b, 1, Len(a))[i] = b[i]
    BY <1>1, <1>2, SubSeqFull
  <2>2. a = SubSeq(b, 1, Len(a)) <=> \A i \in 1..Len(a) : a[i] = b[i]
    BY <2>1, SeqEqual
  <2> QED BY <1>2, <2>1, <2>2 DEF Begins, IsPrefix
<1>3. CASE ~(Len(a) <= Len(b))
  BY <1>3 DEF Begins, IsPrefix
<1> QED BY <1>2, <1>3

\* A sequence begins with itself.
LEMMA BeginsAll == ASSUME NEW S, NEW a \in Seq(S) PROVE Begins(a, a)
BY LenProperties DEF Begins

\* What begins with b begins with what b begins with.
LEMMA BeginsThrough ==
  ASSUME NEW S, NEW a \in Seq(S), NEW b \in Seq(S), NEW c \in Seq(S), Begins(a, b), Begins(b, c)
  PROVE  Begins(a, c)
<1>1. Len(a) \in Nat /\ Len(b) \in Nat /\ Len(c) \in Nat
  BY LenProperties
<1> QED BY <1>1 DEF Begins

\* A sequence joined to another is a beginning of both together.
LEMMA BeginsJoined == ASSUME NEW S, NEW a \in Seq(S), NEW b \in Seq(S) PROVE Begins(a, a \o b)
<1>1. Len(a) \in Nat /\ Len(b) \in Nat
  BY LenProperties
<1>2. Len(a \o b) = Len(a) + Len(b) /\ \A i \in 1..Len(a) : (a \o b)[i] = a[i]
  BY Joined
<1> QED BY <1>1, <1>2 DEF Begins

\* Appending keeps the beginning.
LEMMA BeginsAppended == ASSUME NEW S, NEW a \in Seq(S), NEW e \in S PROVE Begins(a, Append(a, e))
<1>1. Len(a) \in Nat
  BY LenProperties
<1>2. Len(Append(a, e)) = Len(a) + 1 /\ \A i \in 1..Len(a) : Append(a, e)[i] = a[i]
  BY AppendProperties
<1> QED BY <1>1, <1>2 DEF Begins

\* What an item adds to what was said.
LEMMA SaidIs ==
  ASSUME NEW s \in Heard, NEW it, GoodItem(it)
  PROVE  /\ Said(s, it) \in Heard
         /\ Said(s, it).bytes = s.bytes \o ItemBytes(it)
         /\ it.kind = "line" => Said(s, it).lines = Append(s.lines, it.text)
         /\ it.kind = "prompt" => Said(s, it).lines = Append(s.lines, <<">">>)
         /\ it.kind = "data" => Said(s, it).lines = s.lines
         /\ \A l \in Links : Said(s, it).data[l] = IF it.kind = "data" /\ it.link = l
                                                   THEN s.data[l] \o it.body ELSE s.data[l]
<1>1. it.kind \in {"line", "prompt", "data"}
  BY DEF GoodItem, Items
<1>2. s.bytes \in Seq(Symbols) /\ s.lines \in Seq(Seq(Symbols)) /\ s.data \in [Links -> Seq(Symbols)]
  BY DEF Heard
<1>3. Said(s, it).bytes = s.bytes \o ItemBytes(it) /\ Said(s, it).bytes \in Seq(Symbols)
  <2>1. Said(s, it).bytes = s.bytes \o ItemBytes(it)
    BY DEF Said
  <2>2. ItemBytes(it) \in Seq(Symbols)
    BY SpellsType
  <2> QED BY <1>2, <2>1, <2>2, Joined
<1>4. \A l \in Links : Said(s, it).data[l] = IF it.kind = "data" /\ it.link = l
                                             THEN s.data[l] \o it.body ELSE s.data[l]
  BY DEF Said
<1>5. ASSUME NEW l \in Links
      PROVE  (IF it.kind = "data" /\ it.link = l THEN s.data[l] \o it.body ELSE s.data[l]) \in Seq(Symbols)
  <2>1. s.data[l] \in Seq(Symbols)
    BY <1>2
  <2>2. it.kind = "data" => it.body \in Seq(Symbols)
    BY FiguresType
  <2> QED BY <2>1, <2>2, Joined
<1>6. Said(s, it).data \in [Links -> Seq(Symbols)]
  <2>1. Said(s, it).data = [l \in Links |-> IF it.kind = "data" /\ it.link = l
                                            THEN s.data[l] \o it.body ELSE s.data[l]]
    BY DEF Said
  <2> QED BY <1>5, <2>1
<1>7. /\ it.kind = "line" => Said(s, it).lines = Append(s.lines, it.text)
      /\ it.kind = "prompt" => Said(s, it).lines = Append(s.lines, <<">">>)
      /\ it.kind = "data" => Said(s, it).lines = s.lines
  BY DEF Said
<1>8. Said(s, it).lines \in Seq(Seq(Symbols))
  <2>1. <<">">> \in Seq(Symbols)
    BY StreamAssumption
  <2>2. it.kind = "line" => it.text \in Seq(Symbols)
    <3>1. ASSUME it.kind = "line" PROVE it.text \in Seq(Symbols \ {"\r", "\n", ">", "recv"})
      BY <3>1, LineSpells
    <3> QED BY <3>1, SeqMonotonic
  <2>3. CASE it.kind = "line"
    <3>1. Append(s.lines, it.text) \in Seq(Seq(Symbols))
      BY <1>2, <2>2, <2>3, AppendProperties, Zenon
    <3> QED BY <1>7, <2>3, <3>1
  <2>4. CASE it.kind = "prompt"
    <3>1. Append(s.lines, <<">">>) \in Seq(Seq(Symbols))
      BY <1>2, <2>1, AppendProperties, Zenon
    <3> QED BY <1>7, <2>4, <3>1
  <2>5. CASE it.kind = "data"
    BY <1>2, <1>7, <2>5
  <2> QED BY <1>1, <2>3, <2>4, <2>5
<1>9. Said(s, it) \in Heard
  <2> DEFINE b == s.bytes \o ItemBytes(it)
             c == CASE it.kind = "line"   -> Append(s.lines, it.text)
                    [] it.kind = "prompt" -> Append(s.lines, <<">">>)
                    [] it.kind = "data"   -> s.lines
             d == [l \in Links |-> IF it.kind = "data" /\ it.link = l
                                   THEN s.data[l] \o it.body ELSE s.data[l]]
  <2>1. Said(s, it) = [bytes |-> b, lines |-> c, data |-> d]
    BY DEF Said
  <2> HIDE DEF b, c, d
  <2>2. Said(s, it).bytes = b /\ Said(s, it).lines = c /\ Said(s, it).data = d
    BY <2>1
  <2> QED BY <1>3, <1>6, <1>8, <2>1, <2>2 DEF Heard
<1> QED BY <1>3, <1>4, <1>7, <1>9

\* An item is said behind what was said before.
LEMMA SaidGrows ==
  ASSUME NEW s \in Heard, NEW it, GoodItem(it)
  PROVE  Grows(s, Said(s, it))
<1>1. it.kind \in {"line", "prompt", "data"}
  BY DEF GoodItem, Items
<1>2. s.bytes \in Seq(Symbols) /\ s.lines \in Seq(Seq(Symbols)) /\ s.data \in [Links -> Seq(Symbols)]
  BY DEF Heard
<1>3. Begins(s.bytes, Said(s, it).bytes)
  <2>1. ItemBytes(it) \in Seq(Symbols)
    BY SpellsType
  <2>2. Begins(s.bytes, s.bytes \o ItemBytes(it))
    BY <1>2, <2>1, BeginsJoined
  <2> QED BY <2>2, SaidIs
<1>4. Begins(s.lines, Said(s, it).lines)
  <2>1. <<">">> \in Seq(Symbols)
    BY StreamAssumption
  <2>2. it.kind = "line" => it.text \in Seq(Symbols)
    <3>1. ASSUME it.kind = "line" PROVE it.text \in Seq(Symbols \ {"\r", "\n", ">", "recv"})
      BY <3>1, LineSpells
    <3> QED BY <3>1, SeqMonotonic
  <2>3. CASE it.kind = "line"
    <3>1. Begins(s.lines, Append(s.lines, it.text))
      BY <1>2, <2>2, <2>3, BeginsAppended, Zenon
    <3> QED BY <2>3, <3>1, SaidIs
  <2>4. CASE it.kind = "prompt"
    <3>1. Begins(s.lines, Append(s.lines, <<">">>))
      BY <1>2, <2>1, BeginsAppended, Zenon
    <3> QED BY <2>4, <3>1, SaidIs
  <2>5. CASE it.kind = "data"
    BY <1>2, <2>5, SaidIs, BeginsAll
  <2> QED BY <1>1, <2>3, <2>4, <2>5
<1>5. ASSUME NEW l \in Links PROVE Begins(s.data[l], Said(s, it).data[l])
  <2>1. s.data[l] \in Seq(Symbols)
    BY <1>2
  <2>2. it.kind = "data" => it.body \in Seq(Symbols)
    BY FiguresType
  <2>3. CASE it.kind = "data" /\ it.link = l
    <3>1. Said(s, it).data[l] = s.data[l] \o it.body
      BY <2>3, SaidIs
    <3> QED BY <2>1, <2>2, <2>3, <3>1, BeginsJoined
  <2>4. CASE ~(it.kind = "data" /\ it.link = l)
    <3>1. Said(s, it).data[l] = s.data[l]
      BY <2>4, SaidIs
    <3> QED BY <2>1, <3>1, BeginsAll
  <2> QED BY <2>3, <2>4
<1> QED BY <1>3, <1>4, <1>5 DEF Grows

\* What is said up to each item are symbols, lines and data of the sockets.
LEMMA SaysType ==
  ASSUME NEW w, GoodWire(w)
  PROVE  \A k \in 0..Len(w) : Says(w)[k] \in Heard
<1> DEFINE bad == {k \in 0..Len(w) : Says(w)[k] \notin Heard}
<1>0. Len(w) \in Nat
  BY DEF GoodWire
<1> SUFFICES ASSUME bad # {} PROVE FALSE
  OBVIOUS
<1>1. PICK m \in bad : \A n \in bad : m <= n
  <2>1. bad \in SUBSET Nat
    BY <1>0
  <2> HIDE DEF bad
  <2> QED BY <2>1, LeastNumber
<1>2. CASE m = 0
  <2>1. Nothing \in Heard
    <3>1. <<>> \in Seq(Symbols) /\ <<>> \in Seq(Seq(Symbols))
      OBVIOUS
    <3> QED BY <3>1 DEF Nothing, Heard
  <2> QED BY <1>1, <1>2, <2>1, SaysRecursion DEF GoodWire
<1>3. CASE m # 0
  <2>1. m \in 1..Len(w) /\ m - 1 \in 0..Len(w) /\ m - 1 \notin bad
    BY <1>0, <1>1, <1>3
  <2>2. Says(w)[m - 1] \in Heard
    BY <2>1
  <2>3. GoodItem(w[m])
    BY <2>1 DEF GoodWire, GoodItem
  <2>4. Says(w)[m] = Said(Says(w)[m - 1], w[m])
    BY <2>1, SaysRecursion DEF GoodWire
  <2> QED BY <1>1, <2>2, <2>3, <2>4, SaidIs
<1> QED BY <1>2, <1>3

\* What was said begins with itself.
LEMMA GrowsAll == ASSUME NEW s \in Heard PROVE Grows(s, s)
<1>1. s.bytes \in Seq(Symbols) /\ s.lines \in Seq(Seq(Symbols)) /\ s.data \in [Links -> Seq(Symbols)]
  BY DEF Heard
<1> QED BY <1>1, BeginsAll DEF Grows

\* Beginning with what was said is transitive.
LEMMA GrowsThrough ==
  ASSUME NEW r \in Heard, NEW s \in Heard, NEW t \in Heard, Grows(r, s), Grows(s, t)
  PROVE  Grows(r, t)
<1>1. /\ r.bytes \in Seq(Symbols) /\ r.lines \in Seq(Seq(Symbols)) /\ r.data \in [Links -> Seq(Symbols)]
      /\ s.bytes \in Seq(Symbols) /\ s.lines \in Seq(Seq(Symbols)) /\ s.data \in [Links -> Seq(Symbols)]
      /\ t.bytes \in Seq(Symbols) /\ t.lines \in Seq(Seq(Symbols)) /\ t.data \in [Links -> Seq(Symbols)]
  BY DEF Heard
<1>2. Begins(r.bytes, t.bytes) /\ Begins(r.lines, t.lines)
  BY <1>1, BeginsThrough DEF Grows
<1>3. ASSUME NEW l \in Links PROVE Begins(r.data[l], t.data[l])
  <2>1. r.data[l] \in Seq(Symbols) /\ s.data[l] \in Seq(Symbols) /\ t.data[l] \in Seq(Symbols)
    BY <1>1
  <2> QED BY <2>1, BeginsThrough DEF Grows
<1> QED BY <1>2, <1>3 DEF Grows

\* What is said up to an item begins with what was said up to an earlier one.
LEMMA SaysGrows ==
  ASSUME NEW w, GoodWire(w), NEW j \in 0..Len(w)
  PROVE  \A k \in j..Len(w) : Grows(Says(w)[j], Says(w)[k])
<1> DEFINE bad == {k \in j..Len(w) : ~Grows(Says(w)[j], Says(w)[k])}
<1>0. Len(w) \in Nat
  BY DEF GoodWire
<1> SUFFICES ASSUME bad # {} PROVE FALSE
  OBVIOUS
<1>1. PICK m \in bad : \A n \in bad : m <= n
  <2>1. bad \in SUBSET Nat
    BY <1>0
  <2> HIDE DEF bad
  <2> QED BY <2>1, LeastNumber
<1>2. CASE m = j
  BY <1>1, <1>2, SaysType, GrowsAll
<1>3. CASE m # j
  <2>1. m \in 1..Len(w) /\ m - 1 \in j..Len(w) /\ m - 1 \in 0..Len(w) /\ m - 1 \notin bad
    BY <1>0, <1>1, <1>3
  <2>2. Grows(Says(w)[j], Says(w)[m - 1])
    BY <2>1
  <2>3. GoodItem(w[m])
    BY <2>1 DEF GoodWire, GoodItem
  <2>4. Says(w)[m] = Said(Says(w)[m - 1], w[m])
    BY <2>1, SaysRecursion DEF GoodWire
  <2>5. Says(w)[j] \in Heard /\ Says(w)[m - 1] \in Heard /\ Says(w)[m] \in Heard
    BY <1>0, <2>1, SaysType
  <2>6. Grows(Says(w)[m - 1], Says(w)[m])
    BY <2>3, <2>4, <2>5, SaidGrows
  <2>7. Grows(Says(w)[j], Says(w)[m])
    BY <2>2, <2>5, <2>6, GrowsThrough
  <2> QED BY <1>1, <2>7
<1> QED BY <1>2, <1>3

-----------------------------------------------------------------------------
(* Stream: strstr, the blanks around a line, digits.                        *)

\* A part of a sequence, element by element.
LEMMA Cut ==
  ASSUME NEW S, NEW s \in Seq(S), NEW m \in Nat \ {0}, NEW n \in Nat, n <= Len(s), m <= n + 1
  PROVE  /\ SubSeq(s, m, n) \in Seq(S) /\ Len(SubSeq(s, m, n)) = n - m + 1
         /\ \A i \in 1..(n - m + 1) : SubSeq(s, m, n)[i] = s[m + i - 1]
<1>1. \A i \in m..n : s[i] \in S
  BY LenProperties
<1>2. m \in Int /\ n \in Int
  OBVIOUS
<1>3. /\ SubSeq(s, m, n) \in Seq(S)
      /\ Len(SubSeq(s, m, n)) = IF m <= n THEN n - m + 1 ELSE 0
      /\ \A i \in 1..(n - m + 1) : SubSeq(s, m, n)[i] = s[m + i - 1]
  BY <1>1, <1>2, SubSeqProperties, SMT
<1>4. (IF m <= n THEN n - m + 1 ELSE 0) = n - m + 1
  OBVIOUS
<1> QED BY <1>3, <1>4

\* Where a pair of symbols, or one, is first found.
Pair(text, a, b, i) == text[i] = a /\ text[i + 1] = b

\* Where strstr first finds a pair of symbols, or that it finds none.
LEMMA FindIs ==
  ASSUME NEW S, NEW text \in Seq(S), NEW a \in S, NEW b \in S
  PROVE  /\ Find(text, <<a, b>>) \in Nat
         /\ (\A i \in 1..(Len(text) - 1) : ~Pair(text, a, b, i)) => Find(text, <<a, b>>) = 0
         /\ \A m \in 1..(Len(text) - 1) :
              Pair(text, a, b, m) /\ (\A i \in 1..(m - 1) : ~Pair(text, a, b, i))
              => Find(text, <<a, b>>) = m
         /\ \A m \in Nat :
              (\A i \in 1..(Len(text) - 1) : i <= m => ~Pair(text, a, b, i))
              => Find(text, <<a, b>>) = 0 \/ Find(text, <<a, b>>) > m
<1> DEFINE at == {i \in 1..(Len(text) - 1) : Pair(text, a, b, i)}
           f == Find(text, <<a, b>>)
<1>0. Len(text) \in Nat
  OBVIOUS
<1>1. ASSUME NEW i \in 1..(Len(text) - 1)
      PROVE  SubSeq(text, i, i + 1) = <<a, b>> <=> Pair(text, a, b, i)
  <2> DEFINE v == SubSeq(text, i, i + 1)
  <2>1. i \in Nat \ {0} /\ i + 1 \in Nat /\ i + 1 <= Len(text) /\ i <= i + 1 + 1
    BY <1>0
  <2>2. /\ v \in Seq(S) /\ Len(v) = i + 1 - i + 1
        /\ \A j \in 1..(i + 1 - i + 1) : v[j] = text[i + j - 1]
    BY <2>1, Cut, SMT
  <2> HIDE DEF v
  <2>3. v \in Seq(S) /\ Len(v) = 2 /\ v[1] = text[i] /\ v[2] = text[i + 1]
    <3>1. i + 1 - i + 1 = 2 /\ i + 1 - 1 = i /\ i + 2 - 1 = i + 1 /\ 1 \in 1..2 /\ 2 \in 1..2
      BY <2>1
    <3>2. Len(v) = 2 /\ \A j \in 1..2 : v[j] = text[i + j - 1]
      BY <2>2, <3>1
    <3> QED BY <2>2, <3>1, <3>2
  <2>4. v = <<a, b>> <=> (v[1] = a /\ v[2] = b)
    BY <2>3
  <2> QED BY <2>3, <2>4 DEF Pair, v
<1>2. f = IF at = {} THEN 0 ELSE Min(at)
  <2>1. Len(<<a, b>>) = 2
    OBVIOUS
  <2>2. f = LET s == {i \in 1..(Len(text) - 2 + 1) : SubSeq(text, i, i + 2 - 1) = <<a, b>>}
            IN IF s = {} THEN 0 ELSE Min(s)
    BY <2>1, Zenon DEF Find
  <2>3. 1..(Len(text) - 2 + 1) = 1..(Len(text) - 1) /\ \A i \in 1..(Len(text) - 1) : i + 2 - 1 = i + 1
    BY <1>0
  <2>4. {i \in 1..(Len(text) - 2 + 1) : SubSeq(text, i, i + 2 - 1) = <<a, b>>} = at
    BY <1>1, <2>3
  <2> QED BY <2>2, <2>4, Zenon
<1> HIDE DEF f
<1>3. at \in SUBSET Nat
  BY <1>0
<1>4. at # {} => f \in at
  <2> HIDE DEF at
  <2> QED BY <1>2, <1>3, MinExists
<1>5. f \in Nat
  BY <1>2, <1>3, <1>4
<1>6. (\A i \in 1..(Len(text) - 1) : ~Pair(text, a, b, i)) => f = 0
  BY <1>2
<1>7. ASSUME NEW m \in 1..(Len(text) - 1),
             Pair(text, a, b, m), \A i \in 1..(m - 1) : ~Pair(text, a, b, i)
      PROVE  f = m
  <2>1. m \in at /\ \A i \in at : m <= i
    BY <1>0, <1>7
  <2> HIDE DEF at
  <2>2. Min(at) = m
    BY <1>3, <2>1, MinIs
  <2> QED BY <1>2, <2>1, <2>2
<1>8. ASSUME NEW m \in Nat, \A i \in 1..(Len(text) - 1) : i <= m => ~Pair(text, a, b, i)
      PROVE  f = 0 \/ f > m
  <2>1. CASE at = {}
    BY <1>2, <2>1
  <2>2. CASE at # {}
    <3>1. f \in at
      BY <1>4, <2>2
    <3>2. f \in 1..(Len(text) - 1) /\ Pair(text, a, b, f)
      BY <3>1
    <3> QED BY <1>0, <1>8, <3>2
  <2> QED BY <2>1, <2>2
<1> QED BY <1>5, <1>6, <1>7, <1>8 DEF f

\* Where strstr first finds a single symbol, or that it finds none.
LEMMA FindOneIs ==
  ASSUME NEW S, NEW text \in Seq(S), NEW a \in S
  PROVE  /\ (\A i \in 1..Len(text) : text[i] # a) => Find(text, <<a>>) = 0
         /\ \A m \in 1..Len(text) :
              text[m] = a /\ (\A i \in 1..(m - 1) : text[i] # a) => Find(text, <<a>>) = m
<1> DEFINE at == {i \in 1..Len(text) : text[i] = a}
           f == Find(text, <<a>>)
<1>0. Len(text) \in Nat
  OBVIOUS
<1>1. ASSUME NEW i \in 1..Len(text)
      PROVE  SubSeq(text, i, i) = <<a>> <=> text[i] = a
  <2> DEFINE v == SubSeq(text, i, i)
  <2>1. i \in Nat \ {0} /\ i \in Nat /\ i <= Len(text) /\ i <= i + 1
    BY <1>0
  <2>2. /\ v \in Seq(S) /\ Len(v) = i - i + 1
        /\ \A j \in 1..(i - i + 1) : v[j] = text[i + j - 1]
    BY <2>1, Cut, SMT
  <2> HIDE DEF v
  <2>3. v \in Seq(S) /\ Len(v) = 1 /\ v[1] = text[i]
    BY <1>0, <2>2
  <2>4. v = <<a>> <=> v[1] = a
    BY <2>3
  <2> QED BY <2>3, <2>4 DEF v
<1>2. f = IF at = {} THEN 0 ELSE Min(at)
  <2>1. Len(<<a>>) = 1
    OBVIOUS
  <2>2. f = LET s == {i \in 1..(Len(text) - 1 + 1) : SubSeq(text, i, i + 1 - 1) = <<a>>}
            IN IF s = {} THEN 0 ELSE Min(s)
    BY <2>1, Zenon DEF Find
  <2>3. 1..(Len(text) - 1 + 1) = 1..Len(text) /\ \A i \in 1..Len(text) : i + 1 - 1 = i
    BY <1>0
  <2>4. {i \in 1..(Len(text) - 1 + 1) : SubSeq(text, i, i + 1 - 1) = <<a>>} = at
    BY <1>1, <2>3
  <2> QED BY <2>2, <2>4, Zenon
<1> HIDE DEF f
<1>3. at \in SUBSET Nat
  BY <1>0
<1>6. (\A i \in 1..Len(text) : text[i] # a) => f = 0
  BY <1>2
<1>7. ASSUME NEW m \in 1..Len(text), text[m] = a, \A i \in 1..(m - 1) : text[i] # a
      PROVE  f = m
  <2>1. m \in at /\ \A i \in at : m <= i
    BY <1>0, <1>7
  <2> HIDE DEF at
  <2>2. Min(at) = m
    BY <1>3, <2>1, MinIs
  <2> QED BY <1>2, <2>1, <2>2
<1> QED BY <1>6, <1>7 DEF f

\* What is left of a line without the blanks around it.
LEMMA TrimBlank ==
  ASSUME NEW line, \A i \in 1..Len(line) : line[i] \in Blanks
  PROVE  Trim(line) = <<>>
BY DEF Trim

\* Between blanks up to m and behind n, the line is what stands from m to n.
LEMMA TrimIs ==
  ASSUME NEW S, NEW line \in Seq(S), NEW m \in 1..Len(line), NEW n \in 1..Len(line),
         line[m] \notin Blanks, line[n] \notin Blanks,
         \A i \in 1..Len(line) : i < m \/ n < i => line[i] \in Blanks
  PROVE  Trim(line) = SubSeq(line, m, n)
<1> DEFINE said == {i \in 1..Len(line) : line[i] \notin Blanks}
<1>0. Len(line) \in Nat
  OBVIOUS
<1>1. said \in SUBSET Nat /\ m \in said /\ n \in said /\ \A i \in said : m <= i /\ i <= n
  BY <1>0
<1>2. Trim(line) = IF said = {} THEN <<>> ELSE SubSeq(line, Min(said), Max(said))
  BY DEF Trim
<1> HIDE DEF said
<1>3. Min(said) = m
  BY <1>1, MinIs
<1>4. Max(said) = n
  <2> DEFINE x == Max(said)
  <2>1. x \in said /\ \A i \in said : x >= i
    <3>1. n \in said /\ \A i \in said : n >= i
      BY <1>1
    <3> QED BY <3>1 DEF Max
  <2> HIDE DEF x
  <2>2. x \in Int /\ n \in Int /\ n >= x /\ x >= n
    BY <1>1, <2>1
  <2>3. x = n
    BY <2>2
  <2> QED BY <2>3 DEF x
<1> QED BY <1>1, <1>2, <1>3, <1>4

\* The digits at the start of tl, when there are n.
LEMMA DigitsAre ==
  ASSUME NEW tl, NEW n \in 0..Len(tl), Len(tl) \in Nat,
         \A k \in 1..n : tl[k] \in Digits, n < Len(tl) => tl[n + 1] \notin Digits
  PROVE  (CHOOSE c \in 0..Len(tl) : /\ \A k \in 1..c : tl[k] \in Digits
                                    /\ c < Len(tl) => tl[c + 1] \notin Digits) = n
<1> DEFINE Ends(c) == /\ \A k \in 1..c : tl[k] \in Digits
                      /\ c < Len(tl) => tl[c + 1] \notin Digits
           c0 == CHOOSE c \in 0..Len(tl) : Ends(c)
<1>1. c0 \in 0..Len(tl) /\ Ends(c0)
  <2>1. Ends(n)
    OBVIOUS
  <2> HIDE DEF Ends
  <2> QED BY <2>1
<1> HIDE DEF c0
<1>2. ~(c0 < n)
  <2> SUFFICES ASSUME c0 < n PROVE FALSE
    OBVIOUS
  <2>1. c0 + 1 \in 1..n /\ c0 < Len(tl)
    BY <1>1
  <2> QED BY <1>1, <2>1
<1>3. ~(n < c0)
  <2> SUFFICES ASSUME n < c0 PROVE FALSE
    OBVIOUS
  <2>1. n + 1 \in 1..c0 /\ n < Len(tl)
    BY <1>1
  <2> QED BY <1>1, <2>1
<1>4. c0 = n
  BY <1>1, <1>2, <1>3
<1> QED BY <1>4, Zenon DEF c0

-----------------------------------------------------------------------------
(* Stream: the DMA ring and the pieces of an interrupt.                     *)

\* The DMA ring holds the bytes that have arrived and are not consumed; the piece of
\* this interrupt and the rest at the start of the ring are the next of them.
Transport ==
  /\ GoodWire(wire)
  /\ arrived \in 0..Len(Bytes) /\ seen \in 0..arrived /\ arrived - seen <= MaxUnseen
  /\ DOMAIN dma = 0..(DmaSize - 1)
  /\ \A i \in seen..(arrived - 1) : dma[i % DmaSize] = Bytes[i + 1]
  /\ left \in 0..DmaSize /\ rest \in 0..DmaSize /\ from \in 0..(DmaSize - 1)
  /\ seen + left + rest <= arrived
  /\ last = (seen + left + rest) % DmaSize
  /\ left > 0 => from = seen % DmaSize /\ from + left <= DmaSize
  /\ rest > 0 => left > 0 /\ from + left = DmaSize

\* The bytes of the wire are symbols.
LEMMA BytesType ==
  ASSUME GoodWire(wire)
  PROVE  Bytes \in Seq(Symbols) /\ Len(Bytes) \in Nat /\ Whole \in Heard /\ Len(wire) \in Nat
<1>1. Len(wire) \in Nat
  BY DEF GoodWire
<1>2. Whole \in Heard
  BY <1>1, SaysType DEF Whole
<1>3. Bytes \in Seq(Symbols)
  BY <1>2 DEF Bytes, Heard
<1> QED BY <1>1, <1>2, <1>3, LenProperties

\* Nothing has arrived at first.
LEMMA TransportInit == ASSUME StreamInit PROVE Transport
<1>1. GoodWire(wire)
  BY StreamAssumption DEF StreamInit, GoodWire
<1>2. Len(Bytes) \in Nat
  BY <1>1, BytesType
<1>3. 0 % DmaSize = 0
  BY Small, StreamAssumption
<1>4. /\ arrived = 0 /\ seen = 0 /\ left = 0 /\ rest = 0 /\ from = 0 /\ last = 0
      /\ DOMAIN dma = 0..(DmaSize - 1)
  BY DEF StreamInit
<1> QED BY <1>1, <1>2, <1>3, <1>4, StreamAssumption DEF Transport

\* A step that touches neither DMA ring nor piece keeps them in order.
LEMMA TransportStays ==
  ASSUME Transport, UNCHANGED <<last, from, left, rest, seen>>, UNCHANGED dmaVars
  PROVE  Transport'
BY DEF Transport, dmaVars, Bytes, Whole, GoodWire

\* The bytes of the piece are the next ones of the wire.
LEMMA PieceIs ==
  ASSUME Transport, NEW n \in 0..left
  PROVE  /\ Piece(n) \in Seq(Symbols) /\ Len(Piece(n)) = n
         /\ \A k \in 1..n : Piece(n)[k] = Bytes[seen + k]
<1>0. /\ left \in Nat /\ rest \in Nat /\ from \in 0..(DmaSize - 1) /\ seen \in Nat /\ arrived \in Nat
      /\ DmaSize \in Nat \ {0} /\ seen + left + rest <= arrived /\ arrived <= Len(Bytes)
      /\ GoodWire(wire)
  BY BytesType, StreamAssumption DEF Transport
<1>1. ASSUME NEW k \in 1..n PROVE dma[from + k - 1] = Bytes[seen + k] /\ Bytes[seen + k] \in Symbols
  <2>1. k - 1 \in 0..DmaSize /\ from = seen % DmaSize /\ from + left <= DmaSize
    BY <1>0 DEF Transport
  <2>2. (seen + (k - 1)) % DmaSize = from + (k - 1)
    <3>1. (seen % DmaSize) + (k - 1) < DmaSize
      BY <1>0, <2>1
    <3> QED BY <1>0, <2>1, <3>1, Further
  <2>3. seen + (k - 1) \in seen..(arrived - 1)
    BY <1>0
  <2>4. dma[(seen + (k - 1)) % DmaSize] = Bytes[seen + (k - 1) + 1]
    BY <2>3 DEF Transport
  <2>5. from + (k - 1) = from + k - 1 /\ seen + (k - 1) + 1 = seen + k /\ seen + k \in 1..Len(Bytes)
    BY <1>0, BytesType
  <2>6. Bytes[seen + k] \in Symbols
    BY <1>0, <2>5, BytesType, ElementOfSeq
  <2> QED BY <2>2, <2>4, <2>5, <2>6
<1>2. Piece(n) = [k \in 1..n |-> dma[from + k - 1]] /\ n \in Nat
  BY <1>0 DEF Piece
<1> QED BY <1>1, <1>2

\* The DMA never stores over a byte that is not consumed.
LEMMA ArriveKeeps == ASSUME Transport, Arrive PROVE Transport'
<1>0. /\ left \in Nat /\ rest \in Nat /\ seen \in Nat /\ arrived \in Nat /\ seen <= arrived
      /\ DmaSize \in Nat \ {0} /\ MaxUnseen \in 1..DmaSize /\ Len(Bytes) \in Nat
      /\ seen + left + rest <= arrived /\ GoodWire(wire)
  BY BytesType, StreamAssumption DEF Transport
<1>1. /\ arrived < Len(Bytes) /\ arrived - seen < MaxUnseen /\ arrived' = arrived + 1
      /\ dma' = [dma EXCEPT ![arrived % DmaSize] = Bytes[arrived + 1]]
      /\ UNCHANGED <<wire, last, from, left, rest, seen>>
  BY DEF Arrive
<1>2. Bytes' = Bytes /\ GoodWire(wire)'
  BY <1>0, <1>1 DEF Bytes, Whole
<1>3. arrived % DmaSize \in 0..(DmaSize - 1)
  BY <1>0, Further
<1>4. ASSUME NEW i \in seen..arrived PROVE dma'[i % DmaSize] = Bytes[i + 1]
  <2>0. i \in Nat /\ i % DmaSize \in 0..(DmaSize - 1)
    BY <1>0, Further
  <2>1. CASE i = arrived
    BY <1>1, <1>3, <2>1 DEF Transport
  <2>2. CASE i < arrived
    <3> DEFINE n == arrived - i
    <3>1. n \in 0..DmaSize /\ n # 0 /\ n # DmaSize /\ i + n = arrived
      BY <1>0, <1>1, <2>0, <2>2
    <3> HIDE DEF n
    <3>2. arrived % DmaSize = IF (i % DmaSize) + n < DmaSize THEN (i % DmaSize) + n ELSE (i % DmaSize) + n - DmaSize
      BY <1>0, <2>0, <3>1, Further
    <3>3. arrived % DmaSize # i % DmaSize
      BY <1>0, <2>0, <3>1, <3>2
    <3>4. i \in seen..(arrived - 1)
      BY <1>0, <2>0, <2>2
    <3> QED BY <1>1, <2>0, <3>3, <3>4 DEF Transport
  <2> QED BY <1>0, <2>0, <2>1, <2>2
<1>5. arrived' \in 0..Len(Bytes) /\ seen' \in 0..arrived' /\ arrived' - seen' <= MaxUnseen /\ seen' + left' + rest' <= arrived'
      /\ arrived' - 1 = arrived
  BY <1>0, <1>1
<1>6. DOMAIN dma' = 0..(DmaSize - 1)
  BY <1>1 DEF Transport
<1>7. \A i \in seen'..(arrived' - 1) : dma'[i % DmaSize] = Bytes'[i + 1]
  BY <1>1, <1>2, <1>4, <1>5
<1> QED BY <1>1, <1>2, <1>5, <1>6, <1>7 DEF Transport

\* An interrupt takes the bytes since the last one, in at most two pieces.
LEMMA InterruptKeeps == ASSUME Transport, Interrupt PROVE Transport'
<1> DEFINE n == arrived - seen
           now == arrived % DmaSize
<1>0. /\ left = 0 /\ rest = 0 /\ seen \in Nat /\ arrived \in Nat /\ seen <= arrived
      /\ DmaSize \in Nat \ {0} /\ n \in 0..DmaSize /\ seen + n = arrived /\ GoodWire(wire)
  BY StreamAssumption, BytesType DEF Transport, Interrupt
<1>1. /\ now # last /\ last' = now /\ from' = last
      /\ IF now > last THEN left' = now - last /\ rest' = 0
                       ELSE left' = DmaSize - last /\ rest' = now
      /\ UNCHANGED <<wire, arrived, dma, seen>>
  BY DEF Interrupt, dmaVars
<1>2. last = seen % DmaSize /\ last \in 0..(DmaSize - 1)
  BY <1>0, Further DEF Transport
<1>3. now = IF last + n < DmaSize THEN last + n ELSE last + n - DmaSize
  BY <1>0, <1>2, Further
<1> HIDE DEF now, n
<1>4. /\ left' \in 0..DmaSize /\ rest' \in 0..DmaSize /\ from' \in 0..(DmaSize - 1)
      /\ left' + rest' = n /\ from' + left' <= DmaSize
      /\ rest' > 0 => left' > 0 /\ from' + left' = DmaSize
  BY <1>0, <1>1, <1>2, <1>3
<1>5. seen' + left' + rest' = arrived
  <2>1. seen' = seen
    BY <1>1
  <2>2. left' \in Nat /\ rest' \in Nat
    BY ONLY <1>0, <1>4
  <2>3. seen \in Nat /\ left' + rest' = n /\ seen + n = arrived
    BY <1>0, <1>4
  <2> QED BY ONLY <2>1, <2>2, <2>3
<1>6. Bytes' = Bytes /\ GoodWire(wire)'
  BY <1>0, <1>1 DEF Bytes, Whole
<1>7. last' = (seen' + left' + rest') % DmaSize
  BY <1>1, <1>5 DEF now
<1>8. from' = seen' % DmaSize
  BY <1>1, <1>2
<1>9. /\ arrived' \in 0..Len(Bytes') /\ seen' \in 0..arrived' /\ arrived' - seen' <= MaxUnseen
      /\ DOMAIN dma' = 0..(DmaSize - 1)
      /\ \A i \in seen'..(arrived' - 1) : dma'[i % DmaSize] = Bytes'[i + 1]
  BY <1>1, <1>6 DEF Transport
<1>10. seen' + left' + rest' <= arrived'
  BY <1>0, <1>1, <1>5
<1> QED BY <1>4, <1>6, <1>7, <1>8, <1>9, <1>10 DEF Transport

\* The loop of aiot_at_hal_recv_handle goes on behind what was consumed.
LEMMA ConsumeKeeps ==
  ASSUME Transport, left > 0, NEW c \in Nat, Consume(c), UNCHANGED last, UNCHANGED dmaVars
  PROVE  Transport' /\ seen' = seen + Least(c, left)
<1> DEFINE n == Least(c, left)
<1>0. /\ left \in 1..DmaSize /\ rest \in 0..DmaSize /\ from \in 0..(DmaSize - 1) /\ seen \in Nat
      /\ arrived \in Nat /\ DmaSize \in Nat \ {0} /\ seen + left + rest <= arrived
      /\ arrived - seen <= MaxUnseen /\ MaxUnseen \in 1..DmaSize
      /\ from = seen % DmaSize /\ from + left <= DmaSize /\ GoodWire(wire) /\ arrived <= Len(Bytes)
      /\ rest > 0 => from + left = DmaSize
  BY StreamAssumption, BytesType DEF Transport
<1>1. n \in 0..left
  BY <1>0 DEF Least
<1>2. /\ seen' = seen + n
      /\ IF n < left THEN from' = from + n /\ left' = left - n /\ rest' = rest
                     ELSE from' = 0 /\ left' = rest /\ rest' = 0
      /\ UNCHANGED <<wire, arrived, dma, last>>
  BY DEF Consume, dmaVars
<1> HIDE DEF n
<1>3. seen' + left' + rest' = seen + left + rest /\ n \in 0..DmaSize
  BY <1>0, <1>1, <1>2
<1>4. (seen + n) % DmaSize = IF from + n < DmaSize THEN from + n ELSE from + n - DmaSize
  BY <1>0, <1>3, Further
<1>5. /\ left' \in 0..DmaSize /\ rest' \in 0..DmaSize /\ from' \in 0..(DmaSize - 1)
      /\ left' > 0 => from' = seen' % DmaSize /\ from' + left' <= DmaSize
      /\ rest' > 0 => left' > 0 /\ from' + left' = DmaSize
  <2>1. CASE n < left
    BY <1>0, <1>1, <1>2, <1>4, <2>1
  <2>2. CASE ~(n < left)
    <3>1. n = left
      BY <1>0, <1>1, <2>2
    <3>2. rest > 0 => (seen + n) % DmaSize = 0
      BY <1>0, <1>4, <3>1
    <3> QED BY <1>0, <1>2, <2>2, <3>2
  <2> QED BY <2>1, <2>2
<1>6. Bytes' = Bytes /\ GoodWire(wire)'
  BY <1>0, <1>2 DEF Bytes, Whole
<1>7. seen' \in 0..arrived' /\ arrived' - seen' <= MaxUnseen /\ seen' >= seen
  BY <1>0, <1>1, <1>2
<1>8. \A i \in seen'..(arrived' - 1) : dma'[i % DmaSize] = Bytes'[i + 1]
  <2>1. \A i \in seen'..(arrived' - 1) : i \in seen..(arrived - 1)
    BY <1>0, <1>1, <1>2
  <2> QED BY <1>2, <1>6, <2>1 DEF Transport
<1>9. last' = (seen' + left' + rest') % DmaSize /\ seen' + left' + rest' <= arrived'
  BY <1>0, <1>2, <1>3 DEF Transport
<1>10. arrived' \in 0..Len(Bytes') /\ DOMAIN dma' = 0..(DmaSize - 1)
  BY <1>2, <1>6 DEF Transport
<1> QED BY <1>2, <1>5, <1>6, <1>7, <1>8, <1>9, <1>10 DEF Transport, n

-----------------------------------------------------------------------------
(* Stream: where the parser is, and what is on the wire there.              *)

\* where item k begins on the wire
Start(k) == Len(Says(wire)[k - 1].bytes)

\* The parser waits for whole tokens: a line end, what follows it of item k, or what
\* is left behind a prompt that was cut off its blank.
TokenLen(k, o) ==
  CASE o = 0 -> 2
    [] o = 3 -> 3
    [] o = 2 /\ wire[k].kind = "line"   -> Len(wire[k].text) + 2
    [] o = 2 /\ wire[k].kind = "prompt" -> 1
    [] o = 2 /\ wire[k].kind = "data"   -> 5 + Len(Figures(wire[k]))

\* where a token begins: o bytes into item k, or behind the last item
Spot(k, o) == /\ k \in 1..(Len(wire) + 1) /\ o \in {0, 2, 3}
              /\ o # 0 => k <= Len(wire)
              /\ o = 3 => wire[k].kind = "prompt"

\* d[l] is what socket l was sent so far: it is read, waiting or lost
Received(d) ==
  /\ got \in [Links -> Seq(Symbols)] /\ data \in [Links -> Seq(Symbols)]
  /\ lost \in [Links -> Nat]
  /\ \A l \in Links : /\ Len(data[l]) <= DataSize
                      /\ lost[l] = 0 => got[l] \o data[l] = d[l]
                      /\ Len(got[l]) + Len(data[l]) + lost[l] = Len(d[l])

\* The parser is o bytes into item k, and rsp_buf holds the beginning of a token.
Reading(k, o) ==
  /\ Spot(k, o) /\ remain = 0
  /\ rsp \in Seq(Symbols) /\ Len(rsp) < TokenLen(k, o)
  /\ seen = Start(k) + o + Len(rsp)
  /\ \A j \in 1..Len(rsp) : rsp[j] = Bytes[Start(k) + o + j]
  /\ lines = IF o = 3 THEN Says(wire)[k].lines ELSE Says(wire)[k - 1].lines
  /\ Received(Says(wire)[k - 1].data)

\* what socket l was sent when all but r bytes of report k have come
Partial(k, r) ==
  [l \in Links |-> IF l = wire[k].link
                   THEN Says(wire)[k - 1].data[l] \o SubSeq(wire[k].body, 1, Len(wire[k].body) - r)
                   ELSE Says(wire)[k - 1].data[l]]

\* The parser is in the body of report k.
Awaiting(k) ==
  /\ k \in 1..Len(wire) /\ wire[k].kind = "data" /\ link = wire[k].link
  /\ rsp = <<>> /\ remain \in 1..Len(wire[k].body) /\ seen + remain = Start(k + 1)
  /\ lines = Says(wire)[k].lines
  /\ Received(Partial(k, remain))

\* The parser waits for a token or is in a report, and nothing else.
Reader == /\ link \in Links
          /\ \/ \E k \in 1..(Len(wire) + 1), o \in {0, 2, 3} : Reading(k, o)
             \/ \E k \in 1..Len(wire) : Awaiting(k)

\* the inductive invariant
StreamInv == Transport /\ Reader

\* The bytes of item k on the wire.
LEMMA WireAt ==
  ASSUME GoodWire(wire), NEW k \in 1..Len(wire)
  PROVE  /\ GoodItem(wire[k]) /\ Says(wire)[k] = Said(Says(wire)[k - 1], wire[k])
         /\ Says(wire)[k - 1] \in Heard /\ Says(wire)[k] \in Heard
         /\ Start(k) \in Nat /\ Start(k + 1) = Start(k) + Len(ItemBytes(wire[k]))
         /\ Start(k + 1) <= Len(Bytes)
         /\ \A j \in 1..Len(ItemBytes(wire[k])) : Bytes[Start(k) + j] = ItemBytes(wire[k])[j]
<1> DEFINE s == Says(wire)[k - 1]
           t == Says(wire)[k]
           b == ItemBytes(wire[k])
<1>0. Len(wire) \in Nat /\ k - 1 \in 0..Len(wire) /\ k \in 0..Len(wire) /\ k + 1 - 1 = k
      /\ Len(wire) \in k..Len(wire) /\ wire \in Seq(Items)
  BY DEF GoodWire
<1>1. GoodItem(wire[k])
  BY DEF GoodWire, GoodItem
<1>2. t = Said(s, wire[k])
  BY <1>0, SaysRecursion
<1>3. s \in Heard /\ t \in Heard
  BY <1>0, SaysType
<1>4. t.bytes = s.bytes \o b
  <2>1. Said(s, wire[k]).bytes = s.bytes \o b
    BY DEF Said
  <2> QED BY <1>2, <2>1
<1>5. s.bytes \in Seq(Symbols) /\ t.bytes \in Seq(Symbols) /\ b \in Seq(Symbols)
  BY <1>1, <1>3, SpellsType DEF Heard
<1>6. Begins(t.bytes, Bytes)
  <2>1. Grows(t, Whole)
    BY <1>0, SaysGrows DEF Whole
  <2> QED BY <2>1 DEF Grows, Bytes
<1>7. Start(k) = Len(s.bytes) /\ Start(k + 1) = Len(t.bytes)
  BY <1>0 DEF Start
<1> HIDE DEF s, t, b
<1>8. /\ Len(t.bytes) = Len(s.bytes) + Len(b)
      /\ \A j \in 1..Len(b) : t.bytes[Len(s.bytes) + j] = b[j]
  <2> DEFINE u == s.bytes
  <2>1. u \in Seq(Symbols)
    BY <1>5
  <2> HIDE DEF u
  <2>2. /\ Len(u \o b) = Len(u) + Len(b)
        /\ \A j \in 1..Len(b) : (u \o b)[Len(u) + j] = b[j]
    BY ONLY <1>5, <2>1, Joined, SMT
  <2> QED BY <1>4, <2>2 DEF u
<1>9. Len(s.bytes) \in Nat /\ Len(b) \in Nat
  BY <1>5, LenProperties
<1>10. Len(t.bytes) <= Len(Bytes)
  BY <1>6 DEF Begins
<1>11. ASSUME NEW j \in 1..Len(b) PROVE Bytes[Len(s.bytes) + j] = b[j]
  <2>1. Len(s.bytes) + j \in 1..Len(t.bytes)
    BY <1>8, <1>9
  <2> QED BY <1>6, <1>8, <2>1 DEF Begins
<1>12. /\ Start(k) \in Nat /\ Start(k + 1) = Start(k) + Len(b) /\ Start(k + 1) <= Len(Bytes)
       /\ \A j \in 1..Len(b) : Bytes[Start(k) + j] = b[j]
  BY <1>7, <1>8, <1>9, <1>10, <1>11
<1> QED BY <1>1, <1>2, <1>3, <1>12 DEF s, t, b

\* The items begin at the first byte of the wire and end at its last.
LEMMA WireEnds ==
  ASSUME GoodWire(wire)
  PROVE  Start(1) = 0 /\ Start(Len(wire) + 1) = Len(Bytes)
<1>1. Len(wire) \in Nat /\ wire \in Seq(Items) /\ 1 - 1 = 0 /\ Len(wire) + 1 - 1 = Len(wire)
  BY DEF GoodWire
<1>2. Says(wire)[0] = Nothing
  BY <1>1, SaysRecursion
<1>3. Start(1) = Len(Nothing.bytes)
  BY <1>1, <1>2 DEF Start
<1>4. Nothing.bytes = <<>>
  BY DEF Nothing
<1>5. Start(Len(wire) + 1) = Len(Bytes)
  BY <1>1 DEF Start, Bytes, Whole
<1> QED BY <1>3, <1>4, <1>5

\* The bytes a line, a prompt or a report has on the wire.
LEMMA LineOnWire ==
  ASSUME GoodWire(wire), NEW k \in 1..Len(wire), wire[k].kind = "line"
  PROVE  LET n == Len(wire[k].text)
             p == Start(k) + 2 IN
         /\ wire[k].text \in Seq(Symbols \ {"\r", "\n", ">", "recv"}) /\ wire[k].text \in Seq(Symbols)
         /\ n \in Nat \ {0} /\ n + 2 <= BufSize
         /\ wire[k].text[1] # "blank" /\ wire[k].text[n] # "blank"
         /\ p + n + 2 = Start(k + 1)
         /\ \A j \in 1..n : Bytes[p + j] = wire[k].text[j]
         /\ Bytes[p + n + 1] = "\r" /\ Bytes[p + n + 2] = "\n"
<1> DEFINE t == wire[k].text
           n == Len(t)
           p == Start(k) + 2
           b == ItemBytes(wire[k])
<1>1. /\ t \in Seq(Symbols \ {"\r", "\n", ">", "recv"})
      /\ n \in Nat \ {0} /\ n + 2 <= BufSize /\ t[1] # "blank" /\ t[n] # "blank"
      /\ Len(b) = n + 4
      /\ \A j \in 1..n : b[2 + j] = t[j]
      /\ b[n + 3] = "\r" /\ b[n + 4] = "\n"
  BY WireAt, LineSpells
<1>2. /\ Start(k) \in Nat /\ Start(k + 1) = Start(k) + Len(b)
      /\ \A j \in 1..Len(b) : Bytes[Start(k) + j] = b[j]
  BY WireAt
<1>3. t \in Seq(Symbols)
  <2>1. Symbols \ {"\r", "\n", ">", "recv"} \subseteq Symbols
    OBVIOUS
  <2> HIDE DEF t
  <2> QED BY <1>1, <2>1, SeqMonotonic
<1> HIDE DEF t, b
<1>4. p + n + 2 = Start(k + 1)
  BY <1>1, <1>2
<1>5. ASSUME NEW j \in 1..n PROVE Bytes[p + j] = t[j]
  <2>1. 2 + j \in 1..Len(b) /\ Start(k) + (2 + j) = p + j
    BY <1>1, <1>2
  <2> QED BY <1>1, <1>2, <2>1
<1>6. Bytes[p + n + 1] = "\r" /\ Bytes[p + n + 2] = "\n"
  <2>1. n + 3 \in 1..Len(b) /\ n + 4 \in 1..Len(b) /\ Start(k) + (n + 3) = p + n + 1
        /\ Start(k) + (n + 4) = p + n + 2
    BY <1>1, <1>2
  <2> QED BY <1>1, <1>2, <2>1
<1> QED BY <1>1, <1>3, <1>4, <1>5, <1>6 DEF t

\* The bytes a prompt has on the wire.
LEMMA PromptOnWire ==
  ASSUME GoodWire(wire), NEW k \in 1..Len(wire), wire[k].kind = "prompt"
  PROVE  /\ Start(k + 1) = Start(k) + 4
         /\ Bytes[Start(k) + 3] = ">" /\ Bytes[Start(k) + 4] = "blank"
<1>1. /\ Len(ItemBytes(wire[k])) = 4 /\ ItemBytes(wire[k])[3] = ">" /\ ItemBytes(wire[k])[4] = "blank"
  BY WireAt, PromptSpells
<1>2. 3 \in 1..4 /\ 4 \in 1..4
  OBVIOUS
<1> QED BY <1>1, <1>2, WireAt

\* The bytes a report has on the wire.
LEMMA ReportOnWire ==
  ASSUME GoodWire(wire), NEW k \in 1..Len(wire), wire[k].kind = "data"
  PROVE  LET d == Figures(wire[k])
             n == Len(d)
             b == wire[k].body
             p == Start(k) + 2 IN
         /\ d \in Seq(Digits) /\ n \in Nat \ {0} /\ Number(d) = Len(b) /\ n + 5 <= BufSize
         /\ b \in Seq(Symbols) /\ Len(b) \in Nat \ {0} /\ wire[k].link \in Links
         /\ p + 5 + n + Len(b) = Start(k + 1)
         /\ Bytes[p + 1] = "+" /\ Bytes[p + 2] = "recv" /\ Bytes[p + 3] = wire[k].link
         /\ \A j \in 1..n : Bytes[p + 3 + j] = d[j]
         /\ Bytes[p + 3 + n + 1] = "\r" /\ Bytes[p + 3 + n + 2] = "\n"
         /\ \A j \in 1..Len(b) : Bytes[p + 5 + n + j] = b[j]
<1> DEFINE d == Figures(wire[k])
           n == Len(d)
           b == wire[k].body
           p == Start(k) + 2
           i == ItemBytes(wire[k])
           l == wire[k].link
<1>1. /\ d \in Seq(Digits) /\ n \in Nat \ {0} /\ Number(d) = Len(b) /\ 3 + n + 2 <= BufSize
      /\ b \in Seq(Symbols) /\ Len(b) \in Nat \ {0} /\ l \in Links
  BY WireAt, FiguresType
<1>2. /\ Len(i) = 7 + n + Len(b)
      /\ i[3] = "+" /\ i[4] = "recv" /\ i[5] = l
      /\ \A j \in 1..n : i[5 + j] = d[j]
      /\ i[6 + n] = "\r" /\ i[7 + n] = "\n"
      /\ \A j \in 1..Len(b) : i[7 + n + j] = b[j]
  BY WireAt, DataSpells
<1>3. /\ Start(k) \in Nat /\ Start(k + 1) = Start(k) + Len(i)
      /\ \A j \in 1..Len(i) : Bytes[Start(k) + j] = i[j]
  BY WireAt
<1> DEFINE m == Len(b)
           s == Start(k)
           c == Len(i)
<1>4. n \in Nat \ {0} /\ m \in Nat \ {0} /\ s \in Nat /\ c = 7 + n + m /\ 3 + n + 2 <= BufSize /\ BufSize \in Nat
  BY <1>1, <1>2, <1>3, StreamAssumption
<1>5. n + 5 <= BufSize /\ p + 5 + n + m = Start(k + 1)
  <2>1. Start(k + 1) = s + c
    BY <1>3
  <2>2. n + 5 <= BufSize /\ s + 2 + 5 + n + m = s + c
    <3> HIDE DEF n, m, s, c
    <3> QED BY ONLY <1>4
  <2> QED BY <2>1, <2>2
<1> HIDE DEF d, b, i, l
<1>6. Bytes[p + 1] = "+" /\ Bytes[p + 2] = "recv" /\ Bytes[p + 3] = l
  <2>1. /\ 3 \in 1..c /\ 4 \in 1..c /\ 5 \in 1..c
        /\ s + 3 = s + 2 + 1 /\ s + 4 = s + 2 + 2 /\ s + 5 = s + 2 + 3
    <3> HIDE DEF n, m, s, c
    <3> QED BY ONLY <1>4
  <2> QED BY <1>2, <1>3, <2>1
<1>7. ASSUME NEW j \in 1..n PROVE Bytes[p + 3 + j] = d[j]
  <2>1. 5 + j \in 1..c /\ s + (5 + j) = s + 2 + 3 + j
    <3>1. j \in 1..n
      OBVIOUS
    <3> HIDE DEF n, m, s, c
    <3> QED BY ONLY <1>4, <3>1
  <2> QED BY <1>2, <1>3, <2>1
<1>8. Bytes[p + 3 + n + 1] = "\r" /\ Bytes[p + 3 + n + 2] = "\n"
  <2>1. 6 + n \in 1..c /\ 7 + n \in 1..c /\ s + (6 + n) = s + 2 + 3 + n + 1
        /\ s + (7 + n) = s + 2 + 3 + n + 2
    <3> HIDE DEF n, m, s, c
    <3> QED BY ONLY <1>4
  <2> QED BY <1>2, <1>3, <2>1
<1>9. ASSUME NEW j \in 1..m PROVE Bytes[p + 5 + n + j] = b[j]
  <2>1. 7 + n + j \in 1..c /\ s + (7 + n + j) = s + 2 + 5 + n + j
    <3>1. j \in 1..m
      OBVIOUS
    <3> HIDE DEF n, m, s, c
    <3> QED BY ONLY <1>4, <3>1
  <2> QED BY <1>2, <1>3, <2>1
<1> QED BY <1>1, <1>5, <1>6, <1>7, <1>8, <1>9 DEF d, b, l

\* Every item begins with a line end.
LEMMA BeginningOnWire ==
  ASSUME GoodWire(wire), NEW k \in 1..Len(wire)
  PROVE  /\ Start(k) \in Nat /\ Start(k) + 4 <= Start(k + 1) /\ Start(k + 1) <= Len(Bytes)
         /\ Bytes[Start(k) + 1] = "\r" /\ Bytes[Start(k) + 2] = "\n"
<1> DEFINE i == ItemBytes(wire[k])
<1>1. /\ Start(k) \in Nat /\ Start(k + 1) = Start(k) + Len(i) /\ Start(k + 1) <= Len(Bytes)
      /\ \A j \in 1..Len(i) : Bytes[Start(k) + j] = i[j]
  BY WireAt
<1>2. i \in Seq(Symbols) /\ Len(i) >= 4 /\ i[1] = "\r" /\ i[2] = "\n"
  BY WireAt, SpellsType
<1>3. Len(i) \in Nat
  BY <1>2, LenProperties
<1> HIDE DEF i
<1>4. 1 \in 1..Len(i) /\ 2 \in 1..Len(i)
  BY <1>2, <1>3
<1> QED BY <1>1, <1>2, <1>3, <1>4

\* An item is a line, a prompt or a report.
LEMMA KindIs == ASSUME GoodWire(wire), NEW k \in 1..Len(wire) PROVE wire[k].kind \in {"line", "prompt", "data"}
BY DEF GoodWire, Items

\* Every token fits rsp_buf.
LEMMA TokenFits ==
  ASSUME GoodWire(wire), NEW k, NEW o, Spot(k, o)
  PROVE  /\ TokenLen(k, o) \in Nat \ {0} /\ TokenLen(k, o) <= BufSize
         /\ o \in Nat /\ k \in Nat /\ Start(k) \in Nat /\ Len(wire) \in Nat
<1>0. BufSize \in Nat /\ BufSize >= 3 /\ Len(wire) \in Nat
  BY StreamAssumption, BytesType
<1>1. k \in 1..(Len(wire) + 1) /\ o \in {0, 2, 3} /\ (o # 0 => k \in 1..Len(wire))
  BY <1>0 DEF Spot
<1>2. Start(k) \in Nat
  <2>1. CASE k \in 1..Len(wire)
    BY <2>1, WireAt
  <2>2. CASE k = Len(wire) + 1
    BY <2>2, WireEnds, BytesType
  <2> QED BY <1>0, <1>1, <2>1, <2>2
<1>3. CASE o # 2
  <2>1. o = 0 => TokenLen(k, o) = 2
    BY DEF TokenLen
  <2>2. o = 3 => TokenLen(k, o) = 3
    BY DEF TokenLen
  <2> QED BY <1>0, <1>1, <1>2, <1>3, <2>1, <2>2
<1>4. CASE o = 2
  <2>1. k \in 1..Len(wire) /\ wire[k].kind \in {"line", "prompt", "data"}
    BY <1>1, <1>4, KindIs
  <2>2. CASE wire[k].kind = "line"
    <3>1. TokenLen(k, o) = Len(wire[k].text) + 2
      BY <1>4, <2>2 DEF TokenLen
    <3> QED BY <1>0, <1>1, <1>2, <1>4, <2>1, <2>2, <3>1, LineOnWire
  <2>3. CASE wire[k].kind = "prompt"
    BY <1>0, <1>1, <1>2, <1>4, <2>3 DEF TokenLen
  <2>4. CASE wire[k].kind = "data"
    <3>1. TokenLen(k, o) = 5 + Len(Figures(wire[k]))
      BY <1>4, <2>4 DEF TokenLen
    <3>2. Len(Figures(wire[k])) \in Nat /\ Len(Figures(wire[k])) + 5 <= BufSize
      BY <2>1, <2>4, ReportOnWire
    <3> QED BY <1>0, <1>1, <1>2, <1>4, <3>1, <3>2
  <2> QED BY <2>1, <2>2, <2>3, <2>4
<1> QED BY <1>0, <1>1, <1>2, <1>3, <1>4

-----------------------------------------------------------------------------
(* Stream: what the parser finds in rsp_buf and the piece.                  *)

\* What rsp_buf and the piece hold together are the next bytes of the wire.
Held(k, o) == /\ k \in 1..Len(wire) /\ Start(k) + o \in Nat
              /\ Added \in 1..left
              /\ Filled \in Seq(Symbols) /\ Len(Filled) = Len(rsp) + Added
              /\ Len(Filled) \in Nat \ {0} /\ Len(Filled) <= BufSize
              /\ Len(Filled) < BufSize => Added = left
              /\ Start(k) + o + Len(Filled) <= Len(Bytes)
              /\ \A j \in 1..Len(Filled) : Filled[j] = Bytes[Start(k) + o + j]

\* While the parser waits for a token, rsp_buf and the piece are such bytes.
LEMMA FilledIs ==
  ASSUME Transport, NEW k, NEW o, Reading(k, o), left > 0
  PROVE  Held(k, o)
<1> DEFINE p == Start(k) + o
           m == Len(rsp)
<1>0. /\ left \in Nat \ {0} /\ rest \in Nat /\ seen + left + rest <= arrived /\ arrived \in Nat
      /\ arrived <= Len(Bytes) /\ Len(Bytes) \in Nat /\ BufSize \in Nat /\ seen \in Nat
      /\ GoodWire(wire) /\ Len(wire) \in Nat
  BY BytesType, StreamAssumption DEF Transport
<1>1. Spot(k, o) /\ rsp \in Seq(Symbols) /\ m < TokenLen(k, o) /\ seen = p + m
      /\ \A j \in 1..m : rsp[j] = Bytes[p + j]
  BY DEF Reading
<1>2. TokenLen(k, o) \in Nat /\ TokenLen(k, o) <= BufSize /\ o \in Nat /\ Start(k) \in Nat
  BY <1>0, <1>1, TokenFits
<1>3. m \in Nat /\ p \in Nat
  BY <1>1, <1>2, LenProperties
<1>4. k \in 1..Len(wire)
  <2>1. k \in 1..(Len(wire) + 1) /\ (o # 0 => k <= Len(wire))
    BY <1>1 DEF Spot
  <2>2. CASE k = Len(wire) + 1
    <3>1. Start(k) = Len(Bytes) /\ o = 0
      BY <1>0, <1>2, <2>1, <2>2, WireEnds
    <3>2. p = Len(Bytes)
      BY <1>0, <3>1
    <3> HIDE DEF p, m
    <3> QED BY <1>0, <1>1, <1>3, <3>2
  <2> QED BY <1>0, <2>1, <2>2
<1> HIDE DEF p, m
<1>5. m < BufSize
  BY <1>0, <1>1, <1>2, <1>3
<1>6. Added \in 1..left /\ m + Added <= BufSize /\ (m + Added < BufSize => Added = left)
  <2>1. Added = IF left <= BufSize - m THEN left ELSE BufSize - m
    BY DEF Added, Least, m
  <2> QED BY <1>0, <1>3, <1>5, <2>1
<1> DEFINE n == Added
           v == Piece(n)
<1>7. v \in Seq(Symbols) /\ Len(v) = n /\ \A j \in 1..n : v[j] = Bytes[seen + j]
  BY <1>0, <1>6, PieceIs
<1>8. Filled = rsp \o v
  BY DEF Filled
<1> HIDE DEF n, v
<1>9. /\ rsp \o v \in Seq(Symbols) /\ Len(rsp \o v) = Len(rsp) + Len(v)
      /\ \A j \in 1..Len(rsp) : (rsp \o v)[j] = rsp[j]
      /\ \A j \in 1..Len(v) : (rsp \o v)[Len(rsp) + j] = v[j]
  <2>1. rsp \in Seq(Symbols) /\ v \in Seq(Symbols)
    BY <1>1, <1>7
  <2> QED BY ONLY <2>1, Joined, SMT
<1>10. Filled \in Seq(Symbols) /\ Len(Filled) = m + n
  BY <1>7, <1>8, <1>9 DEF m
<1>11. ASSUME NEW j \in 1..(m + n) PROVE Filled[j] = Bytes[p + j]
  <2>1. CASE j <= m
    <3>1. j \in 1..m
      BY <1>3, <1>6, <2>1 DEF n
    <3>2. Filled[j] = rsp[j]
      BY <1>8, <1>9, <3>1 DEF m
    <3> QED BY <1>1, <3>1, <3>2
  <2>2. CASE ~(j <= m)
    <3> DEFINE i == j - m
    <3>1. i \in 1..n /\ m + i = j /\ seen + i = p + j
      BY <1>1, <1>3, <1>6, <2>2 DEF n
    <3> HIDE DEF i
    <3>2. Filled[m + i] = v[i]
      BY <1>7, <1>8, <1>9, <3>1 DEF m
    <3> QED BY <1>7, <3>1, <3>2
  <2> QED BY <2>1, <2>2
<1>12. m + n \in Nat \ {0} /\ p + (m + n) <= Len(Bytes)
  BY <1>0, <1>1, <1>3, <1>6 DEF n
<1> QED BY <1>3, <1>4, <1>6, <1>10, <1>11, <1>12 DEF n, m, p, Held

\* When rsp_buf and the piece hold no head, no line end and no prompt.
LEMMA NothingFound ==
  ASSUME Filled \in Seq(Symbols),
         \A i \in 1..(Len(Filled) - 1) : ~Pair(Filled, "\r", "\n", i) /\ ~Pair(Filled, "+", "recv", i),
         \A i \in 1..Len(Filled) : Filled[i] # ">"
  PROVE  ~HeadComplete /\ LineEnd = 0
<1>0. {"\r", "\n", "+", "recv", ">"} \subseteq Symbols
  BY StreamAssumption DEF Blanks
<1>1. Find(Filled, CRLF) = 0
  BY <1>0, FindIs DEF CRLF
<1>2. HeadAt = 0
  BY <1>0, FindIs DEF HeadAt
<1>3. Find(Filled, <<">">>) = 0
  BY <1>0, FindOneIs
<1>4. ~HeadComplete
  BY <1>2 DEF HeadComplete, Scanned
<1> QED BY <1>1, <1>3, <1>4 DEF LineEnd

\* When a line ends at m and no head stands before.
LEMMA LineFound ==
  ASSUME Filled \in Seq(Symbols), NEW m \in 1..(Len(Filled) - 1),
         Pair(Filled, "\r", "\n", m),
         \A i \in 1..(m - 1) : ~Pair(Filled, "\r", "\n", i),
         \A i \in 1..m : ~Pair(Filled, "+", "recv", i)
  PROVE  ~HeadComplete /\ LineEnd = m
<1>0. {"\r", "\n", "+", "recv", ">"} \subseteq Symbols /\ Len(Filled) \in Nat
  BY StreamAssumption, LenProperties DEF Blanks
<1>1. Find(Filled, CRLF) = m
  BY <1>0, FindIs DEF CRLF
<1>2. m \in Nat /\ \A i \in 1..(Len(Filled) - 1) : i <= m => ~Pair(Filled, "+", "recv", i)
  BY <1>0
<1>3. (HeadAt = 0 \/ HeadAt > m) /\ HeadAt \in Nat
  BY <1>0, <1>2, FindIs DEF HeadAt
<1>4. ~HeadComplete
  BY <1>1, <1>2, <1>3, <1>0 DEF HeadComplete, Scanned
<1> QED BY <1>0, <1>1, <1>4 DEF LineEnd

\* When there is neither head nor line end, but a prompt.
LEMMA PromptFound ==
  ASSUME Filled \in Seq(Symbols), Len(Filled) >= 1, Filled[1] = ">",
         \A i \in 1..(Len(Filled) - 1) : ~Pair(Filled, "\r", "\n", i) /\ ~Pair(Filled, "+", "recv", i)
  PROVE  ~HeadComplete /\ LineEnd = 1
<1>0. {"\r", "\n", "+", "recv", ">"} \subseteq Symbols /\ Len(Filled) \in Nat
  BY StreamAssumption, LenProperties DEF Blanks
<1>1. Find(Filled, CRLF) = 0
  BY <1>0, FindIs DEF CRLF
<1>2. HeadAt = 0
  BY <1>0, FindIs DEF HeadAt
<1>3. Find(Filled, <<">">>) = 1
  <2>1. 1 \in 1..Len(Filled) /\ \A i \in 1..(1 - 1) : Filled[i] # ">"
    BY <1>0
  <2> QED BY <1>0, <2>1, FindOneIs
<1>4. ~HeadComplete
  BY <1>2 DEF HeadComplete, Scanned
<1> QED BY <1>1, <1>3, <1>4 DEF LineEnd

\* The verdict of the parser on less than a token: it waits.
LEMMA WaitsAtStart ==
  ASSUME Transport, NEW k, Reading(k, 0), left > 0, Len(Filled) < 2
  PROVE  ~HeadComplete /\ LineEnd = 0
<1>h. Held(k, 0)
  BY FilledIs
<1>1. /\ k \in 1..Len(wire) /\ Filled \in Seq(Symbols) /\ Len(Filled) \in Nat \ {0}
      /\ \A j \in 1..Len(Filled) : Filled[j] = Bytes[Start(k) + 0 + j]
  BY <1>h DEF Held
<1>2. /\ Len(Filled) = 1 /\ Start(k) \in Nat /\ Bytes[Start(k) + 1] = "\r"
  <2>1. Len(Filled) = 1
    <3> DEFINE m == Len(Filled)
    <3>1. m \in Nat \ {0} /\ m < 2
      BY <1>1
    <3>2. m = 1
      <4> HIDE DEF m
      <4> QED BY ONLY <3>1
    <3> QED BY <3>2
  <2> QED BY <1>1, <2>1, BeginningOnWire DEF Transport
<1>3. Filled[1] = "\r"
  <2>1. 1 \in 1..Len(Filled) /\ Start(k) + 0 + 1 = Start(k) + 1
    BY <1>2
  <2> QED BY <1>1, <1>2, <2>1
<1> QED BY <1>1, <1>2, <1>3, NothingFound

\* Behind a prompt whose blank was cut off, the blank and the next line end are awaited.
LEMMA WaitsBehindPrompt ==
  ASSUME Transport, NEW k, Reading(k, 3), left > 0
  PROVE  /\ Start(k) \in Nat /\ Start(k + 1) = Start(k) + 4 /\ Filled[1] = "blank"
         /\ Len(Filled) >= 2 => k + 1 \in 1..Len(wire) /\ Filled[2] = "\r"
         /\ Len(Filled) >= 3 => Filled[3] = "\n"
         /\ Len(Filled) < 3 => ~HeadComplete /\ LineEnd = 0
<1>h. Held(k, 3)
  BY FilledIs
<1>0. GoodWire(wire) /\ wire[k].kind = "prompt" /\ Len(Bytes) \in Nat /\ Len(wire) \in Nat
  BY BytesType DEF Transport, Reading, Spot
<1>1. /\ k \in 1..Len(wire) /\ Filled \in Seq(Symbols) /\ Len(Filled) \in Nat \ {0}
      /\ Start(k) + 3 + Len(Filled) <= Len(Bytes)
      /\ \A j \in 1..Len(Filled) : Filled[j] = Bytes[Start(k) + 3 + j]
  BY <1>h DEF Held
<1>2. /\ Start(k) \in Nat /\ Start(k + 1) = Start(k) + 4 /\ Bytes[Start(k) + 4] = "blank"
  BY <1>0, <1>1, PromptOnWire, BeginningOnWire
<1>3. Filled[1] = "blank"
  <2>1. 1 \in 1..Len(Filled) /\ Start(k) + 3 + 1 = Start(k) + 4
    BY <1>1, <1>2
  <2> QED BY <1>1, <1>2, <2>1
<1>4. ASSUME Len(Filled) >= 2 PROVE k + 1 \in 1..Len(wire) /\ Filled[2] = "\r"
  <2>1. k + 1 \in 1..Len(wire)
    <3>1. k # Len(wire)
      <4> SUFFICES ASSUME k = Len(wire) PROVE FALSE
        OBVIOUS
      <4>1. Start(k + 1) = Len(Bytes)
        BY <1>0, WireEnds
      <4> QED BY <1>0, <1>1, <1>2, <1>4, <4>1
    <3> QED BY <1>0, <1>1, <3>1
  <2>2. Bytes[Start(k + 1) + 1] = "\r"
    BY <1>0, <2>1, BeginningOnWire
  <2>3. 2 \in 1..Len(Filled) /\ Start(k) + 3 + 2 = Start(k + 1) + 1
    BY <1>1, <1>2, <1>4
  <2> QED BY <1>1, <2>1, <2>2, <2>3
<1>5. ASSUME Len(Filled) >= 3 PROVE Filled[3] = "\n"
  <2>1. k + 1 \in 1..Len(wire)
    BY <1>1, <1>4, <1>5
  <2>2. Bytes[Start(k + 1) + 2] = "\n"
    BY <1>0, <2>1, BeginningOnWire
  <2>3. 3 \in 1..Len(Filled) /\ Start(k) + 3 + 3 = Start(k + 1) + 2
    BY <1>1, <1>2, <1>5
  <2> QED BY <1>1, <2>2, <2>3
<1>6. ASSUME Len(Filled) < 3 PROVE ~HeadComplete /\ LineEnd = 0
  <2>1. Len(Filled) \in {1, 2}
    <3> DEFINE m == Len(Filled)
    <3>1. m \in Nat \ {0} /\ m < 3
      BY <1>1, <1>6
    <3>2. m \in {1, 2}
      <4> HIDE DEF m
      <4> QED BY ONLY <3>1
    <3> QED BY <3>2
  <2>2. \A i \in 1..(Len(Filled) - 1) : ~Pair(Filled, "\r", "\n", i) /\ ~Pair(Filled, "+", "recv", i)
    BY <1>3, <2>1 DEF Pair
  <2>3. \A i \in 1..Len(Filled) : Filled[i] # ">"
    BY <1>3, <1>4, <2>1
  <2> QED BY <1>1, <2>2, <2>3, NothingFound
<1> QED BY <1>2, <1>3, <1>4, <1>5, <1>6

\* What rsp_buf and the piece hold of a line.
LEMMA LineHeld ==
  ASSUME Transport, NEW k, Reading(k, 2), left > 0, wire[k].kind = "line"
  PROVE  LET t == wire[k].text
             n == Len(t)
             m == Len(Filled) IN
         /\ n \in Nat \ {0} /\ t \in Seq(Symbols) /\ m \in Nat \ {0} /\ Filled \in Seq(Symbols)
         /\ \A j \in 1..n : j <= m => Filled[j] = t[j] /\ Filled[j] \notin {"\r", "\n", ">", "recv"}
         /\ n + 1 <= m => Filled[n + 1] = "\r"
         /\ n + 2 <= m => Filled[n + 2] = "\n"
         /\ Start(k) + 2 + n + 2 = Start(k + 1)
<1> DEFINE t == wire[k].text
           n == Len(t)
           m == Len(Filled)
           p == Start(k) + 2
<1>h. Held(k, 2)
  BY FilledIs
<1>1. /\ k \in 1..Len(wire) /\ GoodWire(wire) /\ Filled \in Seq(Symbols) /\ m \in Nat \ {0}
      /\ \A j \in 1..m : Filled[j] = Bytes[p + j]
  BY <1>h DEF Transport, Held
<1>2. /\ t \in Seq(Symbols \ {"\r", "\n", ">", "recv"}) /\ t \in Seq(Symbols)
      /\ n \in Nat \ {0} /\ p + n + 2 = Start(k + 1)
      /\ \A j \in 1..n : Bytes[p + j] = t[j]
      /\ Bytes[p + n + 1] = "\r" /\ Bytes[p + n + 2] = "\n"
  BY <1>1, LineOnWire
<1>3. p \in Nat
  BY <1>1, BeginningOnWire
<1> HIDE DEF t, p
<1>4. ASSUME NEW j \in 1..n, j <= m PROVE Filled[j] = t[j] /\ Filled[j] \notin {"\r", "\n", ">", "recv"}
  <2>1. t[j] \in Symbols \ {"\r", "\n", ">", "recv"}
    BY <1>2, ElementOfSeq
  <2>2. j \in 1..m
    BY <1>1, <1>2, <1>4
  <2> QED BY <1>1, <1>2, <2>1, <2>2
<1>5. ASSUME n + 1 <= m PROVE Filled[n + 1] = "\r"
  <2>1. n + 1 \in 1..m /\ p + (n + 1) = p + n + 1
    BY <1>1, <1>2, <1>3, <1>5
  <2> QED BY <1>1, <1>2, <2>1
<1>6. ASSUME n + 2 <= m PROVE Filled[n + 2] = "\n"
  <2>1. n + 2 \in 1..m /\ p + (n + 2) = p + n + 2
    BY <1>1, <1>2, <1>3, <1>6
  <2> QED BY <1>1, <1>2, <2>1
<1> QED BY <1>1, <1>2, <1>4, <1>5, <1>6 DEF t, p

\* A line is told complete by its line end, not before.
LEMMA LineVerdict ==
  ASSUME Transport, NEW k, Reading(k, 2), left > 0, wire[k].kind = "line"
  PROVE  LET n == Len(wire[k].text)
             m == Len(Filled) IN
         /\ ~HeadComplete
         /\ m < n + 2 => LineEnd = 0
         /\ m >= n + 2 => LineEnd = n + 1
<1> DEFINE t == wire[k].text
           n == Len(t)
           m == Len(Filled)
<1>1. /\ n \in Nat \ {0} /\ m \in Nat \ {0} /\ Filled \in Seq(Symbols)
      /\ \A j \in 1..n : j <= m => Filled[j] \notin {"\r", "\n", ">", "recv"}
      /\ n + 1 <= m => Filled[n + 1] = "\r"
      /\ n + 2 <= m => Filled[n + 2] = "\n"
  BY LineHeld
<1> HIDE DEF n
<1>2. ASSUME NEW i \in 1..n, i <= m - 1 PROVE ~Pair(Filled, "\r", "\n", i) /\ ~Pair(Filled, "+", "recv", i)
  <2>1. i <= m /\ Filled[i] # "\r"
    BY <1>1, <1>2
  <2>2. Filled[i + 1] # "recv"
    <3>1. CASE i = n
      BY <1>1, <1>2, <3>1
    <3>2. CASE i # n
      <4>1. i + 1 \in 1..n /\ i + 1 <= m
        BY <1>1, <1>2, <3>2
      <4> QED BY <1>1, <4>1
    <3> QED BY <3>1, <3>2
  <2> QED BY <2>1, <2>2 DEF Pair
<1>3. CASE m < n + 2
  <2>1. \A i \in 1..(m - 1) : i \in 1..n /\ i <= m - 1
    BY <1>1, <1>3
  <2>2. \A i \in 1..(m - 1) : ~Pair(Filled, "\r", "\n", i) /\ ~Pair(Filled, "+", "recv", i)
    BY <1>2, <2>1
  <2>3. \A i \in 1..m : Filled[i] # ">"
    <3>1. \A i \in 1..m : i \in 1..n \/ i = n + 1
      BY <1>1, <1>3
    <3> QED BY <1>1, <3>1
  <2> QED BY <1>1, <1>3, <2>2, <2>3, NothingFound DEF n
<1>4. CASE m >= n + 2
  <2> DEFINE e == n + 1
  <2>1. e \in 1..(m - 1) /\ \A i \in 1..(e - 1) : i \in 1..n /\ i <= m - 1
    BY <1>1, <1>4
  <2>2. Filled[e] = "\r" /\ Filled[e + 1] = "\n"
    BY <1>1, <1>4
  <2>3. Pair(Filled, "\r", "\n", e) /\ ~Pair(Filled, "+", "recv", e)
    BY <2>2 DEF Pair
  <2>4. \A i \in 1..e : i \in 1..(e - 1) \/ i = e
    BY <1>1
  <2> HIDE DEF e
  <2>5. (\A i \in 1..(e - 1) : ~Pair(Filled, "\r", "\n", i)) /\ (\A i \in 1..e : ~Pair(Filled, "+", "recv", i))
    BY <1>2, <2>1, <2>3, <2>4
  <2>6. ~HeadComplete /\ LineEnd = e
    BY <1>1, <2>1, <2>3, <2>5, LineFound
  <2> QED BY <1>1, <1>4, <2>6 DEF e, n
<1> QED BY <1>1, <1>3, <1>4 DEF n

\* What rsp_buf and the piece hold of the head of a report.
LEMMA ReportHeld ==
  ASSUME Transport, NEW k, Reading(k, 2), left > 0, wire[k].kind = "data"
  PROVE  LET d == Figures(wire[k])
             n == Len(d)
             m == Len(Filled) IN
         /\ n \in Nat \ {0} /\ d \in Seq(Digits) /\ m \in Nat \ {0} /\ Filled \in Seq(Symbols)
         /\ Filled[1] = "+"
         /\ m >= 2 => Filled[2] = "recv"
         /\ m >= 3 => Filled[3] = wire[k].link
         /\ \A j \in 1..n : 3 + j <= m => Filled[3 + j] = d[j]
         /\ m >= n + 4 => Filled[n + 4] = "\r"
         /\ m >= n + 5 => Filled[n + 5] = "\n"
<1> DEFINE d == Figures(wire[k])
           n == Len(d)
           m == Len(Filled)
           p == Start(k) + 2
<1>h. Held(k, 2)
  BY FilledIs
<1>1. /\ k \in 1..Len(wire) /\ GoodWire(wire) /\ Filled \in Seq(Symbols) /\ m \in Nat \ {0}
      /\ \A j \in 1..m : Filled[j] = Bytes[p + j]
  BY <1>h DEF Transport, Held
<1>2. /\ d \in Seq(Digits) /\ n \in Nat \ {0}
      /\ Bytes[p + 1] = "+" /\ Bytes[p + 2] = "recv" /\ Bytes[p + 3] = wire[k].link
      /\ \A j \in 1..n : Bytes[p + 3 + j] = d[j]
      /\ Bytes[p + 3 + n + 1] = "\r" /\ Bytes[p + 3 + n + 2] = "\n"
  BY <1>1, ReportOnWire
<1>3. p \in Nat
  BY <1>1, BeginningOnWire
<1> HIDE DEF d, p
<1>4. /\ Filled[1] = "+"
      /\ m >= 2 => Filled[2] = "recv"
      /\ m >= 3 => Filled[3] = wire[k].link
  <2>1. 1 \in 1..m /\ (m >= 2 => 2 \in 1..m) /\ (m >= 3 => 3 \in 1..m)
    <3> HIDE DEF m
    <3> QED BY ONLY <1>1
  <2> QED BY <1>1, <1>2, <2>1
<1>5. ASSUME NEW j \in 1..n, 3 + j <= m PROVE Filled[3 + j] = d[j]
  <2>1. 3 + j \in 1..m /\ p + (3 + j) = p + 3 + j
    <3>1. n \in Nat /\ m \in Nat /\ p \in Nat /\ 3 + j <= m /\ j \in 1..n
      BY <1>1, <1>2, <1>3, <1>5
    <3> HIDE DEF n, m
    <3> QED BY ONLY <3>1
  <2> QED BY <1>1, <1>2, <2>1
<1>6. ASSUME m >= n + 4 PROVE Filled[n + 4] = "\r"
  <2>1. n + 4 \in 1..m /\ p + (n + 4) = p + 3 + n + 1
    <3>1. n \in Nat /\ m \in Nat /\ p \in Nat /\ m >= n + 4
      BY <1>1, <1>2, <1>3, <1>6
    <3> HIDE DEF n, m
    <3> QED BY ONLY <3>1
  <2> QED BY <1>1, <1>2, <2>1
<1>7. ASSUME m >= n + 5 PROVE Filled[n + 5] = "\n"
  <2>1. n + 5 \in 1..m /\ p + (n + 5) = p + 3 + n + 2
    <3>1. n \in Nat /\ m \in Nat /\ p \in Nat /\ m >= n + 5
      BY <1>1, <1>2, <1>3, <1>7
    <3> HIDE DEF n, m
    <3> QED BY ONLY <3>1
  <2> QED BY <1>1, <1>2, <2>1
<1> QED BY <1>1, <1>2, <1>4, <1>5, <1>6, <1>7 DEF d

\* No line ends in the head of a report before its own.
LEMMA ReportUncut ==
  ASSUME Transport, NEW k, Reading(k, 2), left > 0, wire[k].kind = "data"
  PROVE  LET n == Len(Figures(wire[k]))
             m == Len(Filled) IN
         /\ \A i \in 1..(m - 1) : i <= n + 3 => ~Pair(Filled, "\r", "\n", i)
         /\ \A i \in 1..m : i <= n + 4 => Filled[i] # ">"
<1> DEFINE d == Figures(wire[k])
           n == Len(d)
           m == Len(Filled)
<1>1. /\ n \in Nat \ {0} /\ d \in Seq(Digits) /\ m \in Nat \ {0}
      /\ Filled[1] = "+"
      /\ m >= 2 => Filled[2] = "recv"
      /\ m >= 3 => Filled[3] = wire[k].link
      /\ \A j \in 1..n : 3 + j <= m => Filled[3 + j] = d[j]
      /\ m >= n + 4 => Filled[n + 4] = "\r"
  BY ReportHeld
<1>2. wire[k].link # ">"
  <2>1. GoodWire(wire) /\ k \in 1..Len(wire)
    BY FilledIs DEF Held, Transport
  <2>2. wire[k].link \in Links
    BY <2>1, ReportOnWire
  <2> QED BY <2>2, StreamAssumption
<1>3. ASSUME NEW j \in 1..n, 3 + j <= m PROVE Filled[3 + j] \in {"0", "1"}
  <2>1. d[j] \in Digits
    BY <1>1, ElementOfSeq
  <2> QED BY <1>1, <1>3, <2>1 DEF Digits
<1> HIDE DEF d
<1>4. ASSUME NEW i \in 1..m, i <= n + 4
      PROVE  i \in {1, 2, 3, n + 4} \/ (i - 3 \in 1..n /\ 3 + (i - 3) = i /\ 3 + (i - 3) <= m)
  BY <1>1, <1>4
<1>5. ASSUME NEW i \in 1..m, i <= n + 4 PROVE Filled[i] # ">"
  <2>1. CASE i - 3 \in 1..n /\ 3 + (i - 3) = i /\ 3 + (i - 3) <= m
    <3>1. Filled[3 + (i - 3)] \in {"0", "1"}
      BY <1>3, <2>1
    <3> QED BY <2>1, <3>1
  <2>2. CASE i \in {1, 2, 3, n + 4}
    BY <1>1, <1>2, <1>5, <2>2
  <2> QED BY <1>4, <1>5, <2>1, <2>2
<1>6. ASSUME NEW i \in 1..(m - 1), i <= n + 3 PROVE ~Pair(Filled, "\r", "\n", i)
  <2>1. i \in 1..m /\ i + 1 \in 1..m /\ i <= n + 4 /\ i + 1 <= n + 4
    BY <1>1, <1>6
  <2>2. CASE i = 1 \/ i = 2
    BY <1>1, <2>1, <2>2 DEF Pair
  <2>3. CASE i = 3
    <3>1. 1 \in 1..n /\ 3 + 1 <= m /\ i + 1 = 3 + 1
      BY <1>1, <2>1, <2>3
    <3>2. Filled[3 + 1] \in {"0", "1"}
      BY <1>3, <3>1
    <3> QED BY <3>1, <3>2 DEF Pair
  <2>4. CASE i > 3
    <3>1. i - 3 \in 1..n /\ 3 + (i - 3) = i /\ 3 + (i - 3) <= m
      BY <1>1, <1>6, <2>1, <2>4
    <3>2. Filled[3 + (i - 3)] \in {"0", "1"}
      BY <1>3, <3>1
    <3> QED BY <3>1, <3>2 DEF Pair
  <2> QED BY <1>1, <1>6, <2>2, <2>3, <2>4
<1> QED BY <1>5, <1>6 DEF d

\* The digits that follow a head at the very beginning, when there are c.
LEMMA DigitsHeld ==
  ASSUME Filled \in Seq(Symbols), HeadAt = 1, NEW c \in Nat,
         c = 0 \/ 3 + c <= Len(Filled),
         \A j \in 1..c : Filled[3 + j] \in Digits,
         3 + c < Len(Filled) => Filled[3 + c + 1] \notin Digits
  PROVE  /\ HeadDigits \in Seq(Symbols) /\ Len(HeadDigits) = c
         /\ \A j \in 1..c : HeadDigits[j] = Filled[3 + j]
<1> DEFINE m == Len(Filled)
           tl == SubSeq(Filled, 4, m)
           x == CHOOSE e \in 0..Len(tl) : /\ \A k \in 1..e : tl[k] \in Digits
                                          /\ e < Len(tl) => tl[e + 1] \notin Digits
<1>0. m \in Nat
  BY LenProperties
<1>1. /\ tl \in Seq(Symbols) /\ Len(tl) = IF 4 <= m THEN m - 4 + 1 ELSE 0
      /\ \A i \in 1..(m - 4 + 1) : tl[i] = Filled[4 + i - 1]
  <2>1. \A i \in 4..m : Filled[i] \in Symbols
    BY <1>0, ElementOfSeq
  <2>2. 4 \in Int /\ m \in Int
    BY <1>0
  <2> HIDE DEF m
  <2> QED BY <2>1, <2>2, SubSeqProperties, SMT
<1>2. HeadDigits = SubSeq(tl, 1, x)
  <2>1. HeadAt + 3 = 4
    OBVIOUS
  <2> QED BY <2>1, Zenon DEF HeadDigits
<1> HIDE DEF tl, x
<1>3. Len(tl) \in Nat /\ c \in 0..Len(tl) /\ \A i \in 1..Len(tl) : tl[i] = Filled[3 + i]
      /\ (Len(tl) # 0 => Len(tl) = m - 3)
  <2> HIDE DEF m
  <2>1. Len(tl) \in Nat /\ c \in 0..Len(tl) /\ (Len(tl) # 0 => Len(tl) = m - 3)
    BY <1>0, <1>1 DEF m
  <2>2. \A i \in 1..Len(tl) : i \in 1..(m - 4 + 1) /\ 4 + i - 1 = 3 + i
    BY <1>0, <1>1
  <2> QED BY <1>1, <2>1, <2>2
<1>4. \A k \in 1..c : tl[k] \in Digits
  BY <1>3
<1>5. c < Len(tl) => tl[c + 1] \notin Digits
  <2> SUFFICES ASSUME c < Len(tl) PROVE tl[c + 1] \notin Digits
    OBVIOUS
  <2>1. c + 1 \in 1..Len(tl) /\ 3 + c < m /\ 3 + (c + 1) = 3 + c + 1
    <3> HIDE DEF m
    <3> QED BY <1>0, <1>3
  <2> QED BY <1>3, <2>1
<1>6. x = c
  BY <1>3, <1>4, <1>5, DigitsAre DEF x
<1>7. HeadDigits = SubSeq(tl, 1, c)
  BY <1>2, <1>6
<1>8. /\ SubSeq(tl, 1, c) \in Seq(Symbols) /\ Len(SubSeq(tl, 1, c)) = c - 1 + 1
      /\ \A i \in 1..(c - 1 + 1) : SubSeq(tl, 1, c)[i] = tl[1 + i - 1]
  <2>1. 1 \in Nat \ {0} /\ c \in Nat /\ c <= Len(tl) /\ 1 <= c + 1 /\ tl \in Seq(Symbols)
    BY <1>1, <1>3
  <2> QED BY ONLY <2>1, Cut, SMT
<1>9. c - 1 + 1 = c /\ \A i \in 1..c : 1 + i - 1 = i /\ i \in 1..Len(tl)
  BY <1>3
<1> QED BY <1>3, <1>7, <1>8, <1>9

\* A report's head is told from the beginning of one.
LEMMA ReportVerdict ==
  ASSUME Transport, NEW k, Reading(k, 2), left > 0, wire[k].kind = "data"
  PROVE  LET n == Len(Figures(wire[k]))
             m == Len(Filled) IN
         /\ m < n + 5 => ~HeadComplete /\ LineEnd = 0
         /\ m >= n + 5 => /\ HeadComplete /\ HeadDigits = Figures(wire[k])
                          /\ HeadLen = n + 5 /\ Filled[HeadAt + 2] = wire[k].link
<1> DEFINE d == Figures(wire[k])
           n == Len(d)
           m == Len(Filled)
<1>0. {"\r", "\n", "+", "recv", ">"} \subseteq Symbols
  BY StreamAssumption DEF Blanks
<1>1. /\ n \in Nat \ {0} /\ d \in Seq(Digits) /\ m \in Nat \ {0} /\ Filled \in Seq(Symbols)
      /\ Filled[1] = "+"
      /\ m >= 2 => Filled[2] = "recv"
      /\ m >= 3 => Filled[3] = wire[k].link
      /\ \A j \in 1..n : 3 + j <= m => Filled[3 + j] = d[j]
      /\ m >= n + 4 => Filled[n + 4] = "\r"
      /\ m >= n + 5 => Filled[n + 5] = "\n"
  BY ReportHeld
<1>2. /\ \A i \in 1..(m - 1) : i <= n + 3 => ~Pair(Filled, "\r", "\n", i)
      /\ \A i \in 1..m : i <= n + 4 => Filled[i] # ">"
  BY ReportUncut
<1>3. \A j \in 1..n : 3 + j <= m => Filled[3 + j] \in Digits
  <2>1. \A j \in 1..n : d[j] \in Digits
    BY <1>1, ElementOfSeq
  <2> QED BY <1>1, <2>1
<1> HIDE DEF d
<1>4. m >= 2 => HeadAt = 1
  <2> SUFFICES ASSUME m >= 2 PROVE HeadAt = 1
    OBVIOUS
  <2>1. 1 \in 1..(m - 1) /\ Pair(Filled, "+", "recv", 1) /\ \A i \in 1..(1 - 1) : ~Pair(Filled, "+", "recv", i)
    BY <1>1 DEF Pair
  <2> QED BY <1>0, <1>1, <2>1, FindIs DEF HeadAt
<1>5. m < 2 => HeadAt = 0
  <2> SUFFICES ASSUME m < 2 PROVE HeadAt = 0
    OBVIOUS
  <2>1. \A i \in 1..(m - 1) : ~Pair(Filled, "+", "recv", i)
    BY <1>1
  <2> QED BY <1>0, <1>1, <2>1, FindIs DEF HeadAt
<1>6. CASE m < n + 5
  <2>1. LineEnd = 0
    <3>1. \A i \in 1..(m - 1) : ~Pair(Filled, "\r", "\n", i)
      BY <1>1, <1>2, <1>6
    <3>2. Find(Filled, CRLF) = 0
      BY <1>0, <1>1, <3>1, FindIs DEF CRLF
    <3>3. \A i \in 1..m : Filled[i] # ">"
      BY <1>1, <1>2, <1>6
    <3>4. Find(Filled, <<">">>) = 0
      BY <1>0, <1>1, <3>3, FindOneIs
    <3> QED BY <3>2, <3>4 DEF LineEnd
  <2>2. ~HeadComplete
    <3>1. CASE m < 2
      BY <1>5, <3>1 DEF HeadComplete, Scanned
    <3>2. CASE m >= 2
      <4> DEFINE c == IF m < 4 THEN 0 ELSE IF 3 + n <= m THEN n ELSE m - 3
      <4>1. /\ c \in Nat /\ (c = 0 \/ 3 + c <= m) /\ (\A j \in 1..c : j \in 1..n /\ 3 + j <= m)
            /\ (3 + c < m => 3 + c + 1 = n + 4 /\ m >= n + 4)
            /\ c + 5 > m
        BY <1>1, <1>6, <3>2
      <4> HIDE DEF c
      <4>2. \A j \in 1..c : Filled[3 + j] \in Digits
        BY <1>3, <4>1
      <4>3. 3 + c < m => Filled[3 + c + 1] \notin Digits
        BY <1>1, <4>1 DEF Digits
      <4>4. Len(HeadDigits) = c
        BY <1>1, <1>4, <3>2, <4>1, <4>2, <4>3, DigitsHeld
      <4>5. HeadLen = 3 + c + 2
        BY <4>4 DEF HeadLen
      <4>6. ~(HeadLen <= m - HeadAt + 1)
        BY <1>1, <1>4, <3>2, <4>1, <4>5
      <4> QED BY <4>6 DEF HeadComplete
    <3> QED BY <1>1, <3>1, <3>2
  <2> QED BY <1>1, <1>6, <2>1, <2>2 DEF d
<1>7. CASE m >= n + 5
  <2>1. HeadAt = 1 /\ 3 + n <= m /\ 3 + n + 1 = n + 4 /\ m >= n + 4
    BY <1>1, <1>4, <1>7
  <2>2. \A j \in 1..n : Filled[3 + j] \in Digits /\ Filled[3 + j] = d[j]
    BY <1>1, <1>3, <2>1
  <2>3. Filled[3 + n + 1] \notin Digits
    BY <1>1, <2>1 DEF Digits
  <2>4. /\ HeadDigits \in Seq(Symbols) /\ Len(HeadDigits) = n
        /\ \A j \in 1..n : HeadDigits[j] = Filled[3 + j]
    BY <1>1, <2>1, <2>2, <2>3, DigitsHeld
  <2>5. HeadDigits = d
    <3>1. d \in Seq(Symbols)
      BY <1>1, StreamAssumption, SeqMonotonic
    <3>2. \A j \in 1..n : HeadDigits[j] = d[j]
      BY <2>2, <2>4
    <3> DEFINE h == HeadDigits
    <3>3. h \in Seq(Symbols) /\ Len(h) = Len(d) /\ \A j \in 1..Len(h) : h[j] = d[j]
      BY <2>4, <3>2
    <3> HIDE DEF h
    <3>4. h = d
      BY ONLY <3>1, <3>3, SeqEqual, SMT
    <3> QED BY <3>4 DEF h
  <2>6. HeadLen = n + 5 /\ HeadLen <= m - HeadAt + 1
    BY <1>1, <1>7, <2>1, <2>4 DEF HeadLen
  <2>7. Find(Filled, CRLF) = 0 \/ Find(Filled, CRLF) > HeadAt
    <3>1. 1 \in Nat /\ \A i \in 1..(m - 1) : i <= 1 => ~Pair(Filled, "\r", "\n", i)
      BY <1>1, <1>2
    <3> QED BY <1>0, <1>1, <2>1, <3>1, FindIs DEF CRLF
  <2>8. HeadDigits # <<>>
    BY <1>1, <2>4
  <2>9. HeadComplete
    BY <2>1, <2>6, <2>7, <2>8 DEF HeadComplete, Scanned
  <2>10. Filled[HeadAt + 2] = wire[k].link
    BY <1>1, <1>7, <2>1
  <2> QED BY <1>1, <1>7, <2>5, <2>6, <2>9, <2>10 DEF d
<1> QED BY <1>1, <1>6, <1>7 DEF d

\* A token at the beginning of an item: the line end it begins with.
LEMMA BeginningVerdict ==
  ASSUME Transport, NEW k, Reading(k, 0), left > 0, Len(Filled) >= 2
  PROVE  /\ ~HeadComplete /\ LineEnd = 1
         /\ Filled[1] = "\r" /\ Filled[2] = "\n"
<1> DEFINE m == Len(Filled)
<1>h. Held(k, 0)
  BY FilledIs
<1>1. /\ k \in 1..Len(wire) /\ Filled \in Seq(Symbols) /\ m \in Nat \ {0} /\ GoodWire(wire)
      /\ \A j \in 1..m : Filled[j] = Bytes[Start(k) + 0 + j]
  BY <1>h DEF Held, Transport
<1>2. Start(k) \in Nat /\ Bytes[Start(k) + 1] = "\r" /\ Bytes[Start(k) + 2] = "\n"
  BY <1>1, BeginningOnWire
<1>3. Filled[1] = "\r" /\ Filled[2] = "\n"
  <2>1. 1 \in 1..m /\ 2 \in 1..m /\ Start(k) + 0 + 1 = Start(k) + 1 /\ Start(k) + 0 + 2 = Start(k) + 2
    BY <1>1, <1>2
  <2> QED BY <1>1, <1>2, <2>1
<1>4. /\ 1 \in 1..(m - 1) /\ Pair(Filled, "\r", "\n", 1)
      /\ \A i \in 1..(1 - 1) : ~Pair(Filled, "\r", "\n", i)
      /\ \A i \in 1..1 : ~Pair(Filled, "+", "recv", i)
  BY <1>1, <1>3 DEF Pair
<1> QED BY <1>1, <1>3, <1>4, LineFound

\* Behind a prompt that was handed on without its blank, the next line end.
LEMMA BlankVerdict ==
  ASSUME Transport, NEW k, Reading(k, 3), left > 0, Len(Filled) >= 3
  PROVE  ~HeadComplete /\ LineEnd = 2
<1> DEFINE m == Len(Filled)
<1>h. Held(k, 3)
  BY FilledIs
<1>1. Filled \in Seq(Symbols) /\ m \in Nat \ {0}
  BY <1>h DEF Held
<1>2. Filled[1] = "blank" /\ Filled[2] = "\r" /\ Filled[3] = "\n"
  BY <1>1, WaitsBehindPrompt
<1>3. /\ 2 \in 1..(m - 1) /\ Pair(Filled, "\r", "\n", 2)
      /\ \A i \in 1..(2 - 1) : ~Pair(Filled, "\r", "\n", i)
      /\ \A i \in 1..2 : ~Pair(Filled, "+", "recv", i)
  BY <1>1, <1>2 DEF Pair
<1> QED BY <1>1, <1>3, LineFound

\* A prompt ends where its piece does, behind its blank, or with the line end after it.
LEMMA PromptVerdict ==
  ASSUME Transport, NEW k, Reading(k, 2), left > 0, wire[k].kind = "prompt"
  PROVE  LET m == Len(Filled) IN
         /\ ~HeadComplete /\ Start(k) \in Nat /\ Start(k + 1) = Start(k) + 4
         /\ Filled[1] = ">" /\ (m >= 2 => Filled[2] = "blank") /\ (m >= 3 => Filled[3] = "\r")
         /\ m < 4 => LineEnd = 1
         /\ m >= 4 => LineEnd = 3 /\ Filled[4] = "\n" /\ k + 1 \in 1..Len(wire)
<1> DEFINE m == Len(Filled)
           p == Start(k) + 2
<1>h. Held(k, 2)
  BY FilledIs
<1>0. GoodWire(wire) /\ Len(Bytes) \in Nat /\ Len(wire) \in Nat
  BY BytesType DEF Transport
<1>1. /\ k \in 1..Len(wire) /\ Filled \in Seq(Symbols) /\ m \in Nat \ {0} /\ p + m <= Len(Bytes)
      /\ \A j \in 1..m : Filled[j] = Bytes[p + j]
  BY <1>h DEF Held
<1>2. /\ Start(k) \in Nat /\ Start(k + 1) = Start(k) + 4
      /\ Bytes[Start(k) + 3] = ">" /\ Bytes[Start(k) + 4] = "blank"
  BY <1>0, <1>1, PromptOnWire, BeginningOnWire
<1>3. Filled[1] = ">"
  <2>1. 1 \in 1..m /\ p + 1 = Start(k) + 3
    BY <1>1, <1>2
  <2> QED BY <1>1, <1>2, <2>1
<1>4. m >= 2 => Filled[2] = "blank"
  <2> SUFFICES ASSUME m >= 2 PROVE Filled[2] = "blank"
    OBVIOUS
  <2>1. 2 \in 1..m /\ p + 2 = Start(k) + 4
    BY <1>1, <1>2
  <2> QED BY <1>1, <1>2, <2>1
<1>5. ASSUME m >= 3 PROVE k + 1 \in 1..Len(wire) /\ Filled[3] = "\r"
  <2>1. k + 1 \in 1..Len(wire)
    <3>1. k # Len(wire)
      <4> SUFFICES ASSUME k = Len(wire) PROVE FALSE
        OBVIOUS
      <4>1. Start(k + 1) = Len(Bytes)
        BY <1>0, WireEnds
      <4> QED BY <1>0, <1>1, <1>2, <1>5, <4>1
    <3> QED BY <1>0, <1>1, <3>1
  <2>2. Bytes[Start(k + 1) + 1] = "\r"
    BY <1>0, <2>1, BeginningOnWire
  <2>3. 3 \in 1..m /\ p + 3 = Start(k + 1) + 1
    BY <1>1, <1>2, <1>5
  <2> QED BY <1>1, <2>1, <2>2, <2>3
<1>6. ASSUME m >= 4 PROVE k + 1 \in 1..Len(wire) /\ Filled[4] = "\n"
  <2>1. k + 1 \in 1..Len(wire)
    BY <1>1, <1>5, <1>6
  <2>2. Bytes[Start(k + 1) + 2] = "\n"
    BY <1>0, <2>1, BeginningOnWire
  <2>3. 4 \in 1..m /\ p + 4 = Start(k + 1) + 2
    BY <1>1, <1>2, <1>6
  <2> QED BY <1>1, <2>1, <2>2, <2>3
<1>7. CASE m < 4
  <2>1. \A i \in 1..(m - 1) : i = 1 \/ (i = 2 /\ m >= 3)
    BY <1>1, <1>7
  <2>2. \A i \in 1..(m - 1) : ~Pair(Filled, "\r", "\n", i) /\ ~Pair(Filled, "+", "recv", i)
    BY <1>3, <1>4, <1>5, <2>1 DEF Pair
  <2> QED BY <1>1, <1>2, <1>3, <1>4, <1>5, <1>7, <2>2, PromptFound
<1>8. CASE m >= 4
  <2>1. /\ 3 \in 1..(m - 1) /\ Pair(Filled, "\r", "\n", 3)
        /\ \A i \in 1..(3 - 1) : ~Pair(Filled, "\r", "\n", i)
        /\ \A i \in 1..3 : ~Pair(Filled, "+", "recv", i)
    BY <1>1, <1>3, <1>4, <1>5, <1>6, <1>8 DEF Pair
  <2>2. ~HeadComplete /\ LineEnd = 3
    BY <1>1, <2>1, LineFound
  <2> QED BY <1>1, <1>2, <1>3, <1>4, <1>5, <1>6, <1>8, <2>2
<1> QED BY <1>1, <1>7, <1>8

-----------------------------------------------------------------------------
(* Stream: the steps of the parser.                                         *)

\* A line of blanks says nothing; of another, what stands between them is handed on.
LEMMA BlankLine ==
  ASSUME Filled \in Seq(Symbols), NEW e \in 1..Len(Filled), \A i \in 1..e : Filled[i] \in Blanks
  PROVE  Trim(SubSeq(Filled, 1, e)) = <<>>
<1> DEFINE v == SubSeq(Filled, 1, e)
<1>1. v \in Seq(Symbols) /\ Len(v) = e /\ \A i \in 1..e : v[i] = Filled[i]
  <2>1. /\ 1 \in Nat \ {0} /\ e \in Nat /\ e <= Len(Filled) /\ 1 <= e + 1
        /\ e - 1 + 1 = e /\ \A i \in 1..e : 1 + i - 1 = i
    BY LenProperties
  <2>2. v \in Seq(Symbols) /\ Len(v) = e - 1 + 1 /\ \A i \in 1..(e - 1 + 1) : v[i] = Filled[1 + i - 1]
    BY <2>1, Cut, SMT
  <2> HIDE DEF v
  <2> QED BY <2>1, <2>2
<1> HIDE DEF v
<1>2. \A i \in 1..Len(v) : v[i] \in Blanks
  BY <1>1
<1> QED BY <1>2, TrimBlank DEF v

\* What stands in a line between its blanks is handed on.
LEMMA TrimmedLine ==
  ASSUME Filled \in Seq(Symbols), NEW text \in Seq(Symbols), Len(text) \in Nat \ {0},
         NEW e \in Len(text)..Len(Filled),
         \A i \in 1..Len(text) : Filled[i] = text[i],
         text[1] \notin Blanks, text[Len(text)] \notin Blanks,
         \A i \in 1..e : i > Len(text) => Filled[i] \in Blanks
  PROVE  Trim(SubSeq(Filled, 1, e)) = text
<1> DEFINE v == SubSeq(Filled, 1, e)
           n == Len(text)
<1>0. Len(Filled) \in Nat /\ e \in Nat /\ n <= e /\ e <= Len(Filled) /\ n \in Nat \ {0}
  BY LenProperties
<1>1. v \in Seq(Symbols) /\ Len(v) = e /\ \A i \in 1..e : v[i] = Filled[i]
  <2>1. /\ 1 \in Nat \ {0} /\ e \in Nat /\ e <= Len(Filled) /\ 1 <= e + 1
        /\ e - 1 + 1 = e /\ \A i \in 1..e : 1 + i - 1 = i
    BY <1>0
  <2>2. v \in Seq(Symbols) /\ Len(v) = e - 1 + 1 /\ \A i \in 1..(e - 1 + 1) : v[i] = Filled[1 + i - 1]
    BY <2>1, Cut, SMT
  <2> HIDE DEF v
  <2> QED BY <2>1, <2>2
<1> HIDE DEF v
<1>2. Trim(v) = SubSeq(v, 1, n)
  <2>1. 1 \in 1..Len(v) /\ n \in 1..Len(v) /\ 1 \in 1..n /\ n \in 1..n /\ \A i \in 1..n : i \in 1..e
    BY <1>0, <1>1
  <2>2. v[1] \notin Blanks /\ v[n] \notin Blanks
    BY <1>1, <2>1
  <2>3. \A i \in 1..Len(v) : i < 1 \/ n < i => v[i] \in Blanks
    BY <1>0, <1>1
  <2> HIDE DEF n
  <2> QED BY <1>1, <2>1, <2>2, <2>3, TrimIs
<1>3. SubSeq(v, 1, n) = text
  <2> DEFINE u == SubSeq(v, 1, n)
  <2>1. /\ 1 \in Nat \ {0} /\ n \in Nat /\ n <= Len(v) /\ 1 <= n + 1
        /\ n - 1 + 1 = n /\ \A i \in 1..n : 1 + i - 1 = i /\ i \in 1..e
    BY <1>0, <1>1
  <2>2. u \in Seq(Symbols) /\ Len(u) = n - 1 + 1 /\ \A i \in 1..(n - 1 + 1) : u[i] = v[1 + i - 1]
    <3> HIDE DEF n
    <3> QED BY <1>1, <2>1, Cut, SMT
  <2> HIDE DEF u
  <2>3. u \in Seq(Symbols) /\ Len(u) = Len(text) /\ \A i \in 1..Len(u) : u[i] = text[i]
    BY <1>1, <2>1, <2>2
  <2>4. u = text
    BY ONLY <2>3, text \in Seq(Symbols), SeqEqual, SMT
  <2> QED BY <2>4 DEF u
<1> QED BY <1>2, <1>3 DEF v

\* When a token is done the parser is at another spot, and rsp_buf is empty.
LEMMA ReadsOn ==
  ASSUME GoodWire(wire), wire' = wire, NEW k, NEW o, Spot(k, o),
         remain' = 0, rsp' = <<>>, seen' = Start(k) + o,
         lines' = (IF o = 3 THEN Says(wire)[k].lines ELSE Says(wire)[k - 1].lines),
         Received(Says(wire)[k - 1].data), link \in Links, UNCHANGED <<link, data, got, lost>>
  PROVE  Reader'
<1>1. TokenLen(k, o) \in Nat \ {0} /\ Start(k) \in Nat /\ o \in Nat
  BY TokenFits
<1>2. Spot(k, o)' /\ TokenLen(k, o)' = TokenLen(k, o) /\ Start(k)' = Start(k)
  BY DEF Spot, TokenLen, Start
<1>3. Len(rsp') = 0 /\ rsp' \in Seq(Symbols)
  OBVIOUS
<1>4. Received(Says(wire)[k - 1].data)'
  BY DEF Received
<1>5. Reading(k, o)'
  <2>1. seen' = Start(k)' + o + Len(rsp')
    BY <1>1, <1>2, <1>3
  <2>2. Len(rsp') < TokenLen(k, o)'
    BY <1>1, <1>2, <1>3
  <2>3. \A j \in 1..Len(rsp') : rsp'[j] = Bytes'[Start(k)' + o + j]
    BY <1>3
  <2>4. lines' = (IF o = 3 THEN Says(wire')[k].lines ELSE Says(wire')[k - 1].lines)
    OBVIOUS
  <2> QED BY <1>2, <1>3, <1>4, <2>1, <2>2, <2>3, <2>4 DEF Reading
<1>6. k \in 1..(Len(wire') + 1) /\ o \in {0, 2, 3} /\ link' \in Links
  BY <1>2 DEF Spot
<1> QED BY <1>5, <1>6 DEF Reader

\* The same when item k is done.
LEMMA ReadsNext ==
  ASSUME GoodWire(wire), wire' = wire, NEW k \in 1..Len(wire), NEW o \in {0, 2}, Spot(k + 1, o),
         remain' = 0, rsp' = <<>>, seen' = Start(k + 1) + o, lines' = Says(wire)[k].lines,
         Received(Says(wire)[k].data), link \in Links, UNCHANGED <<link, data, got, lost>>
  PROVE  Reader'
<1> DEFINE j == k + 1
<1>1. j - 1 = k /\ Spot(j, o) /\ seen' = Start(j) + o /\ o # 3
  OBVIOUS
<1> HIDE DEF j
<1>2. lines' = (IF o = 3 THEN Says(wire)[j].lines ELSE Says(wire)[j - 1].lines)
  BY <1>1
<1>3. Received(Says(wire)[j - 1].data)
  BY <1>1
<1> QED BY <1>1, <1>2, <1>3, ReadsOn

\* e bytes of what rsp_buf and the piece hold are consumed.
LEMMA Consumed ==
  ASSUME Transport, NEW k, NEW o, Reading(k, o), left > 0,
         NEW e \in Nat, Len(rsp) <= e, e <= Len(Filled),
         Consume(e - Len(rsp)), UNCHANGED last, UNCHANGED dmaVars
  PROVE  Transport' /\ seen' = Start(k) + o + e
<1> DEFINE c == e - Len(rsp)
           m == Len(rsp)
           p == Start(k) + o
<1>1. Added \in 1..left /\ Len(Filled) = m + Added /\ p \in Nat
  BY FilledIs DEF Held
<1>2. m \in Nat /\ seen = p + m
  BY LenProperties DEF Reading
<1>3. left \in Nat
  BY DEF Transport
<1>4. c \in Nat /\ c <= left
  <2> HIDE DEF m
  <2> QED BY <1>1, <1>2, <1>3 DEF m
<1>5. Transport' /\ seen' = seen + Least(c, left)
  <2> HIDE DEF c
  <2>1. Consume(c)
    BY DEF c
  <2> QED BY <1>4, <2>1, ConsumeKeeps
<1>6. Least(c, left) = c
  BY <1>4 DEF Least
<1>7. seen' = p + e
  <2> HIDE DEF m, p
  <2> QED BY <1>1, <1>2, <1>5, <1>6 DEF c, m
<1> QED BY <1>5, <1>7

\* What is said up to item k, from what was said before it.
LEMMA NextSaid ==
  ASSUME GoodWire(wire), NEW k \in 1..Len(wire)
  PROVE  /\ wire[k].kind = "line" => Says(wire)[k].lines = Append(Says(wire)[k - 1].lines, wire[k].text)
         /\ wire[k].kind = "prompt" => Says(wire)[k].lines = Append(Says(wire)[k - 1].lines, <<">">>)
         /\ wire[k].kind = "data" => Says(wire)[k].lines = Says(wire)[k - 1].lines
         /\ wire[k].kind # "data" => Says(wire)[k].data = Says(wire)[k - 1].data
         /\ Says(wire)[k - 1].data \in [Links -> Seq(Symbols)]
         /\ Says(wire)[k].data \in [Links -> Seq(Symbols)]
<1> DEFINE s == Says(wire)[k - 1]
           t == Says(wire)[k]
           it == wire[k]
<1>1. GoodItem(it) /\ t = Said(s, it) /\ s \in Heard /\ t \in Heard
  BY WireAt
<1>2. s.data \in [Links -> Seq(Symbols)] /\ t.data \in [Links -> Seq(Symbols)]
  BY <1>1 DEF Heard
<1> HIDE DEF s, t, it
<1>3. /\ it.kind = "line" => t.lines = Append(s.lines, it.text)
      /\ it.kind = "prompt" => t.lines = Append(s.lines, <<">">>)
      /\ it.kind = "data" => t.lines = s.lines
  BY <1>1, SaidIs
<1>4. ASSUME it.kind # "data" PROVE t.data = s.data
  <2>1. \A l \in Links : t.data[l] = s.data[l]
    BY <1>1, <1>4, SaidIs
  <2> QED BY <1>2, <2>1
<1> QED BY <1>2, <1>3, <1>4 DEF s, t, it

\* Less than a token waits.
LEMMA KeepWaits ==
  ASSUME Transport, NEW k, NEW o, Reading(k, o), left > 0, ~HeadComplete, LineEnd = 0
  PROVE  Len(Filled) < TokenLen(k, o)
<1> DEFINE m == Len(Filled)
<1>0. /\ o \in {0, 2, 3} /\ k \in 1..Len(wire) /\ GoodWire(wire) /\ m \in Nat
      /\ (o = 3 => wire[k].kind = "prompt")
  <2>1. Spot(k, o)
    BY DEF Reading
  <2>2. Held(k, o)
    BY FilledIs
  <2> QED BY <2>1, <2>2 DEF Spot, Held, Transport
<1>1. CASE o = 0
  <2>1. TokenLen(k, o) = 2
    BY <1>1 DEF TokenLen
  <2>2. ~(m >= 2)
    BY <1>1, BeginningVerdict
  <2> HIDE DEF m
  <2>3. m < 2
    BY ONLY <1>0, <2>2
  <2> QED BY <2>1, <2>3 DEF m
<1>2. CASE o = 3
  <2>1. TokenLen(k, o) = 3
    BY <1>2 DEF TokenLen
  <2>2. ~(m >= 3)
    BY <1>2, BlankVerdict
  <2> HIDE DEF m
  <2>3. m < 3
    BY ONLY <1>0, <2>2
  <2> QED BY <2>1, <2>3 DEF m
<1>3. CASE o = 2 /\ wire[k].kind = "line"
  <2> DEFINE n == Len(wire[k].text)
  <2>1. TokenLen(k, o) = n + 2 /\ n \in Nat
    BY <1>0, <1>3, LineOnWire DEF TokenLen
  <2>2. m >= n + 2 => LineEnd = n + 1
    BY <1>3, LineVerdict
  <2> HIDE DEF m, n
  <2>3. m < n + 2
    BY <1>0, <2>1, <2>2
  <2> QED BY <2>1, <2>3 DEF m
<1>4. CASE o = 2 /\ wire[k].kind = "prompt"
  <2>1. (m < 4 => LineEnd = 1) /\ (m >= 4 => LineEnd = 3)
    BY <1>4, PromptVerdict
  <2> HIDE DEF m
  <2> QED BY <1>0, <2>1
<1>5. CASE o = 2 /\ wire[k].kind = "data"
  <2> DEFINE n == Len(Figures(wire[k]))
  <2>1. TokenLen(k, o) = 5 + n /\ n \in Nat
    BY <1>0, <1>5, ReportOnWire DEF TokenLen
  <2>2. m >= n + 5 => HeadComplete
    BY <1>5, ReportVerdict
  <2> HIDE DEF m, n
  <2>3. m < 5 + n
    BY <1>0, <2>1, <2>2
  <2> QED BY <2>1, <2>3 DEF m
<1> QED BY <1>0, <1>1, <1>2, <1>3, <1>4, <1>5, KindIs

\* Keep: the bytes of an incomplete token wait in rsp_buf.
LEMMA KeepStep ==
  ASSUME Transport, NEW k, NEW o, Reading(k, o), link \in Links, Keep
  PROVE  StreamInv'
<1>0. /\ left > 0 /\ ~HeadComplete /\ LineEnd = 0 /\ rsp' = Filled /\ Consume(left)
      /\ UNCHANGED <<last, link, remain, lines, data, got, lost>> /\ UNCHANGED dmaVars
  BY DEF Keep
<1>1. Len(Filled) < TokenLen(k, o)
  BY <1>0, KeepWaits
<1>2. Held(k, o)
  BY <1>0, FilledIs
<1>3. Added = left
  <2>1. /\ Len(Filled) \in Nat /\ Len(Filled) <= BufSize /\ (Len(Filled) < BufSize => Added = left)
        /\ BufSize \in Nat
    BY <1>2, StreamAssumption DEF Held
  <2>2. TokenLen(k, o) \in Nat /\ TokenLen(k, o) <= BufSize
    BY TokenFits DEF Transport, Reading
  <2> DEFINE m == Len(Filled)
             x == TokenLen(k, o)
  <2>3. m < BufSize
    <3>1. m \in Nat /\ x \in Nat /\ m < x /\ x <= BufSize /\ BufSize \in Nat
      BY <1>1, <2>1, <2>2
    <3> HIDE DEF m, x
    <3> QED BY ONLY <3>1
  <2> QED BY <2>1, <2>3
<1>4. Transport' /\ seen' = Start(k) + o + Len(Filled)
  <2> DEFINE e == Len(Filled)
             m == Len(rsp)
  <2>1. e \in Nat /\ m \in Nat /\ e = m + left /\ left \in Nat
    BY <1>2, <1>3, LenProperties DEF Held, Reading, Transport
  <2>2. m <= e /\ e - m = left
    <3> HIDE DEF e, m
    <3> QED BY ONLY <2>1
  <2>3. Consume(e - Len(rsp))
    BY <1>0, <2>2
  <2> HIDE DEF e
  <2>4. Transport' /\ seen' = Start(k) + o + e
    BY <1>0, <2>1, <2>2, <2>3, Consumed DEF e
  <2> QED BY <2>4 DEF e
<1>5. wire' = wire
  BY <1>0 DEF dmaVars
<1>6. /\ Spot(k, o)' /\ TokenLen(k, o)' = TokenLen(k, o) /\ Start(k)' = Start(k) /\ Bytes' = Bytes
      /\ Received(Says(wire)[k - 1].data)'
  <2>1. Received(Says(wire)[k - 1].data)
    BY DEF Reading
  <2> QED BY <1>0, <1>5, <2>1 DEF Reading, Spot, TokenLen, Start, Bytes, Whole, Received
<1>7. Reading(k, o)'
  <2>1. remain' = 0 /\ rsp' \in Seq(Symbols)
    BY <1>0, <1>2 DEF Reading, Held
  <2>2. \A j \in 1..Len(rsp') : rsp'[j] = Bytes'[Start(k)' + o + j]
    BY <1>0, <1>2, <1>6 DEF Held
  <2>3. lines' = (IF o = 3 THEN Says(wire')[k].lines ELSE Says(wire')[k - 1].lines)
    BY <1>0, <1>5 DEF Reading
  <2>4. Len(rsp') < TokenLen(k, o)' /\ seen' = Start(k)' + o + Len(rsp')
    BY <1>0, <1>1, <1>4, <1>6
  <2> QED BY <1>6, <2>1, <2>2, <2>3, <2>4 DEF Reading
<1>8. Reader'
  <2>1. k \in 1..(Len(wire') + 1) /\ o \in {0, 2, 3} /\ link' \in Links
    BY <1>0, <1>6 DEF Spot
  <2> QED BY <1>7, <2>1 DEF Reader
<1> QED BY <1>4, <1>8 DEF StreamInv

\* The line end an item begins with is consumed and says nothing.
LEMMA BeginningStep ==
  ASSUME Transport, NEW k, Reading(k, 0), link \in Links, Line
  PROVE  StreamInv'
<1>0. /\ left > 0 /\ ~HeadComplete /\ LineEnd # 0 /\ remain = 0 /\ rsp' = <<>>
      /\ Consume(LineEnd + 1 - Len(rsp))
      /\ ProcessLine(SubSeq(Filled, 1, Least(LineEnd + 1, Len(Filled))))
      /\ UNCHANGED <<last, link, remain, data, got, lost>> /\ UNCHANGED dmaVars
  BY DEF Line
<1>1. /\ k \in 1..Len(wire) /\ GoodWire(wire) /\ Filled \in Seq(Symbols) /\ Len(Filled) \in Nat \ {0}
  BY <1>0, FilledIs DEF Held, Transport
<1>2. Len(Filled) >= 2
  <2>1. ~(Len(Filled) < 2)
    BY <1>0, WaitsAtStart
  <2> QED BY <1>1, <2>1
<1>3. LineEnd = 1 /\ Filled[1] = "\r" /\ Filled[2] = "\n"
  BY <1>0, <1>2, BeginningVerdict
<1>4. Len(rsp) \in Nat /\ Len(rsp) < 2
  <2>1. TokenLen(k, 0) = 2
    BY DEF TokenLen
  <2> QED BY <2>1, LenProperties DEF Reading
<1>5. Transport' /\ seen' = Start(k) + 0 + 2
  <2>1. 2 \in Nat /\ Len(rsp) <= 2 /\ Consume(2 - Len(rsp))
    BY <1>0, <1>3, <1>4
  <2> QED BY <1>0, <1>2, <2>1, Consumed
<1>6. lines' = lines
  <2>1. Least(LineEnd + 1, Len(Filled)) = 2
    BY <1>2, <1>3 DEF Least
  <2>2. 2 \in 1..Len(Filled) /\ \A i \in 1..2 : Filled[i] \in Blanks
    BY <1>1, <1>2, <1>3 DEF Blanks
  <2>3. Trim(SubSeq(Filled, 1, 2)) = <<>>
    BY <1>1, <2>2, BlankLine
  <2> QED BY <1>0, <2>1, <2>3 DEF ProcessLine
<1>7. /\ wire' = wire /\ Spot(k, 2) /\ remain' = 0 /\ seen' = Start(k) + 2
      /\ lines' = Says(wire)[k - 1].lines /\ Received(Says(wire)[k - 1].data)
  <2>1. Start(k) \in Nat
    BY <1>1, BeginningOnWire
  <2> QED BY <1>0, <1>1, <1>5, <1>6, <2>1 DEF Reading, Spot, dmaVars
<1>8. Reader'
  <2>1. lines' = (IF 2 = 3 THEN Says(wire)[k].lines ELSE Says(wire)[k - 1].lines)
    BY <1>7
  <2> QED BY <1>0, <1>1, <1>7, <2>1, ReadsOn
<1> QED BY <1>5, <1>8 DEF StreamInv

\* A prompt's blank, when it comes after the prompt, goes with the next line end.
LEMMA BlankStep ==
  ASSUME Transport, NEW k, Reading(k, 3), link \in Links, Line
  PROVE  StreamInv'
<1>0. /\ left > 0 /\ ~HeadComplete /\ LineEnd # 0 /\ remain = 0 /\ rsp' = <<>>
      /\ Consume(LineEnd + 1 - Len(rsp))
      /\ ProcessLine(SubSeq(Filled, 1, Least(LineEnd + 1, Len(Filled))))
      /\ UNCHANGED <<last, link, remain, data, got, lost>> /\ UNCHANGED dmaVars
  BY DEF Line
<1>1. /\ k \in 1..Len(wire) /\ GoodWire(wire) /\ Filled \in Seq(Symbols) /\ Len(Filled) \in Nat \ {0}
  BY <1>0, FilledIs DEF Held, Transport
<1>2. /\ Start(k) \in Nat /\ Start(k + 1) = Start(k) + 4 /\ Filled[1] = "blank"
      /\ Len(Filled) >= 3 /\ k + 1 \in 1..Len(wire) /\ Filled[2] = "\r" /\ Filled[3] = "\n"
  <2>1. /\ Start(k) \in Nat /\ Start(k + 1) = Start(k) + 4 /\ Filled[1] = "blank"
        /\ Len(Filled) >= 2 => k + 1 \in 1..Len(wire) /\ Filled[2] = "\r"
        /\ Len(Filled) >= 3 => Filled[3] = "\n"
        /\ Len(Filled) < 3 => ~HeadComplete /\ LineEnd = 0
    BY <1>0, WaitsBehindPrompt
  <2>2. ~(Len(Filled) < 3)
    BY <1>0, <2>1
  <2>3. Len(Filled) >= 3 /\ Len(Filled) >= 2
    <3> DEFINE m == Len(Filled)
    <3>1. m \in Nat /\ ~(m < 3)
      BY <1>1, <2>2
    <3>2. m >= 3 /\ m >= 2
      <4> HIDE DEF m
      <4> QED BY ONLY <3>1
    <3> QED BY <3>2
  <2> QED BY <2>1, <2>3
<1>3. LineEnd = 2
  BY <1>0, <1>2, BlankVerdict
<1>4. Len(rsp) \in Nat /\ Len(rsp) < 3
  <2>1. TokenLen(k, 3) = 3
    BY DEF TokenLen
  <2> QED BY <2>1, LenProperties DEF Reading
<1>5. Transport' /\ seen' = Start(k) + 3 + 3
  <2>1. 3 \in Nat /\ Len(rsp) <= 3 /\ Consume(3 - Len(rsp))
    BY <1>0, <1>3, <1>4
  <2> QED BY <1>0, <1>2, <2>1, Consumed
<1>6. lines' = lines
  <2>1. Least(LineEnd + 1, Len(Filled)) = 3
    BY <1>2, <1>3 DEF Least
  <2>2. 3 \in 1..Len(Filled) /\ \A i \in 1..3 : Filled[i] \in Blanks
    <3>1. \A i \in 1..3 : i \in {1, 2, 3}
      OBVIOUS
    <3>2. 3 \in 1..Len(Filled)
      BY <1>1, <1>2
    <3> QED BY <1>2, <3>1, <3>2 DEF Blanks
  <2>3. Trim(SubSeq(Filled, 1, 3)) = <<>>
    BY <1>1, <2>2, BlankLine
  <2> QED BY <1>0, <2>1, <2>3 DEF ProcessLine
<1>7. /\ wire' = wire /\ Spot(k + 1, 2) /\ remain' = 0 /\ seen' = Start(k + 1) + 2
      /\ wire[k].kind = "prompt"
      /\ lines' = Says(wire)[k].lines /\ Received(Says(wire)[k - 1].data)
  <2>1. seen' = Start(k + 1) + 2
    BY <1>2, <1>5
  <2>2. wire[k].kind = "prompt" /\ lines = Says(wire)[k].lines /\ Received(Says(wire)[k - 1].data)
    BY DEF Reading, Spot
  <2>3. Len(wire) \in Nat
    BY <1>1 DEF GoodWire
  <2> QED BY <1>0, <1>1, <1>2, <1>6, <2>1, <2>2, <2>3 DEF Spot, dmaVars
<1>8. Reader'
  <2>1. Received(Says(wire)[k].data)
    BY <1>1, <1>7, NextSaid
  <2> QED BY <1>0, <1>1, <1>7, <2>1, ReadsNext
<1> QED BY <1>5, <1>8 DEF StreamInv

\* A line is handed on as it was sent.
LEMMA LineStep ==
  ASSUME Transport, NEW k, Reading(k, 2), link \in Links, wire[k].kind = "line", Line
  PROVE  StreamInv'
<1> DEFINE t == wire[k].text
           n == Len(t)
           m == Len(Filled)
<1>0. /\ left > 0 /\ ~HeadComplete /\ LineEnd # 0 /\ remain = 0 /\ rsp' = <<>>
      /\ Consume(LineEnd + 1 - Len(rsp))
      /\ ProcessLine(SubSeq(Filled, 1, Least(LineEnd + 1, m)))
      /\ UNCHANGED <<last, link, remain, data, got, lost>> /\ UNCHANGED dmaVars
  BY DEF Line
<1>1. /\ k \in 1..Len(wire) /\ GoodWire(wire) /\ Filled \in Seq(Symbols) /\ m \in Nat \ {0}
  BY <1>0, FilledIs DEF Held, Transport
<1>2. /\ n \in Nat \ {0} /\ t \in Seq(Symbols)
      /\ \A j \in 1..n : j <= m => Filled[j] = t[j] /\ Filled[j] \notin {"\r", "\n", ">", "recv"}
      /\ n + 1 <= m => Filled[n + 1] = "\r"
      /\ n + 2 <= m => Filled[n + 2] = "\n"
      /\ Start(k) + 2 + n + 2 = Start(k + 1)
  BY <1>0, LineHeld
<1>3. t[1] # "blank" /\ t[n] # "blank"
  BY <1>1, LineOnWire
<1>4. (m < n + 2 => LineEnd = 0) /\ (m >= n + 2 => LineEnd = n + 1)
  BY <1>0, LineVerdict
<1>5. Len(rsp) < n + 2 /\ Len(rsp) \in Nat
  <2>1. TokenLen(k, 2) = n + 2
    BY DEF TokenLen
  <2> QED BY <2>1, LenProperties DEF Reading
<1> HIDE DEF t
<1>6. m >= n + 2 /\ LineEnd = n + 1
  <2>1. ~(m < n + 2)
    BY <1>0, <1>4
  <2>2. m >= n + 2
    <3>1. m \in Nat /\ n \in Nat
      BY <1>1, <1>2
    <3> HIDE DEF m, n
    <3> QED BY ONLY <2>1, <3>1
  <2> QED BY <1>4, <2>2
<1> DEFINE e == n + 2
<1>7. e \in Nat /\ e <= m /\ LineEnd + 1 = e /\ Len(rsp) <= e /\ n < e
  BY <1>1, <1>2, <1>5, <1>6
<1>8. Transport' /\ seen' = Start(k) + 2 + e
  <2> HIDE DEF e
  <2>1. Consume(e - Len(rsp))
    <3>1. LineEnd \in Nat /\ e \in Nat /\ LineEnd + 1 = e /\ Len(rsp) \in Nat
      BY <1>2, <1>5, <1>6, <1>7
    <3>2. LineEnd + 1 - Len(rsp) = e - Len(rsp)
      BY ONLY <3>1
    <3> QED BY <1>0, <3>2
  <2> QED BY <1>0, <1>7, <2>1, Consumed
<1>9. lines' = Append(lines, t)
  <2>1. Least(LineEnd + 1, m) = e
    BY <1>7 DEF Least
  <2>2. e \in n..m /\ \A j \in 1..n : j <= m
    <3>1. e \in Nat /\ m \in Nat /\ n \in Nat /\ e <= m /\ n < e
      BY <1>1, <1>2, <1>7
    <3> HIDE DEF e, m, n
    <3> QED BY ONLY <3>1
  <2>3. \A i \in 1..n : Filled[i] = t[i]
    BY <1>2, <2>2
  <2>4. t[1] \notin Blanks /\ t[n] \notin Blanks
    <3>1. 1 \in 1..n /\ n \in 1..n
      BY <1>2
    <3> QED BY <1>2, <1>3, <2>2, <3>1 DEF Blanks
  <2>5. \A i \in 1..e : i > n => Filled[i] \in Blanks
    <3>1. \A i \in 1..e : i > n => i = n + 1 \/ i = n + 2
      BY <1>2
    <3>2. Filled[n + 1] = "\r" /\ Filled[n + 2] = "\n"
      BY <1>1, <1>2, <1>6
    <3> QED BY <3>1, <3>2 DEF Blanks
  <2> HIDE DEF e
  <2>6. Trim(SubSeq(Filled, 1, e)) = t
    BY <1>1, <1>2, <2>2, <2>3, <2>4, <2>5, TrimmedLine
  <2>7. t # <<>>
    BY <1>2
  <2> QED BY <1>0, <2>1, <2>6, <2>7 DEF ProcessLine
<1>10. /\ wire' = wire /\ Spot(k + 1, 0) /\ remain' = 0 /\ seen' = Start(k + 1) + 0
       /\ lines' = Says(wire)[k].lines /\ Received(Says(wire)[k].data)
  <2>1. seen' = Start(k + 1) + 0
    <3> DEFINE a == Start(k)
               b == Start(k + 1)
    <3>1. a \in Nat /\ b \in Nat /\ n \in Nat /\ a + 2 + n + 2 = b /\ seen' = a + 2 + (n + 2)
      <4>1. a \in Nat /\ b = a + Len(ItemBytes(wire[k])) /\ Len(ItemBytes(wire[k])) \in Nat
        BY <1>1, WireAt, SpellsType, LenProperties
      <4> QED BY <1>2, <1>8, <4>1
    <3> HIDE DEF a, b, n
    <3> QED BY <3>1 DEF a, b
  <2>2. lines = Says(wire)[k - 1].lines /\ Received(Says(wire)[k - 1].data)
    BY DEF Reading
  <2>3. Says(wire)[k].lines = Append(Says(wire)[k - 1].lines, t) /\ Says(wire)[k].data = Says(wire)[k - 1].data
    BY <1>1, NextSaid DEF t
  <2>4. Len(wire) \in Nat
    BY <1>1 DEF GoodWire
  <2> QED BY <1>0, <1>1, <1>9, <2>1, <2>2, <2>3, <2>4 DEF Spot, dmaVars
<1>11. Reader'
  BY <1>0, <1>1, <1>10, ReadsNext
<1> QED BY <1>8, <1>11 DEF StreamInv

\* A prompt is handed on, whether or not its blank is there.
LEMMA PromptStep ==
  ASSUME Transport, NEW k, Reading(k, 2), link \in Links, wire[k].kind = "prompt", Line
  PROVE  StreamInv'
<1> DEFINE m == Len(Filled)
<1>0. /\ left > 0 /\ ~HeadComplete /\ LineEnd # 0 /\ remain = 0 /\ rsp' = <<>>
      /\ Consume(LineEnd + 1 - Len(rsp))
      /\ ProcessLine(SubSeq(Filled, 1, Least(LineEnd + 1, m)))
      /\ UNCHANGED <<last, link, remain, data, got, lost>> /\ UNCHANGED dmaVars
  BY DEF Line
<1>1. /\ k \in 1..Len(wire) /\ GoodWire(wire) /\ Filled \in Seq(Symbols) /\ m \in Nat \ {0}
      /\ Len(wire) \in Nat /\ Len(Filled) = Len(rsp) + Added /\ Added \in 1..left
      /\ Len(Filled) < BufSize => Added = left
  BY <1>0, FilledIs, BytesType DEF Held, Transport
<1>2. /\ Start(k) \in Nat /\ Start(k + 1) = Start(k) + 4
      /\ Filled[1] = ">" /\ (m >= 2 => Filled[2] = "blank") /\ (m >= 3 => Filled[3] = "\r")
      /\ m < 4 => LineEnd = 1
      /\ m >= 4 => LineEnd = 3 /\ Filled[4] = "\n" /\ k + 1 \in 1..Len(wire)
  BY <1>0, PromptVerdict
<1>3. Len(rsp) = 0
  <2>1. TokenLen(k, 2) = 1
    BY DEF TokenLen
  <2> QED BY <2>1, LenProperties DEF Reading
<1>4. /\ lines = Says(wire)[k - 1].lines /\ Received(Says(wire)[k - 1].data)
      /\ Received(Says(wire)[k].data)
      /\ Says(wire)[k].lines = Append(Says(wire)[k - 1].lines, <<">">>)
  <2>1. lines = Says(wire)[k - 1].lines /\ Received(Says(wire)[k - 1].data)
    BY DEF Reading
  <2> QED BY <1>1, <2>1, NextSaid
<1>5. lines' = Says(wire)[k].lines
  <2> DEFINE e == Least(LineEnd + 1, m)
             t == <<">">>
  <2>1. e \in 1..m /\ e <= 4
    BY <1>1, <1>2 DEF Least
  <2>2. t \in Seq(Symbols) /\ Len(t) = 1 /\ t[1] = ">"
    BY StreamAssumption
  <2>3. \A i \in 1..e : i > 1 => Filled[i] \in Blanks
    <3>1. \A i \in 1..e : i > 1 => i <= m /\ i \in {2, 3, 4}
      BY <1>1, <2>1
    <3> QED BY <1>1, <1>2, <3>1 DEF Blanks
  <2> HIDE DEF e, t
  <2>4. /\ t[1] \notin Blanks /\ Len(t) \in Nat \ {0} /\ e \in Len(t)..m
        /\ \A i \in 1..Len(t) : Filled[i] = t[i]
        /\ \A i \in 1..e : i > Len(t) => Filled[i] \in Blanks
    BY <1>2, <2>1, <2>2, <2>3 DEF Blanks
  <2>5. Trim(SubSeq(Filled, 1, e)) = t
    BY <1>1, <2>2, <2>4, TrimmedLine
  <2>6. t # <<>>
    BY DEF t
  <2>7. lines' = Append(lines, t)
    BY <1>0, <2>5, <2>6 DEF ProcessLine, e
  <2> QED BY <1>4, <2>7 DEF t
<1>6. CASE m = 1
  <2>1. LineEnd = 1 /\ Least(2, left) = 1 /\ Consume(2)
    <3>1. Added = left
      <4>1. BufSize \in Nat /\ BufSize >= 3
        BY StreamAssumption
      <4>2. m < BufSize
        BY ONLY <1>6, <4>1
      <4> QED BY <1>1, <4>2
    <3>2. left = 1 /\ LineEnd = 1
      <4> HIDE DEF m
      <4>0. m = Len(rsp) + Added
        BY <1>1 DEF m
      <4>1. left \in Nat /\ m = Len(rsp) + left /\ Len(rsp) = 0 /\ m = 1
        BY <1>3, <1>6, <3>1, <4>0 DEF Transport
      <4>2. left = 1
        <5> DEFINE x == Len(rsp)
        <5>1. left \in Nat /\ 1 = x + left /\ x = 0
          BY <4>1
        <5> HIDE DEF x
        <5> QED BY ONLY <5>1
      <4>3. m < 4
        BY ONLY <1>6
      <4> QED BY <1>2, <4>2, <4>3
    <3>3. Consume(2)
      BY <1>0, <1>3, <3>2
    <3> QED BY <3>2, <3>3 DEF Least
  <2>2. Transport' /\ seen' = seen + 1
    <3>1. 2 \in Nat
      OBVIOUS
    <3> QED BY <1>0, <2>1, <3>1, ConsumeKeeps
  <2>3. /\ wire' = wire /\ Spot(k, 3) /\ remain' = 0 /\ seen' = Start(k) + 3
    BY <1>0, <1>1, <1>2, <1>3, <2>2 DEF Reading, Spot, dmaVars
  <2>4. lines' = (IF 3 = 3 THEN Says(wire)[k].lines ELSE Says(wire)[k - 1].lines)
    BY <1>5
  <2>5. Reader'
    BY <1>0, <1>1, <1>4, <2>3, <2>4, ReadsOn
  <2> QED BY <2>2, <2>5 DEF StreamInv
<1>7. CASE m \in {2, 3}
  <2>1. Transport' /\ seen' = Start(k) + 2 + 2
    <3>1. 2 \in Nat /\ Len(rsp) <= 2 /\ 2 <= Len(Filled) /\ LineEnd = 1
      BY <1>1, <1>2, <1>3, <1>7
    <3>2. Consume(2 - Len(rsp))
      BY <1>0, <1>3, <3>1
    <3> QED BY <1>0, <3>1, <3>2, Consumed
  <2>2. wire' = wire /\ Spot(k + 1, 0) /\ remain' = 0 /\ seen' = Start(k + 1) + 0 /\ 0 \in {0, 2}
    BY <1>0, <1>1, <1>2, <2>1 DEF Spot, dmaVars
  <2>3. Reader'
    BY <1>0, <1>1, <1>4, <1>5, <2>2, ReadsNext
  <2> QED BY <2>1, <2>3 DEF StreamInv
<1>8. CASE m >= 4
  <2>1. Transport' /\ seen' = Start(k) + 2 + 4
    <3>1. 4 \in Nat /\ Len(rsp) <= 4 /\ 4 <= Len(Filled) /\ LineEnd = 3
      BY <1>1, <1>2, <1>3, <1>8
    <3>2. Consume(4 - Len(rsp))
      BY <1>0, <1>3, <3>1
    <3> QED BY <1>0, <3>1, <3>2, Consumed
  <2>2. wire' = wire /\ Spot(k + 1, 2) /\ remain' = 0 /\ seen' = Start(k + 1) + 2 /\ 2 \in {0, 2}
    BY <1>0, <1>1, <1>2, <1>8, <2>1 DEF Spot, dmaVars
  <2>3. Reader'
    BY <1>0, <1>1, <1>4, <1>5, <2>2, ReadsNext
  <2> QED BY <2>1, <2>3 DEF StreamInv
<1>9. m = 1 \/ m \in {2, 3} \/ m >= 4
  <2>1. m \in Nat \ {0}
    BY <1>1
  <2> HIDE DEF m
  <2> QED BY ONLY <2>1
<1> QED BY <1>6, <1>7, <1>8, <1>9

\* The complete head of a report opens its body.
LEMMA HeaderStep ==
  ASSUME Transport, NEW k, NEW o, Reading(k, o), Header
  PROVE  StreamInv'
<1> DEFINE d == Figures(wire[k])
           n == Len(d)
           m == Len(Filled)
           b == wire[k].body
<1>0. /\ left > 0 /\ HeadComplete /\ remain = 0 /\ rsp' = <<>>
      /\ link' = Filled[HeadAt + 2] /\ remain' = Number(HeadDigits)
      /\ Consume(HeadLen - Len(rsp))
      /\ UNCHANGED <<last, lines, data, got, lost>> /\ UNCHANGED dmaVars
  BY DEF Header
<1>1. /\ k \in 1..Len(wire) /\ GoodWire(wire) /\ Filled \in Seq(Symbols) /\ m \in Nat \ {0}
      /\ Len(wire) \in Nat
  BY <1>0, FilledIs, BytesType DEF Held, Transport
<1>2. o = 2 /\ wire[k].kind = "data"
  <2>1. Spot(k, o)
    BY DEF Reading
  <2>2. o # 0
    <3>1. o = 0 => ~(m < 2) /\ ~(m >= 2)
      BY <1>0, WaitsAtStart, BeginningVerdict
    <3> HIDE DEF m
    <3> QED BY <1>1, <3>1
  <2>3. o # 3
    <3>1. o = 3 => ~(m < 3) /\ ~(m >= 3)
      BY <1>0, WaitsBehindPrompt, BlankVerdict
    <3> HIDE DEF m
    <3> QED BY <1>1, <3>1
  <2>4. o = 2
    BY <2>1, <2>2, <2>3 DEF Spot
  <2>5. wire[k].kind # "line" /\ wire[k].kind # "prompt"
    BY <1>0, <2>4, LineVerdict, PromptVerdict
  <2> QED BY <1>1, <2>4, <2>5, KindIs
<1>3. /\ d \in Seq(Digits) /\ n \in Nat \ {0} /\ Number(d) = Len(b)
      /\ b \in Seq(Symbols) /\ Len(b) \in Nat \ {0} /\ wire[k].link \in Links
      /\ Start(k) + 2 + 5 + n + Len(b) = Start(k + 1)
  BY <1>1, <1>2, ReportOnWire
<1>4. /\ m < n + 5 => ~HeadComplete /\ LineEnd = 0
      /\ m >= n + 5 => /\ HeadComplete /\ HeadDigits = d
                       /\ HeadLen = n + 5 /\ Filled[HeadAt + 2] = wire[k].link
  BY <1>0, <1>2, ReportVerdict
<1>5. Len(rsp) \in Nat /\ Len(rsp) < n + 5
  <2>1. TokenLen(k, 2) = 5 + n
    BY <1>2 DEF TokenLen
  <2>2. Len(rsp) < 5 + n /\ Len(rsp) \in Nat
    BY <1>2, <2>1, LenProperties DEF Reading
  <2> HIDE DEF n
  <2> QED BY <1>3, <2>2
<1> DEFINE e == n + 5
<1>6. m >= e /\ e \in Nat
  <2>1. ~(m < n + 5) /\ m \in Nat /\ n \in Nat
    BY <1>0, <1>1, <1>3, <1>4
  <2> HIDE DEF m, n
  <2> QED BY ONLY <2>1 DEF e
<1>7. HeadDigits = d /\ HeadLen = e /\ link' = wire[k].link /\ remain' = Len(b) /\ remain' \in Nat \ {0}
  BY <1>0, <1>3, <1>4, <1>6
<1> HIDE DEF b
<1>8. Transport' /\ seen' = Start(k) + 2 + e
  <2> HIDE DEF e
  <2>1. Consume(e - Len(rsp))
    BY <1>0, <1>7
  <2>2. Len(rsp) <= e /\ e <= Len(Filled)
    BY <1>5, <1>6 DEF e
  <2> QED BY <1>0, <1>2, <1>6, <2>1, <2>2, Consumed
<1>9. wire' = wire /\ seen' + remain' = Start(k + 1) /\ Start(k + 1)' = Start(k + 1)
  <2>1. Start(k) \in Nat
    BY <1>1, BeginningOnWire
  <2>2. seen' + remain' = Start(k + 1)
    <3> DEFINE a == Start(k)
    <3>1. /\ seen' = a + 2 + (n + 5) /\ remain' = Len(b) /\ a + 2 + 5 + n + Len(b) = Start(k + 1)
          /\ n \in Nat /\ a \in Nat /\ Len(b) \in Nat
      BY <1>3, <1>7, <1>8, <2>1 DEF b
    <3> HIDE DEF n, a
    <3> QED BY ONLY <3>1
  <2> QED BY <1>0, <2>2 DEF Start, dmaVars
<1>10. /\ lines = Says(wire)[k - 1].lines /\ Received(Says(wire)[k - 1].data)
  BY <1>2 DEF Reading
<1>11. Says(wire)[k].lines = Says(wire)[k - 1].lines /\ Says(wire)[k - 1].data \in [Links -> Seq(Symbols)]
  BY <1>1, <1>2, NextSaid
<1>12. Partial(k, Len(b)) = Says(wire)[k - 1].data
  <2> DEFINE s == Says(wire)[k - 1].data
  <2>1. SubSeq(b, 1, Len(b) - Len(b)) = <<>>
    <3>1. Len(b) - Len(b) = 0
      BY <1>3 DEF b
    <3>2. SubSeq(b, 1, 0) = <<>>
      BY SubSeqEmpty
    <3> QED BY <3>1, <3>2
  <2>2. Partial(k, Len(b)) = [l \in Links |-> IF l = wire[k].link THEN s[l] \o <<>> ELSE s[l]]
    BY <2>1, Zenon DEF Partial, b
  <2>3. s \in [Links -> Seq(Symbols)]
    BY <1>11
  <2> HIDE DEF s
  <2>4. \A l \in Links : s[l] \o <<>> = s[l]
    <3>1. \A l \in Links : s[l] \in Seq(Symbols)
      BY <2>3
    <3> QED BY <3>1, ConcatEmptySeq
  <2>5. [l \in Links |-> IF l = wire[k].link THEN s[l] \o <<>> ELSE s[l]] = s
    BY <2>3, <2>4
  <2> QED BY <2>2, <2>5 DEF s
<1>13. Received(Partial(k, remain))'
  <2>1. Partial(k, remain)' = Partial(k, Len(b))
    BY <1>7, <1>9 DEF Partial, b
  <2>2. Partial(k, remain)' = Says(wire)[k - 1].data
    BY <1>12, <2>1
  <2> QED BY <1>0, <1>10, <2>2 DEF Received
<1>14. Awaiting(k)'
  <2>1. remain' \in 1..Len(wire'[k].body)
    BY <1>3, <1>7, <1>9 DEF b
  <2>2. lines' = Says(wire')[k].lines
    BY <1>0, <1>9, <1>10, <1>11
  <2> QED BY <1>0, <1>1, <1>2, <1>7, <1>9, <1>13, <2>1, <2>2 DEF Awaiting
<1>15. Reader'
  <2>1. k \in 1..Len(wire') /\ link' \in Links
    BY <1>1, <1>3, <1>7, <1>9
  <2> QED BY <1>14, <2>1 DEF Reader
<1> QED BY <1>8, <1>15 DEF StreamInv

-----------------------------------------------------------------------------
(* Stream: the bytes of a report.                                           *)

\* What a socket was sent and what has become of it, when another piece is stored.
LEMMA ReceivedMore ==
  ASSUME NEW d \in [Links -> Seq(Symbols)], NEW e \in [Links -> Seq(Symbols)],
         NEW l \in Links, NEW p \in Seq(Symbols), Len(p) \in Nat \ {0},
         e[l] = d[l] \o p, \A x \in Links : x # l => e[x] = d[x],
         Received(d), StoreData(l, p), UNCHANGED got
  PROVE  /\ got' \in [Links -> Seq(Symbols)] /\ data' \in [Links -> Seq(Symbols)]
         /\ lost' \in [Links -> Nat]
         /\ \A x \in Links : /\ Len(data'[x]) <= DataSize
                             /\ lost'[x] = 0 => got'[x] \o data'[x] = e[x]
                             /\ Len(got'[x]) + Len(data'[x]) + lost'[x] = Len(e[x])
<1> DEFINE g == got[l]
           w == data[l]
           z == lost[l]
           s == d[l]
           n == Len(p)
<1>0. /\ got \in [Links -> Seq(Symbols)] /\ data \in [Links -> Seq(Symbols)] /\ lost \in [Links -> Nat]
      /\ \A x \in Links : /\ Len(data[x]) <= DataSize
                          /\ lost[x] = 0 => got[x] \o data[x] = d[x]
                          /\ Len(got[x]) + Len(data[x]) + lost[x] = Len(d[x])
  BY DEF Received
<1>1. g \in Seq(Symbols) /\ w \in Seq(Symbols) /\ z \in Nat /\ s \in Seq(Symbols)
  BY <1>0
<1>2. Len(w) <= DataSize /\ (z = 0 => g \o w = s) /\ Len(g) + Len(w) + z = Len(s)
  BY <1>0
<1>3. DataSize \in Nat \ {0}
  BY StreamAssumption
<1>4. \A x \in Links : x # l => /\ Len(data[x]) <= DataSize
                                /\ lost[x] = 0 => got[x] \o data[x] = e[x]
                                /\ Len(got[x]) + Len(data[x]) + lost[x] = Len(e[x])
  BY <1>0
<1>5. e[l] = s \o p
  OBVIOUS
<1>6. Occupied(l) = IF Len(w) < DataSize THEN Len(w) ELSE 0
  <2>1. Len(w) \in Nat
    BY <1>1, LenProperties
  <2>2. Len(w) \in 0..DataSize
    BY <1>2, <1>3, <2>1
  <2>3. Occupied(l) = Len(w) % DataSize
    BY DEF Occupied
  <2> HIDE DEF w
  <2> QED BY <1>3, <2>2, <2>3, Small
<1>7. /\ g \in Seq(Symbols) /\ w \in Seq(Symbols) /\ s \in Seq(Symbols) /\ p \in Seq(Symbols)
      /\ z \in Nat /\ Len(g) \in Nat /\ Len(w) \in Nat /\ Len(s) \in Nat /\ n \in Nat \ {0}
  BY <1>1, LenProperties
<1>8. Len(s \o p) = Len(s) + n /\ w \o p \in Seq(Symbols) /\ Len(w \o p) = Len(w) + n
  <2> HIDE DEF s, w
  <2> QED BY ONLY <1>7, ConcatProperties DEF n
<1> HIDE DEF s
<1> DEFINE a == Len(g)
           b == Len(w)
           c == Len(s)
           f == Len(s \o p)
<1>m. /\ a \in Nat /\ b \in Nat /\ c \in Nat /\ z \in Nat /\ n \in Nat \ {0}
       /\ a + b + z = c /\ f = c + n /\ b <= DataSize
  BY <1>2, <1>7, <1>8
<1>9. CASE n > DataSize - Occupied(l)
  <2>1. lost' = [lost EXCEPT ![l] = @ + n] /\ data' = data /\ got' = got
    BY <1>9 DEF StoreData
  <2>2. lost'[l] = z + n /\ lost' \in [Links -> Nat] /\ \A x \in Links : x # l => lost'[x] = lost[x]
    BY <1>0, <1>7, <2>1
  <2>3. a + b + (z + n) = f /\ z + n # 0
    <3> HIDE DEF a, b, c, f, z, n
    <3> QED BY ONLY <1>m
  <2>4. /\ Len(data'[l]) <= DataSize
        /\ lost'[l] = 0 => got'[l] \o data'[l] = e[l]
        /\ Len(got'[l]) + Len(data'[l]) + lost'[l] = Len(e[l])
    BY <1>2, <1>5, <2>1, <2>2, <2>3
  <2> QED BY <1>0, <1>4, <2>1, <2>2, <2>4
<1>10. CASE ~(n > DataSize - Occupied(l)) /\ Occupied(l) = 0
  <2>1. lost' = [lost EXCEPT ![l] = @ + Len(w)] /\ data' = [data EXCEPT ![l] = p] /\ got' = got
    BY <1>10 DEF StoreData
  <2>2. lost'[l] = z + Len(w) /\ lost' \in [Links -> Nat] /\ \A x \in Links : x # l => lost'[x] = lost[x]
    BY <1>0, <1>7, <2>1
  <2>3. data'[l] = p /\ data' \in [Links -> Seq(Symbols)] /\ \A x \in Links : x # l => data'[x] = data[x]
    BY <1>0, <2>1
  <2>4. a + n + (z + b) = f /\ n <= DataSize /\ (z + b = 0 => z = 0 /\ b = 0)
    <3> HIDE DEF a, b, c, f, z, n
    <3> QED BY ONLY <1>3, <1>10, <1>m
  <2>5. z + Len(w) = 0 => g \o p = s \o p
    <3> SUFFICES ASSUME z + Len(w) = 0 PROVE g \o p = s \o p
      OBVIOUS
    <3>1. w = <<>>
      BY <1>7, <2>4, EmptySeq
    <3>2. g \o w = g
      BY <1>7, <3>1, ConcatEmptySeq
    <3>3. g = s
      BY <1>2, <2>4, <3>2
    <3> QED BY <3>3
  <2>6. /\ Len(data'[l]) <= DataSize
        /\ lost'[l] = 0 => got'[l] \o data'[l] = e[l]
        /\ Len(got'[l]) + Len(data'[l]) + lost'[l] = Len(e[l])
    BY <1>5, <2>1, <2>2, <2>3, <2>4, <2>5
  <2> QED BY <1>0, <1>4, <2>1, <2>2, <2>3, <2>6
<1>11. CASE ~(n > DataSize - Occupied(l)) /\ Occupied(l) # 0
  <2>1. data' = [data EXCEPT ![l] = @ \o p] /\ lost' = lost /\ got' = got
    BY <1>11 DEF StoreData
  <2>2. data'[l] = w \o p /\ data' \in [Links -> Seq(Symbols)] /\ \A x \in Links : x # l => data'[x] = data[x]
    BY <1>0, <1>8, <2>1
  <2>3. Len(w) + n <= DataSize
    <3> HIDE DEF w, n
    <3> QED BY ONLY <1>3, <1>6, <1>7, <1>11
  <2>4. z = 0 => g \o (w \o p) = s \o p
    <3> SUFFICES ASSUME z = 0 PROVE g \o (w \o p) = s \o p
      OBVIOUS
    <3>1. (g \o w) \o p = g \o (w \o p)
      <4> HIDE DEF g, w
      <4>1. g \in Seq(Symbols) /\ w \in Seq(Symbols) /\ p \in Seq(Symbols)
        BY <1>7
      <4> QED BY ONLY <4>1
    <3> QED BY <1>2, <3>1
  <2>5. a + (b + n) + z = c + n
    <3> HIDE DEF a, b, c, f, z, n
    <3> QED BY ONLY <1>m
  <2>6. /\ Len(data'[l]) <= DataSize
        /\ lost'[l] = 0 => got'[l] \o data'[l] = e[l]
        /\ Len(got'[l]) + Len(data'[l]) + lost'[l] = Len(e[l])
    BY <1>5, <1>8, <2>1, <2>2, <2>3, <2>4, <2>5
  <2> QED BY <1>0, <1>4, <2>1, <2>2, <2>6
<1> QED BY <1>9, <1>10, <1>11

\* Part of the body of a report is stored.
LEMMA BodyStep ==
  ASSUME Transport, NEW k, Awaiting(k), Body
  PROVE  StreamInv'
<1> DEFINE n == Least(remain, left)
           d == Figures(wire[k])
           h == Len(d)
           b == wire[k].body
           q == Start(k) + 2 + 5 + h
           a == Len(b) - remain
           l == wire[k].link
           s == Says(wire)[k - 1].data
           r == remain - n
           v == Piece(n)
<1>0. /\ left > 0 /\ remain > 0 /\ StoreData(link, v) /\ remain' = r /\ Consume(n)
      /\ UNCHANGED <<last, rsp, link, lines, got>> /\ UNCHANGED dmaVars
  BY DEF Body
<1>1. /\ k \in 1..Len(wire) /\ GoodWire(wire) /\ wire[k].kind = "data" /\ link = l
      /\ rsp = <<>> /\ remain \in 1..Len(b) /\ seen + remain = Start(k + 1)
      /\ lines = Says(wire)[k].lines /\ Received(Partial(k, remain)) /\ Len(wire) \in Nat
      /\ left \in Nat /\ seen \in Nat
  BY BytesType DEF Awaiting, Transport
<1>2. /\ h \in Nat /\ b \in Seq(Symbols) /\ Len(b) \in Nat \ {0} /\ l \in Links
      /\ Start(k) + 2 + 5 + h + Len(b) = Start(k + 1)
      /\ \A j \in 1..Len(b) : Bytes[q + j] = b[j]
  BY <1>1, ReportOnWire
<1>3. /\ n \in 1..left /\ n <= remain /\ r \in 0..Len(b) /\ remain \in Nat
  <2>1. n = IF remain <= left THEN remain ELSE left
    BY DEF Least
  <2>2. remain \in Nat /\ remain > 0 /\ left \in Nat /\ left > 0 /\ Len(b) \in Nat /\ remain <= Len(b)
    BY <1>0, <1>1, <1>2
  <2>3. n \in 1..left /\ n <= remain /\ n \in Nat
    <3> HIDE DEF n
    <3> QED BY ONLY <2>1, <2>2
  <2> DEFINE c == Len(b)
  <2>4. remain - n \in 0..c
    <3>1. c \in Nat /\ remain <= c
      BY <2>2
    <3> HIDE DEF n, c
    <3> QED BY ONLY <2>2, <2>3, <3>1
  <2> QED BY <2>2, <2>3, <2>4
<1> HIDE DEF n
<1>4. /\ a \in Nat /\ a + n <= Len(b) /\ a + n = Len(b) - r /\ seen = q + a /\ q \in Nat
  <2>1. Start(k) \in Nat
    BY <1>1, BeginningOnWire
  <2> DEFINE c == Len(b)
             x == Start(k)
  <2>2. /\ x \in Nat /\ h \in Nat /\ c \in Nat /\ remain \in Nat /\ remain <= c /\ seen \in Nat
        /\ n \in Nat /\ n <= remain /\ seen + remain = x + 2 + 5 + h + c
    BY <1>1, <1>2, <1>3, <2>1
  <2> HIDE DEF c, x, h
  <2>3. /\ c - remain \in Nat /\ c - remain + n <= c /\ c - remain + n = c - (remain - n)
        /\ seen = x + 2 + 5 + h + (c - remain) /\ x + 2 + 5 + h \in Nat
    BY ONLY <2>2
  <2> QED BY <2>3 DEF c, x
<1> HIDE DEF d, q
<1>5. v \in Seq(Symbols) /\ Len(v) = n /\ \A j \in 1..n : v[j] = Bytes[seen + j]
  <2>1. n \in 0..left
    BY <1>3
  <2> QED BY <2>1, PieceIs
<1>6. v = SubSeq(b, a + 1, a + n)
  <2> DEFINE f == a + 1
             g == a + n
             u == SubSeq(b, f, g)
             c == Len(b)
  <2>1. a \in Nat /\ n \in Nat /\ a + n <= c /\ seen = q + a /\ q \in Nat /\ c \in Nat
    BY <1>2, <1>3, <1>4
  <2>2. /\ f \in Nat \ {0} /\ g \in Nat /\ g <= c /\ f <= g + 1 /\ g - f + 1 = n
        /\ \A j \in 1..n : f + j - 1 = a + j /\ seen + j = q + (a + j) /\ a + j \in 1..c
    <3> HIDE DEF a, c
    <3> QED BY ONLY <2>1 DEF f, g
  <2>3. b \in Seq(Symbols) /\ \A j \in 1..c : Bytes[q + j] = b[j]
    BY <1>2
  <2> HIDE DEF v, a, b, f, g
  <2>4. /\ u \in Seq(Symbols) /\ Len(u) = g - f + 1
        /\ \A j \in 1..(g - f + 1) : u[j] = b[f + j - 1]
    BY ONLY <2>2, <2>3, Cut, SMT
  <2> HIDE DEF u
  <2>5. Len(u) = n /\ \A j \in 1..n : u[j] = b[a + j]
    BY <2>2, <2>4
  <2>6. \A j \in 1..n : v[j] = b[a + j]
    BY <1>5, <2>2, <2>3
  <2>7. v \in Seq(Symbols) /\ u \in Seq(Symbols) /\ Len(v) = Len(u) /\ \A j \in 1..Len(v) : v[j] = u[j]
    BY <1>5, <2>4, <2>5, <2>6
  <2>8. v = u
    BY ONLY <2>7, SeqEqual, SMT
  <2> QED BY <2>8 DEF u, f, g
<1> HIDE DEF v
<1>7. SubSeq(b, 1, a) \o v = SubSeq(b, 1, a + n) /\ SubSeq(b, 1, a) \in Seq(Symbols)
  <2>1. 1 \in 1..(Len(b) + 1) /\ a \in (1 - 1)..Len(b) /\ a + n \in a..Len(b)
    <3> DEFINE c == Len(b)
    <3>1. a \in Nat /\ n \in Nat /\ a + n <= c /\ c \in Nat
      BY <1>2, <1>3, <1>4
    <3> HIDE DEF a, c
    <3>2. 1 \in 1..(c + 1) /\ a \in (1 - 1)..c /\ a + n \in a..c
      BY ONLY <3>1
    <3> QED BY <3>2 DEF c
  <2> HIDE DEF a, b
  <2>2. SubSeq(b, 1, a) \o SubSeq(b, a + 1, a + n) = SubSeq(b, 1, a + n)
    BY <1>2, <2>1, ConcatAdjacentSubSeq
  <2>3. SubSeq(b, 1, a) \in Seq(Symbols)
    <3>1. 1 \in Nat \ {0} /\ a \in Nat /\ a <= Len(b) /\ 1 <= a + 1
      BY <1>4, <2>1 DEF a
    <3> QED BY <1>2, <3>1, Cut, SMT
  <2> QED BY <1>6, <2>2, <2>3
<1>8. s \in [Links -> Seq(Symbols)]
  BY <1>1, NextSaid
<1>9. /\ Partial(k, remain) = [x \in Links |-> IF x = l THEN s[x] \o SubSeq(b, 1, a) ELSE s[x]]
      /\ Partial(k, r) = [x \in Links |-> IF x = l THEN s[x] \o SubSeq(b, 1, a + n) ELSE s[x]]
  <2>1. Partial(k, r) = [x \in Links |-> IF x = l THEN s[x] \o SubSeq(b, 1, Len(b) - r) ELSE s[x]]
    BY Zenon DEF Partial
  <2>2. Partial(k, remain) = [x \in Links |-> IF x = l THEN s[x] \o SubSeq(b, 1, a) ELSE s[x]]
    BY Zenon DEF Partial
  <2>3. Len(b) - r = a + n
    BY <1>4
  <2> QED BY <2>1, <2>2, <2>3, Zenon
<1> DEFINE e == Partial(k, remain)
           f == Partial(k, r)
           u == SubSeq(b, 1, a)
           w == SubSeq(b, 1, a + n)
<1>10. /\ e \in [Links -> Seq(Symbols)] /\ f \in [Links -> Seq(Symbols)]
       /\ f[l] = e[l] \o v /\ \A x \in Links : x # l => f[x] = e[x]
  <2>1. w = u \o v /\ u \in Seq(Symbols) /\ w \in Seq(Symbols)
    <3>1. w = u \o v /\ u \in Seq(Symbols)
      BY <1>7
    <3> HIDE DEF u, w
    <3> QED BY <1>5, <3>1, ConcatProperties
  <2>2. /\ e = [x \in Links |-> IF x = l THEN s[x] \o u ELSE s[x]]
        /\ f = [x \in Links |-> IF x = l THEN s[x] \o w ELSE s[x]]
    BY <1>9
  <2> HIDE DEF e, f, u, w, s
  <2>3. \A x \in Links : s[x] \in Seq(Symbols) /\ s[x] \o u \in Seq(Symbols) /\ s[x] \o w \in Seq(Symbols)
    <3>1. \A x \in Links : s[x] \in Seq(Symbols)
      BY <1>8
    <3> QED BY <2>1, <3>1, ConcatProperties
  <2>4. (s[l] \o u) \o v = s[l] \o w
    <3> DEFINE g == s[l]
    <3>1. g \in Seq(Symbols) /\ u \in Seq(Symbols) /\ v \in Seq(Symbols) /\ w = u \o v
      BY <1>2, <1>5, <2>1, <2>3
    <3> HIDE DEF g
    <3>2. (g \o u) \o v = g \o w
      BY ONLY <3>1
    <3> QED BY <3>2 DEF g
  <2>5. e[l] = s[l] \o u /\ f[l] = s[l] \o w /\ \A x \in Links : x # l => f[x] = e[x]
    BY <1>2, <2>2
  <2>6. e \in [Links -> Seq(Symbols)] /\ f \in [Links -> Seq(Symbols)]
    BY <2>2, <2>3
  <2> QED BY <2>4, <2>5, <2>6
<1>11. /\ got' \in [Links -> Seq(Symbols)] /\ data' \in [Links -> Seq(Symbols)]
       /\ lost' \in [Links -> Nat]
       /\ \A x \in Links : /\ Len(data'[x]) <= DataSize
                           /\ lost'[x] = 0 => got'[x] \o data'[x] = f[x]
                           /\ Len(got'[x]) + Len(data'[x]) + lost'[x] = Len(f[x])
  <2>1. Received(e) /\ StoreData(l, v) /\ l \in Links /\ UNCHANGED got /\ Len(v) \in Nat \ {0} /\ v \in Seq(Symbols)
    BY <1>0, <1>1, <1>2, <1>3, <1>5
  <2> HIDE DEF e, f, l
  <2> QED BY <1>10, <2>1, ReceivedMore
<1>12. Transport' /\ seen' = seen + n
  <2>1. n \in Nat /\ Least(n, left) = n
    BY <1>3 DEF Least
  <2> QED BY <1>0, <2>1, ConsumeKeeps
<1>13. wire' = wire /\ Start(k + 1)' = Start(k + 1)
  BY <1>0 DEF dmaVars, Start
<1>14. seen' + r = Start(k + 1)
  BY <1>1, <1>3, <1>12
<1>15. CASE r = 0
  <2>1. f = Says(wire)[k].data
    <3> DEFINE t == Says(wire)[k].data
    <3>1. w = b
      <4>1. a + n = Len(b)
        BY <1>2, <1>4, <1>15
      <4> QED BY <1>2, <4>1, SubSeqFull
    <3>2. \A x \in Links : t[x] = IF x = l THEN s[x] \o b ELSE s[x]
      <4> DEFINE y == Says(wire)[k - 1]
                 z == wire[k]
      <4>1. t = Said(y, z).data /\ y \in Heard /\ GoodItem(z) /\ z.kind = "data"
        BY <1>1, WireAt
      <4> HIDE DEF t, y, z
      <4>2. \A x \in Links : Said(y, z).data[x] = IF z.kind = "data" /\ z.link = x
                                                  THEN y.data[x] \o z.body ELSE y.data[x]
        BY <4>1, SaidIs
      <4>3. \A x \in Links : t[x] = IF x = z.link THEN y.data[x] \o z.body ELSE y.data[x]
        BY <4>1, <4>2
      <4> QED BY <4>3 DEF y, z
    <3>3. t \in [Links -> Seq(Symbols)]
      BY <1>1, NextSaid
    <3>4. \A x \in Links : f[x] = IF x = l THEN s[x] \o w ELSE s[x]
      BY <1>9
    <3> HIDE DEF f, t, w, s, b, l
    <3>5. \A x \in Links : f[x] = t[x]
      BY <3>1, <3>2, <3>4
    <3> QED BY <1>10, <3>3, <3>5 DEF t
  <2> DEFINE j == k + 1
             g == Says(wire)[j - 1]
  <2>2. j - 1 = k /\ j \in 1..(Len(wire) + 1) /\ 0 \in {0, 2, 3}
    BY <1>1
  <2> HIDE DEF j
  <2>3. g = Says(wire)[k]
    BY <2>2
  <2>4. Received(g.data)'
    <3>1. g.data' = f
      BY <1>13, <2>1, <2>3
    <3> HIDE DEF f, g
    <3> QED BY <1>11, <3>1 DEF Received
  <2>5. Reading(j, 0)'
    <3>1. TokenLen(j, 0)' = 2 /\ Spot(j, 0)'
      BY <1>13, <2>2 DEF TokenLen, Spot
    <3>2. /\ remain' = 0 /\ rsp' = <<>> /\ Len(rsp') = 0 /\ rsp' \in Seq(Symbols)
          /\ seen' = Start(j)' + 0 + Len(rsp') /\ lines' = g.lines'
      <4>1. Start(j)' = Start(j) /\ Start(j) = Start(k + 1)
        BY <1>13 DEF j
      <4>2. Len(rsp') = 0 /\ rsp' = <<>>
        BY <1>0, <1>1
      <4>3. seen' = Start(k + 1) /\ seen' \in Nat
        BY <1>1, <1>3, <1>12, <1>14, <1>15
      <4>4. lines' = g.lines'
        BY <1>0, <1>1, <1>13, <2>3
      <4> QED BY <1>0, <1>15, <4>1, <4>2, <4>3, <4>4
    <3> QED BY <2>4, <3>1, <3>2 DEF Reading
  <2>6. Reader'
    BY <1>0, <1>1, <1>2, <1>13, <2>2, <2>5 DEF Reader
  <2> QED BY <1>12, <2>6 DEF StreamInv
<1>16. CASE r # 0
  <2>1. Received(Partial(k, remain))'
    <3>1. Partial(k, remain)' = f
      BY <1>0, <1>13 DEF Partial
    <3> HIDE DEF f
    <3> QED BY <1>11, <3>1 DEF Received
  <2>2. Awaiting(k)'
    <3>1. remain' \in 1..Len(wire'[k].body)
      BY <1>0, <1>2, <1>3, <1>13, <1>16
    <3>2. seen' + remain' = Start(k + 1)'
      BY <1>0, <1>13, <1>14
    <3> QED BY <1>0, <1>1, <1>13, <2>1, <3>1, <3>2 DEF Awaiting
  <2>3. Reader'
    BY <1>0, <1>1, <1>2, <1>13, <2>2 DEF Reader
  <2> QED BY <1>12, <2>3 DEF StreamInv
<1> QED BY <1>15, <1>16

-----------------------------------------------------------------------------
(* Stream: the inductive invariant.                                         *)

\* A step that leaves the parser alone, and the sockets' bytes accounted for.
LEMMA ReaderStays ==
  ASSUME Reader, UNCHANGED <<wire, seen, rsp, link, remain, lines>>,
         \A d : Received(d) => Received(d)'
  PROVE  Reader'
<1>1. link' \in Links
  BY DEF Reader
<1>2. ASSUME NEW k \in 1..(Len(wire) + 1), NEW o \in {0, 2, 3}, Reading(k, o) PROVE Reading(k, o)'
  <2>1. Received(Says(wire)[k - 1].data)'
    <3>1. Received(Says(wire)[k - 1].data)
      BY <1>2 DEF Reading
    <3> QED BY <3>1 DEF Received
  <2> QED BY <1>2, <2>1 DEF Reading, Spot, TokenLen, Start, Bytes, Whole
<1>3. ASSUME NEW k \in 1..Len(wire), Awaiting(k) PROVE Awaiting(k)'
  <2>1. Received(Partial(k, remain))'
    <3>1. Received(Partial(k, remain))
      BY <1>3 DEF Awaiting
    <3>2. Partial(k, remain)' = Partial(k, remain)
      BY DEF Partial
    <3> QED BY <3>1, <3>2 DEF Received
  <2> QED BY <1>3, <2>1 DEF Awaiting, Start
<1> QED BY <1>1, <1>2, <1>3 DEF Reader

\* Read: the socket task takes the bytes that wait.
LEMMA ReadStep == ASSUME StreamInv, NEW l \in Links, Read(l) PROVE StreamInv'
<1>0. /\ got' = [got EXCEPT ![l] = @ \o data[l]] /\ data' = [data EXCEPT ![l] = <<>>] /\ lost' = lost
      /\ UNCHANGED <<last, from, left, rest, seen, rsp, link, remain, lines>>
      /\ UNCHANGED dmaVars
  BY DEF Read
<1>1. ASSUME NEW d, Received(d) PROVE Received(d)'
  <2> DEFINE g == got[l]
             w == data[l]
             z == lost[l]
  <2>1. /\ got \in [Links -> Seq(Symbols)] /\ data \in [Links -> Seq(Symbols)] /\ lost \in [Links -> Nat]
        /\ \A x \in Links : /\ Len(data[x]) <= DataSize
                            /\ lost[x] = 0 => got[x] \o data[x] = d[x]
                            /\ Len(got[x]) + Len(data[x]) + lost[x] = Len(d[x])
    BY <1>1 DEF Received
  <2>2. g \in Seq(Symbols) /\ w \in Seq(Symbols) /\ z \in Nat /\ DataSize \in Nat
    BY <2>1, StreamAssumption
  <2>3. Len(g) + Len(w) + z = Len(d[l]) /\ (z = 0 => g \o w = d[l])
    BY <2>1
  <2>4. /\ got'[l] = g \o w /\ data'[l] = <<>> /\ lost'[l] = z
        /\ \A x \in Links : x # l => got'[x] = got[x] /\ data'[x] = data[x] /\ lost'[x] = lost[x]
    BY <1>0, <2>1
  <2>5. g \o w \in Seq(Symbols) /\ Len(g \o w) = Len(g) + Len(w) /\ (g \o w) \o <<>> = g \o w /\ Len(<<>>) = 0
    <3> HIDE DEF g, w
    <3>1. g \o w \in Seq(Symbols) /\ Len(g \o w) = Len(g) + Len(w)
      BY <2>2, ConcatProperties
    <3> QED BY <3>1, ConcatEmptySeq
  <2>6. got' \in [Links -> Seq(Symbols)] /\ data' \in [Links -> Seq(Symbols)] /\ lost' \in [Links -> Nat]
    BY <1>0, <2>1, <2>5
  <2>7. /\ Len(data'[l]) <= DataSize
        /\ lost'[l] = 0 => got'[l] \o data'[l] = d[l]
        /\ Len(got'[l]) + Len(data'[l]) + lost'[l] = Len(d[l])
    <3>1. Len(g) \in Nat /\ Len(w) \in Nat
      BY <2>2, LenProperties
    <3> HIDE DEF g, w, z
    <3> QED BY <2>2, <2>3, <2>4, <2>5, <3>1
  <2>8. \A x \in Links : /\ Len(data'[x]) <= DataSize
                         /\ lost'[x] = 0 => got'[x] \o data'[x] = d[x]
                         /\ Len(got'[x]) + Len(data'[x]) + lost'[x] = Len(d[x])
    BY <2>1, <2>4, <2>7
  <2> QED BY <2>6, <2>8 DEF Received
<1>2. Reader'
  <2>1. UNCHANGED <<wire, seen, rsp, link, remain, lines>>
    BY <1>0 DEF dmaVars
  <2> QED BY <1>1, <2>1, ReaderStays DEF StreamInv
<1>3. Transport'
  BY <1>0, TransportStays DEF StreamInv
<1> QED BY <1>2, <1>3 DEF StreamInv

\* Arrive and Interrupt leave the parser alone.
LEMMA ArrivalStep == ASSUME StreamInv, Arrive \/ Interrupt PROVE StreamInv'
<1>1. UNCHANGED <<wire, seen, rsp, link, remain, lines, data, got, lost>>
  BY DEF Arrive, Interrupt, dmaVars
<1>2. \A d : Received(d) => Received(d)'
  BY <1>1 DEF Received
<1>3. Reader'
  BY <1>1, <1>2, ReaderStays DEF StreamInv
<1>4. Transport'
  BY ArriveKeeps, InterruptKeeps DEF StreamInv
<1> QED BY <1>3, <1>4 DEF StreamInv

\* Nothing happens.
LEMMA StutterStep == ASSUME StreamInv, UNCHANGED streamVars PROVE StreamInv'
<1>1. /\ UNCHANGED <<wire, seen, rsp, link, remain, lines>> /\ UNCHANGED <<data, got, lost>>
      /\ UNCHANGED <<last, from, left, rest, seen>> /\ UNCHANGED dmaVars
  BY DEF streamVars, dmaVars
<1>2. \A d : Received(d) => Received(d)'
  BY <1>1 DEF Received
<1>3. Reader'
  BY <1>1, <1>2, ReaderStays DEF StreamInv
<1>4. Transport'
  BY <1>1, TransportStays DEF StreamInv
<1> QED BY <1>3, <1>4 DEF StreamInv

\* The parser starts in front of the first item.
LEMMA StreamStarts == ASSUME StreamInit PROVE StreamInv
<1>1. Transport /\ GoodWire(wire) /\ Len(wire) \in Nat
  BY TransportInit, BytesType DEF Transport
<1>2. /\ seen = 0 /\ rsp = <<>> /\ remain = 0 /\ lines = <<>> /\ link \in Links
      /\ data = [l \in Links |-> <<>>] /\ got = [l \in Links |-> <<>>] /\ lost = [l \in Links |-> 0]
  BY StreamAssumption DEF StreamInit
<1>3. Says(wire)[0] = Nothing
  BY <1>1, SaysRecursion DEF GoodWire
<1>4. Nothing.lines = <<>> /\ \A l \in Links : Nothing.data[l] = <<>>
  BY DEF Nothing
<1>5. Received(Nothing.data)
  <2>1. <<>> \in Seq(Symbols) /\ <<>> \o <<>> = <<>> /\ Len(<<>>) = 0
    OBVIOUS
  <2>2. \A l \in Links : data[l] = <<>> /\ got[l] = <<>> /\ lost[l] = 0
    BY <1>2
  <2>3. got \in [Links -> Seq(Symbols)] /\ data \in [Links -> Seq(Symbols)] /\ lost \in [Links -> Nat]
    BY <1>2, <2>1
  <2>4. DataSize \in Nat /\ 0 <= DataSize
    BY StreamAssumption
  <2>5. \A l \in Links : /\ Len(data[l]) <= DataSize
                         /\ lost[l] = 0 => got[l] \o data[l] = Nothing.data[l]
                         /\ Len(got[l]) + Len(data[l]) + lost[l] = Len(Nothing.data[l])
    <3> TAKE l \in Links
    <3> DEFINE e == Nothing.data[l]
    <3>1. data[l] = <<>> /\ got[l] = <<>> /\ lost[l] = 0 /\ e = <<>>
      BY <1>4, <2>2
    <3> HIDE DEF e
    <3>2. /\ Len(data[l]) = 0 /\ Len(got[l]) = 0 /\ Len(e) = 0 /\ got[l] \o data[l] = e
      BY <2>1, <3>1
    <3>3. 0 + 0 + 0 = 0
      OBVIOUS
    <3> QED BY <2>4, <3>1, <3>2, <3>3 DEF e
  <2> QED BY <2>3, <2>5 DEF Received
<1>6. Reading(1, 0)
  <2> DEFINE j == 1
  <2>1. /\ j - 1 = 0 /\ Start(j) = 0 /\ TokenLen(j, 0) = 2 /\ Spot(j, 0)
    BY <1>1, WireEnds DEF TokenLen, Spot
  <2>2. rsp \in Seq(Symbols) /\ Len(rsp) = 0
    BY <1>2
  <2> HIDE DEF j
  <2>3. /\ lines = Says(wire)[j - 1].lines /\ Received(Says(wire)[j - 1].data)
    BY <1>2, <1>3, <1>4, <1>5, <2>1
  <2>4. Reading(j, 0)
    BY <1>2, <2>1, <2>2, <2>3 DEF Reading
  <2> QED BY <2>4 DEF j
<1>7. Reader
  <2>1. 1 \in 1..(Len(wire) + 1) /\ 0 \in {0, 2, 3}
    BY <1>1
  <2> QED BY <1>2, <1>6, <2>1 DEF Reader
<1> QED BY <1>1, <1>7 DEF StreamInv

\* Every step of the parser, the DMA and the socket task keeps the invariant.
LEMMA StreamGoesOn == ASSUME StreamInv, [StreamNext]_streamVars PROVE StreamInv'
<1>0. Transport /\ link \in Links /\ GoodWire(wire)
  BY DEF StreamInv, Reader, Transport
<1>1. CASE Arrive \/ Interrupt
  BY <1>1, ArrivalStep
<1>2. CASE \E l \in Links : Read(l)
  BY <1>2, ReadStep
<1>3. CASE UNCHANGED streamVars
  BY <1>3, StutterStep
<1>4. CASE Body \/ Header \/ Line \/ Keep
  <2>1. CASE \E k \in 1..Len(wire) : Awaiting(k)
    <3>1. PICK k \in 1..Len(wire) : Awaiting(k)
      BY <2>1
    <3>2. remain # 0
      <4>1. remain \in 1..Len(wire[k].body)
        BY <3>1 DEF Awaiting
      <4> QED BY <4>1
    <3>3. Body
      BY <1>4, <3>2 DEF Header, Line, Keep
    <3> QED BY <1>0, <3>1, <3>3, BodyStep
  <2>2. CASE \E k \in 1..(Len(wire) + 1), o \in {0, 2, 3} : Reading(k, o)
    <3>1. PICK k \in 1..(Len(wire) + 1), o \in {0, 2, 3} : Reading(k, o)
      BY <2>2
    <3>2. ~Body
      <4>1. remain = 0
        BY <3>1 DEF Reading
      <4> QED BY <4>1 DEF Body
    <3>3. CASE Header
      BY <1>0, <3>1, <3>3, HeaderStep
    <3>4. CASE Keep
      BY <1>0, <3>1, <3>4, KeepStep
    <3>5. CASE Line
      <4>1. CASE o = 0
        BY <1>0, <3>1, <3>5, <4>1, BeginningStep
      <4>2. CASE o = 3
        BY <1>0, <3>1, <3>5, <4>2, BlankStep
      <4>3. CASE o = 2
        <5>1. k \in 1..Len(wire) /\ left > 0 /\ ~HeadComplete /\ LineEnd # 0
          BY <1>0, <3>1, <3>5, FilledIs DEF Held, Line
        <5>2. CASE wire[k].kind = "line"
          BY <1>0, <3>1, <3>5, <4>3, <5>2, LineStep
        <5>3. CASE wire[k].kind = "prompt"
          BY <1>0, <3>1, <3>5, <4>3, <5>3, PromptStep
        <5>4. CASE wire[k].kind = "data"
          <6> DEFINE n == Len(Figures(wire[k]))
                     m == Len(Filled)
          <6>1. ~(m < n + 5) /\ ~(m >= n + 5)
            BY <1>0, <3>1, <4>3, <5>1, <5>4, ReportVerdict
          <6>2. m \in Nat /\ n \in Nat
            BY <1>0, <3>1, <5>1, <5>4, FilledIs, ReportOnWire DEF Held
          <6> HIDE DEF m, n
          <6> QED BY ONLY <6>1, <6>2
        <5> QED BY <1>0, <5>1, <5>2, <5>3, <5>4, KindIs
      <4> QED BY <4>1, <4>2, <4>3
    <3> QED BY <1>4, <3>2, <3>3, <3>4, <3>5
  <2> QED BY <2>1, <2>2 DEF StreamInv, Reader
<1> QED BY <1>1, <1>2, <1>3, <1>4 DEF StreamNext

\* In every state of the specification the parser is at a token or in a report.
LEMMA StreamInvariant == StreamSpec => []StreamInv
<1>1. StreamInit => StreamInv
  BY StreamStarts
<1>2. StreamInv /\ [StreamNext]_streamVars => StreamInv'
  BY StreamGoesOn
<1> QED BY <1>1, <1>2, PTL DEF StreamSpec

-----------------------------------------------------------------------------
(* Stream: what the invariant says.                                         *)

\* What the parser has handed on is what the wire said up to some item, and each socket
\* was sent a beginning of what the wire says to it.
LEMMA HeardSoFar ==
  ASSUME StreamInv
  PROVE  /\ \E j \in 0..Len(wire) : lines = Says(wire)[j].lines
         /\ \E d \in [Links -> Seq(Symbols)] :
              Received(d) /\ \A l \in Links : Begins(d[l], Whole.data[l])
<1>0. GoodWire(wire) /\ Len(wire) \in Nat /\ Whole \in Heard
  BY BytesType DEF StreamInv, Transport
<1>1. ASSUME NEW j \in 0..Len(wire)
      PROVE  /\ Says(wire)[j].data \in [Links -> Seq(Symbols)]
             /\ \A l \in Links : Begins(Says(wire)[j].data[l], Whole.data[l])
  <2>1. Len(wire) \in j..Len(wire) /\ Says(wire)[j] \in Heard
    BY <1>0, SaysType
  <2>2. Grows(Says(wire)[j], Whole)
    BY <1>0, <2>1, SaysGrows DEF Whole
  <2> QED BY <2>1, <2>2 DEF Grows, Heard
<1>2. ASSUME NEW k, NEW o, Reading(k, o)
      PROVE  /\ \E j \in 0..Len(wire) : lines = Says(wire)[j].lines
             /\ \E d \in [Links -> Seq(Symbols)] :
                  Received(d) /\ \A l \in Links : Begins(d[l], Whole.data[l])
  <2>1. /\ lines = (IF o = 3 THEN Says(wire)[k].lines ELSE Says(wire)[k - 1].lines)
        /\ Received(Says(wire)[k - 1].data) /\ k \in 1..(Len(wire) + 1) /\ (o # 0 => k <= Len(wire))
    BY <1>2 DEF Reading, Spot
  <2>2. k - 1 \in 0..Len(wire) /\ (o = 3 => k \in 0..Len(wire))
    BY <1>0, <2>1
  <2>3. \E j \in 0..Len(wire) : lines = Says(wire)[j].lines
    BY <2>1, <2>2
  <2> DEFINE e == Says(wire)[k - 1].data
  <2>4. e \in [Links -> Seq(Symbols)] /\ Received(e) /\ \A l \in Links : Begins(e[l], Whole.data[l])
    BY <1>1, <2>1, <2>2
  <2> HIDE DEF e
  <2> QED BY <2>3, <2>4
<1>3. ASSUME NEW k \in 1..Len(wire), Awaiting(k)
      PROVE  /\ \E j \in 0..Len(wire) : lines = Says(wire)[j].lines
             /\ \E d \in [Links -> Seq(Symbols)] :
                  Received(d) /\ \A l \in Links : Begins(d[l], Whole.data[l])
  <2> DEFINE b == wire[k].body
             c == Len(b) - remain
             s == Says(wire)[k - 1].data
             t == Says(wire)[k].data
             u == SubSeq(b, 1, c)
             v == SubSeq(b, c + 1, Len(b))
             e == Partial(k, remain)
             f == Whole.data
  <2>1. /\ lines = Says(wire)[k].lines /\ Received(e) /\ wire[k].kind = "data"
        /\ remain \in 1..Len(b)
    BY <1>3 DEF Awaiting
  <2>2. k \in 0..Len(wire) /\ GoodItem(wire[k])
    BY <1>0, WireAt
  <2>3. b \in Seq(Symbols) /\ Len(b) \in Nat \ {0}
    BY <1>0, <2>1, ReportOnWire
  <2>4. /\ 1 \in 1..(Len(b) + 1) /\ c \in (1 - 1)..Len(b) /\ Len(b) \in c..Len(b) /\ c \in Nat
        /\ c <= Len(b) /\ 1 <= c + 1 /\ c + 1 \in Nat \ {0} /\ c + 1 <= Len(b) + 1
    <3> DEFINE m == Len(b)
    <3>1. m \in Nat \ {0} /\ remain \in 1..m
      BY <2>1, <2>3
    <3> HIDE DEF m
    <3>2. /\ 1 \in 1..(m + 1) /\ m - remain \in (1 - 1)..m /\ m \in (m - remain)..m /\ m - remain \in Nat
          /\ m - remain <= m /\ 1 <= m - remain + 1 /\ m - remain + 1 \in Nat \ {0} /\ m - remain + 1 <= m + 1
      BY ONLY <3>1
    <3> QED BY <3>2 DEF m
  <2>5. u \o v = b /\ u \in Seq(Symbols) /\ v \in Seq(Symbols)
    <3>1. SubSeq(b, 1, Len(b)) = b
      BY <2>3, SubSeqFull
    <3> HIDE DEF c, b
    <3>2. u \o v = SubSeq(b, 1, Len(b))
      BY <2>3, <2>4, ConcatAdjacentSubSeq
    <3>3. u \in Seq(Symbols)
      BY <2>3, <2>4, Cut, SMT
    <3>4. v \in Seq(Symbols)
      <4> DEFINE g == c + 1
                 h == Len(b)
      <4>1. g \in Nat \ {0} /\ h \in Nat /\ h <= Len(b) /\ g <= h + 1
        BY <2>3, <2>4
      <4> HIDE DEF g, h
      <4>2. SubSeq(b, g, h) \in Seq(Symbols)
        BY <2>3, <4>1, Cut, SMT
      <4> QED BY <4>2 DEF g, h
    <3> QED BY <3>1, <3>2, <3>3, <3>4
  <2>6. /\ s \in [Links -> Seq(Symbols)] /\ t \in [Links -> Seq(Symbols)]
        /\ \A l \in Links : Begins(t[l], f[l])
    BY <1>0, <1>1, <2>2, NextSaid
  <2>7. \A l \in Links : t[l] = IF l = wire[k].link THEN s[l] \o b ELSE s[l]
    <3> DEFINE y == Says(wire)[k - 1]
               z == wire[k]
               x == Says(wire)[k]
    <3>1. x = Said(y, z) /\ y \in Heard /\ GoodItem(z) /\ z.kind = "data"
      BY <1>0, <2>1, WireAt
    <3> HIDE DEF x, y, z
    <3>2. \A l \in Links : Said(y, z).data[l] = IF z.kind = "data" /\ z.link = l
                                                THEN y.data[l] \o z.body ELSE y.data[l]
      BY <3>1, SaidIs
    <3>3. \A l \in Links : x.data[l] = IF l = z.link THEN y.data[l] \o z.body ELSE y.data[l]
      BY <3>1, <3>2
    <3> QED BY <3>3 DEF x, y, z
  <2>8. e = [l \in Links |-> IF l = wire[k].link THEN s[l] \o u ELSE s[l]]
    BY Zenon DEF Partial
  <2>9. f \in [Links -> Seq(Symbols)]
    BY <1>0 DEF Heard
  <2> HIDE DEF b, c, s, t, u, v, e, f
  <2>10. ASSUME NEW l \in Links
         PROVE  e[l] \in Seq(Symbols) /\ Begins(e[l], f[l])
    <3>1. s[l] \in Seq(Symbols) /\ t[l] \in Seq(Symbols) /\ f[l] \in Seq(Symbols)
      BY <2>6, <2>9
    <3>2. CASE l = wire[k].link
      <4> DEFINE g == s[l]
      <4>1. e[l] = g \o u /\ t[l] = g \o b /\ g \in Seq(Symbols)
        BY <2>7, <2>8, <3>1, <3>2
      <4> HIDE DEF g
      <4>2. g \o u \in Seq(Symbols)
        BY <2>5, <4>1, ConcatProperties
      <4>3. (g \o u) \o v = g \o b
        <5>1. g \in Seq(Symbols) /\ u \in Seq(Symbols) /\ v \in Seq(Symbols) /\ b = u \o v
          BY <2>5, <4>1
        <5> QED BY ONLY <5>1
      <4>4. Begins(g \o u, (g \o u) \o v)
        BY <2>5, <4>2, BeginsJoined
      <4>5. Begins(e[l], t[l]) /\ e[l] \in Seq(Symbols)
        BY <4>1, <4>2, <4>3, <4>4
      <4> QED BY <2>6, <3>1, <4>5, BeginsThrough
    <3>3. CASE l # wire[k].link
      <4>1. e[l] = t[l]
        BY <2>7, <2>8, <3>3
      <4> QED BY <2>6, <3>1, <4>1
    <3> QED BY <3>2, <3>3
  <2>11. e \in [Links -> Seq(Symbols)]
    BY <2>8, <2>10
  <2> QED BY <2>1, <2>2, <2>10, <2>11 DEF f
<1> QED BY <1>2, <1>3 DEF StreamInv, Reader

\* The type invariant from the inductive one: rsp_buf holds less than a token, and
\* every token fits it.
LEMMA InvariantType == ASSUME StreamInv PROVE StreamTypeOK
<1>1. /\ arrived \in 0..Len(Bytes) /\ seen \in 0..arrived /\ GoodWire(wire)
      /\ left \in 0..DmaSize /\ rest \in 0..DmaSize /\ from \in 0..(DmaSize - 1)
      /\ seen + left + rest <= arrived /\ last = (seen + left + rest) % DmaSize
      /\ left > 0 => from = seen % DmaSize /\ from + left <= DmaSize
  BY DEF StreamInv, Transport
<1>2. DmaSize \in Nat \ {0} /\ BufSize \in Nat /\ BufSize >= 3 /\ Len(Bytes) \in Nat
  BY <1>1, StreamAssumption, BytesType
<1>3. last \in 0..(DmaSize - 1)
  <2> DEFINE x == seen + left + rest
  <2>1. x \in Nat /\ last = x % DmaSize
    BY <1>1, <1>2
  <2>2. 0 \in 0..DmaSize
    BY <1>2
  <2> HIDE DEF x
  <2> QED BY <1>2, <2>1, <2>2, Further
<1>4. from + left <= DmaSize
  BY <1>1, <1>2
<1>5. \A l \in Links : Len(data[l]) <= DataSize /\ lost[l] \in Nat
  <2>1. PICK d : Received(d)
    BY HeardSoFar
  <2> QED BY <2>1 DEF Received
<1>6. Len(rsp) < BufSize /\ remain \in Nat
  <2>1. CASE \E k \in 1..(Len(wire) + 1), o \in {0, 2, 3} : Reading(k, o)
    <3>1. PICK k, o : Reading(k, o)
      BY <2>1
    <3>2. Len(rsp) < TokenLen(k, o) /\ remain = 0 /\ Len(rsp) \in Nat /\ Spot(k, o)
      BY <3>1, LenProperties DEF Reading
    <3>3. TokenLen(k, o) \in Nat /\ TokenLen(k, o) <= BufSize
      BY <1>1, <3>2, TokenFits
    <3> DEFINE m == Len(rsp)
               x == TokenLen(k, o)
    <3>4. m < BufSize
      <4>1. m \in Nat /\ x \in Nat /\ m < x /\ x <= BufSize
        BY <3>2, <3>3
      <4> HIDE DEF m, x
      <4> QED BY ONLY <1>2, <4>1
    <3> QED BY <3>2, <3>4
  <2>2. CASE \E k \in 1..Len(wire) : Awaiting(k)
    <3>1. PICK k \in 1..Len(wire) : Awaiting(k)
      BY <2>2
    <3>2. rsp = <<>> /\ remain \in 1..Len(wire[k].body)
      BY <3>1 DEF Awaiting
    <3>3. Len(rsp) = 0
      BY <3>2
    <3> QED BY <1>2, <3>2, <3>3
  <2> QED BY <2>1, <2>2 DEF StreamInv, Reader
<1>7. link \in Links
  BY DEF StreamInv, Reader
<1> QED BY <1>1, <1>3, <1>4, <1>5, <1>6, <1>7 DEF StreamTypeOK

\* The lines handed on are those of the items before the parser.
LEMMA InvariantLines == ASSUME StreamInv PROVE LinesWhole
<1>0. GoodWire(wire) /\ Len(wire) \in Nat /\ Whole \in Heard
  BY BytesType DEF StreamInv, Transport
<1>1. PICK j \in 0..Len(wire) : lines = Says(wire)[j].lines
  BY HeardSoFar
<1>2. Len(wire) \in j..Len(wire) /\ Says(wire)[j] \in Heard
  BY <1>0, SaysType
<1>3. Begins(lines, Whole.lines)
  <2>1. Grows(Says(wire)[j], Whole)
    BY <1>0, <1>2, SaysGrows DEF Whole
  <2> QED BY <1>1, <2>1 DEF Grows
<1>4. lines \in Seq(Seq(Symbols)) /\ Whole.lines \in Seq(Seq(Symbols))
  BY <1>0, <1>1, <1>2 DEF Heard
<1> DEFINE a == lines
           b == Whole.lines
<1>5. a \in Seq(Seq(Symbols)) /\ b \in Seq(Seq(Symbols)) /\ Begins(a, b)
  BY <1>3, <1>4
<1> HIDE DEF a, b
<1>6. IsPrefix(a, b)
  BY <1>5, BeginsPrefix
<1> QED BY <1>6 DEF LinesWhole, a, b

\* What a socket was given, when nothing of it was lost, begins what was sent to it.
LEMMA InvariantData == ASSUME StreamInv PROVE DataWhole
<1>1. PICK d \in [Links -> Seq(Symbols)] :
        Received(d) /\ \A l \in Links : Begins(d[l], Whole.data[l])
  BY HeardSoFar
<1>2. Whole.data \in [Links -> Seq(Symbols)]
  BY BytesType DEF StreamInv, Transport, Heard
<1>3. ASSUME NEW l \in Links, lost[l] = 0 PROVE IsPrefix(got[l] \o data[l], Whole.data[l])
  <2> DEFINE a == d[l]
             b == Whole.data[l]
  <2>1. got[l] \o data[l] = a
    BY <1>1, <1>3 DEF Received
  <2>2. a \in Seq(Symbols) /\ b \in Seq(Symbols) /\ Begins(a, b)
    BY <1>1, <1>2
  <2> HIDE DEF a, b
  <2>3. IsPrefix(a, b)
    BY <2>2, BeginsPrefix
  <2> QED BY <2>1, <2>3 DEF b
<1> QED BY <1>3 DEF DataWhole

\* The token the parser waits for in item k, but behind a prompt, ends within item k.
LEMMA TokenWithin ==
  ASSUME GoodWire(wire), NEW k \in 1..Len(wire), NEW o \in {0, 2}, Spot(k, o)
  PROVE  Start(k) + o + TokenLen(k, o) <= Start(k + 1)
<1>1. /\ Start(k) \in Nat /\ Start(k) + 4 <= Start(k + 1) /\ Start(k + 1) <= Len(Bytes)
      /\ Len(Bytes) \in Nat /\ wire[k].kind \in {"line", "prompt", "data"}
  BY BeginningOnWire, BytesType, KindIs
<1> DEFINE s == Start(k)
           e == Start(k + 1)
<1>0. s \in Nat /\ e \in Nat /\ s + 4 <= e
  <2> DEFINE n == Len(ItemBytes(wire[k]))
  <2>1. n \in Nat /\ e = s + n
    BY WireAt, SpellsType, LenProperties
  <2> QED BY <1>1, <2>1
<1>2. CASE o = 0
  <2>1. TokenLen(k, o) = 2
    BY <1>2 DEF TokenLen
  <2> HIDE DEF s, e
  <2>2. s + 0 + 2 <= e
    BY <1>0
  <2> QED BY <1>2, <2>1, <2>2 DEF s, e
<1>3. CASE o = 2 /\ wire[k].kind = "line"
  <2>1. TokenLen(k, o) = Len(wire[k].text) + 2
    BY <1>3 DEF TokenLen
  <2>2. Len(wire[k].text) \in Nat /\ Start(k) + 2 + Len(wire[k].text) + 2 = Start(k + 1)
    BY <1>3, LineOnWire
  <2> DEFINE m == Len(wire[k].text)
  <2>3. m \in Nat /\ s + 2 + m + 2 = e
    BY <2>2
  <2> HIDE DEF s, e, m
  <2>4. s + 2 + (m + 2) <= e
    BY <1>0, <2>3
  <2> QED BY <1>3, <2>1, <2>4 DEF s, e, m
<1>4. CASE o = 2 /\ wire[k].kind = "prompt"
  <2>1. TokenLen(k, o) = 1
    BY <1>4 DEF TokenLen
  <2> HIDE DEF s, e
  <2>2. s + 2 + 1 <= e
    BY <1>0
  <2> QED BY <1>4, <2>1, <2>2 DEF s, e
<1>5. CASE o = 2 /\ wire[k].kind = "data"
  <2>1. TokenLen(k, o) = 5 + Len(Figures(wire[k]))
    BY <1>5 DEF TokenLen
  <2>2. /\ Len(Figures(wire[k])) \in Nat /\ Len(wire[k].body) \in Nat
        /\ Start(k) + 2 + 5 + Len(Figures(wire[k])) + Len(wire[k].body) = Start(k + 1)
    BY <1>5, ReportOnWire
  <2> DEFINE m == Len(Figures(wire[k]))
             n == Len(wire[k].body)
  <2>3. m \in Nat /\ n \in Nat /\ s + 2 + 5 + m + n = e
    BY <2>2
  <2> HIDE DEF s, e, m, n
  <2>4. s + 2 + (5 + m) <= e
    BY <1>0, <2>3
  <2> QED BY <1>5, <2>1, <2>4 DEF s, e, m
<1> QED BY <1>1, <1>2, <1>3, <1>4, <1>5

\* When the whole wire is consumed, the parser is behind the last item or behind a last
\* prompt cut off its blank.
LEMMA AllConsumed ==
  ASSUME Transport, seen = Len(Bytes), NEW k, NEW o, Reading(k, o)
  PROVE  k = Len(wire) + 1 \/ (k = Len(wire) /\ o = 3)
<1> DEFINE r == Len(rsp)
           n == Len(wire)
           t == TokenLen(k, o)
           s == Start(k)
           e == Start(k + 1)
           b == Len(Bytes)
<1>0. GoodWire(wire) /\ Spot(k, o) /\ r < t /\ b = s + o + r /\ k \in 1..(n + 1) /\ o \in {0, 2, 3}
  BY DEF Transport, Reading, Spot
<1>1. r \in Nat /\ n \in Nat /\ t \in Nat /\ s \in Nat /\ b \in Nat /\ k \in Nat
  BY <1>0, BytesType, TokenFits, LenProperties DEF Reading
<1>2. ASSUME k \in 1..n PROVE e \in Nat /\ e <= b
  BY <1>0, <1>1, <1>2, WireAt
<1>3. ASSUME k \in 1..n, o # 3 PROVE FALSE
  <2>1. o \in {0, 2}
    BY <1>0, <1>3
  <2>2. s + o + t <= e
    BY <1>0, <1>3, <2>1, TokenWithin
  <2>3. e \in Nat /\ e <= b
    BY <1>2, <1>3
  <2> HIDE DEF r, n, t, s, e, b
  <2> QED BY <1>0, <1>1, <2>1, <2>2, <2>3
<1>4. ASSUME k \in 1..n, o = 3, k + 1 \in 1..n PROVE FALSE
  <2>1. e = s + 4
    BY <1>0, <1>4, PromptOnWire DEF Spot
  <2>2. e + 4 <= b
    <3> DEFINE j == k + 1
    <3>1. j \in 1..n
      BY <1>4
    <3> HIDE DEF j
    <3>2. Start(j) \in Nat /\ Start(j) + 4 <= Start(j + 1) /\ Start(j + 1) <= b
      BY <1>0, <3>1, WireAt, BeginningOnWire
    <3>3. Start(j + 1) \in Nat
      BY <1>0, <3>1, WireAt, SpellsType, LenProperties
    <3>4. Start(j) + 4 <= b
      BY <1>1, <3>2, <3>3
    <3> QED BY <3>4 DEF j
  <2>3. t = 3
    BY <1>4 DEF TokenLen
  <2> HIDE DEF r, n, t, s, e, b
  <2> QED BY <1>0, <1>1, <1>4, <2>1, <2>2, <2>3
<1>5. k \in 1..n => o = 3 /\ k + 1 \notin 1..n
  BY <1>3, <1>4
<1> HIDE DEF r, n, t, s, e, b
<1>6. k = n + 1 \/ (k = n /\ o = 3)
  BY <1>0, <1>1, <1>5
<1> QED BY <1>6 DEF n

\* Whatever was refused, once the whole wire is consumed everything on it was told apart.
LEMMA InvariantFraming == ASSUME StreamInv PROVE FramingKept
<1> SUFFICES ASSUME seen = Len(Bytes)
             PROVE  /\ remain = 0
                    /\ lines = Whole.lines
                    /\ \A l \in Links : Len(got[l]) + Len(data[l]) + lost[l] = Len(Whole.data[l])
  BY DEF FramingKept
<1>0. Transport /\ GoodWire(wire) /\ Len(wire) \in Nat /\ Len(Bytes) \in Nat
  BY BytesType DEF StreamInv, Transport
<1>1. ASSUME NEW k \in 1..Len(wire), Awaiting(k) PROVE FALSE
  <2>1. /\ Start(k + 1) <= Len(Bytes) /\ seen + remain = Start(k + 1)
        /\ wire[k].kind = "data" /\ remain \in 1..Len(wire[k].body)
    BY <1>0, <1>1, WireAt DEF Awaiting
  <2>2. Len(wire[k].body) \in Nat
    BY <1>0, <2>1, ReportOnWire
  <2> QED BY <1>0, <2>1, <2>2
<1>2. PICK k \in 1..(Len(wire) + 1), o \in {0, 2, 3} : Reading(k, o)
  BY <1>1 DEF StreamInv, Reader
<1>3. /\ remain = 0 /\ Spot(k, o)
      /\ lines = (IF o = 3 THEN Says(wire)[k].lines ELSE Says(wire)[k - 1].lines)
      /\ Received(Says(wire)[k - 1].data)
  BY <1>2 DEF Reading
<1>4. lines = Whole.lines /\ Received(Whole.data)
  <2>1. CASE k = Len(wire) + 1
    <3>1. k - 1 = Len(wire) /\ o = 0
      BY <1>0, <1>3, <2>1 DEF Spot
    <3> QED BY <1>3, <3>1 DEF Whole
  <2>2. CASE k = Len(wire) /\ o = 3
    <3>1. wire[k].kind = "prompt" /\ k \in 1..Len(wire)
      BY <1>3, <2>2 DEF Spot
    <3>2. Says(wire)[k].data = Says(wire)[k - 1].data
      BY <1>0, <3>1, NextSaid
    <3>3. Whole = Says(wire)[k]
      BY <2>2 DEF Whole
    <3> QED BY <1>3, <2>2, <3>2, <3>3
  <2> QED BY <1>0, <1>2, <2>1, <2>2, AllConsumed
<1> QED BY <1>3, <1>4 DEF Received

\* The loop of aiot_at_hal_recv_handle stays in its piece, and rsp_buf never fills up,
\* for every wire, every size of the buffers and every way the bytes are cut.
THEOREM StreamTypeCorrect == StreamSpec => []StreamTypeOK
<1> QED BY StreamInvariant, InvariantType, PTL

\* core_at_process_line is given the lines and prompts that were sent, in order, none torn,
\* joined or made of socket data, wherever the interrupts cut the bytes.
THEOREM LinesAreWhole == StreamSpec => []LinesWhole
<1> QED BY StreamInvariant, InvariantLines, PTL

\* A socket's reader gets the bytes sent to that socket, in order and with none added, as
\* long as its ring had room for all of them.
THEOREM DataIsWhole == StreamSpec => []DataWhole
<1> QED BY StreamInvariant, InvariantData, PTL

\* Bytes a socket's ring refused do not disturb what follows: once all is consumed every
\* line was handed on and every data byte is received, waiting or lost.
THEOREM FramingIsKept == StreamSpec => []FramingKept
<1> QED BY StreamInvariant, InvariantFraming, PTL
=============================================================================
