--------------------------- MODULE GnssQueueProofs --------------------------
(***************************************************************************)
(* Proofs about GnssQueue, for any subscribers, queue length and reserve.  *)
(***************************************************************************)
EXTENDS GnssQueue, FiniteSetTheorems, FunctionTheorems, TLAPS

\* gnss_task fills a queue up to Full and no further
Full == Size - Reserve + 1

Shape == /\ slots \in Seq(Subscribers) /\ queue \in [Subscribers -> Seq(Message)]
         /\ msg \in Message \cup {None} /\ slot \in Nat \ {0} /\ taken \in Nat
         /\ point \in Nat
         /\ (pc = "send" => msg # None)

AtSlot == pc \in {"receive", "create", "send"} => slot <= Len(slots)
NeverOverfull == \A s \in Subscribers : Len(queue[s]) <= Full

\* what the subscriber took is all that is missing from a nearly full queue
StillFull == pc = "receive" => Len(queue[Served]) + taken >= Full /\ taken <= Burst
RoomMade == pc \in {"create", "send"} => Len(queue[Served]) < Full

RoomInv == Shape /\ AtSlot /\ NeverOverfull /\ StillFull /\ RoomMade

\* A nearly full queue holds more than a subscriber can take meanwhile
Patient == Burst < Full

LEMMA SeqFacts ==
  ASSUME NEW S, NEW q \in Seq(S)
  PROVE  /\ Len(q) \in Nat
         /\ q # <<>> => Tail(q) \in Seq(S) /\ Len(Tail(q)) = Len(q) - 1 /\ Len(q) > 0 /\ Head(q) \in S
         /\ \A m \in S : Append(q, m) \in Seq(S) /\ Len(Append(q, m)) = Len(q) + 1
  OBVIOUS

LEMMA ServedIsSubscriber ==
  ASSUME RoomInv, pc \in {"receive", "create", "send"}
  PROVE  /\ Served \in Subscribers /\ slot \in 1..Len(slots)
         /\ queue[Served] \in Seq(Message) /\ Len(queue[Served]) \in Nat
<1>1. slot \in 1..Len(slots)
  BY DEF RoomInv, Shape, AtSlot
<1>2. Served \in Subscribers
  BY <1>1 DEF RoomInv, Shape, Served
<1> QED BY <1>1, <1>2, SeqFacts DEF RoomInv, Shape

LEMMA GnssKeeps == ASSUME RoomInv, Gnss PROVE RoomInv'
<1> USE QueueAssumption
<1>1. CASE Locate
  BY <1>1 DEF RoomInv, Shape, AtSlot, NeverOverfull, StillFull, RoomMade, Locate, subscriber
<1>2. CASE Look
  <2>1. UNCHANGED <<slots, queue, slot, msg, point>> /\ taken' = 0 /\ pc' \in {"idle", "receive", "create"}
    BY <1>2 DEF Look
  <2>2. CASE pc' = "idle"
    BY <2>1, <2>2 DEF RoomInv, Shape, AtSlot, NeverOverfull, StillFull, RoomMade
  <2>3. CASE pc' # "idle"
    <3>1. slot <= Len(slots) /\ pc' = (IF NearlyFull(queue[Served]) THEN "receive" ELSE "create")
      BY <1>2, <2>3 DEF Look
    <3>2. Served \in Subscribers /\ Served' = Served /\ queue[Served] \in Seq(Message)
      BY <2>1, <3>1 DEF RoomInv, Shape, Served
    <3>3. Len(queue[Served]) \in Nat
      BY <3>2, SeqFacts
    <3>4. Shape' /\ AtSlot' /\ NeverOverfull'
      BY <2>1, <2>3, <3>1 DEF RoomInv, Shape, AtSlot, NeverOverfull
    <3>5. StillFull' /\ RoomMade'
      BY <2>1, <3>1, <3>2, <3>3 DEF StillFull, RoomMade, NearlyFull, Full
    <3> QED BY <3>4, <3>5 DEF RoomInv
  <2> QED BY <2>2, <2>3
<1>3. CASE RemoveOldest
  <2> DEFINE q == queue[Served]
  <2>1. /\ Served \in Subscribers /\ q \in Seq(Message) /\ q # <<>> /\ Served' = Served
        /\ slot' = slot /\ slots' = slots /\ msg' = msg /\ point' = point /\ taken' = taken
        /\ pc' = "create" /\ queue' = [queue EXCEPT ![Served] = Tail(q)]
    BY <1>3, ServedIsSubscriber DEF RemoveOldest, Served
  <2>2. Tail(q) \in Seq(Message) /\ Len(Tail(q)) = Len(q) - 1 /\ Len(q) \in Nat
    BY <2>1, SeqFacts
  <2>3. Shape' /\ AtSlot'
    BY <1>3, <2>1, <2>2 DEF RoomInv, Shape, AtSlot, RemoveOldest
  <2>4. Len(q) <= Full
    BY <2>1 DEF RoomInv, NeverOverfull
  <2>5. NeverOverfull'
    <3> SUFFICES ASSUME NEW s \in Subscribers PROVE Len(queue'[s]) <= Full
      BY DEF NeverOverfull, Full
    <3>1. queue'[s] = IF s = Served THEN Tail(q) ELSE queue[s]
      BY <2>1 DEF RoomInv, Shape
    <3> QED BY <2>2, <2>4, <3>1 DEF RoomInv, NeverOverfull, Full
  <2>6. StillFull' /\ RoomMade'
    <3>1. queue'[Served'] = Tail(q)
      BY <2>1 DEF RoomInv, Shape
    <3>2. Len(queue'[Served']) < Full
      BY <2>2, <2>4, <3>1 DEF Full
    <3>3. RoomMade'
      BY <3>2 DEF RoomMade, Full
    <3>4. StillFull'
      BY <2>1 DEF StillFull
    <3> QED BY <3>3, <3>4
  <2> QED BY <2>3, <2>5, <2>6 DEF RoomInv
<1>4. CASE Create
  <2>1. /\ slot' = slot /\ slots' = slots /\ queue' = queue /\ point' = point /\ taken' = taken
        /\ pc = "create" /\ pc' = "send" /\ Served' = Served
    BY <1>4 DEF Create, Served
  <2>2. msg' \in Message
    <3>1. PICK b \in BOOLEAN : msg' = [point |-> point, ok |-> b]
      BY <1>4 DEF Create
    <3> QED BY <3>1 DEF Message, RoomInv, Shape
  <2>3. Shape' /\ AtSlot'
    BY <2>1, <2>2 DEF RoomInv, Shape, AtSlot
  <2>4. NeverOverfull' /\ StillFull' /\ RoomMade'
    BY <2>1 DEF RoomInv, NeverOverfull, StillFull, RoomMade
  <2> QED BY <2>3, <2>4 DEF RoomInv
<1>5. CASE Send
  <2> DEFINE q == queue[Served]
  <2>1. /\ Served \in Subscribers /\ q \in Seq(Message) /\ Len(q) \in Nat /\ Len(q) < Full
        /\ slot' = slot + 1 /\ slots' = slots /\ point' = point /\ taken' = taken
        /\ pc' = "look" /\ msg' = None /\ msg \in Message
    BY <1>5, ServedIsSubscriber DEF Send, NextSlot, RoomInv, RoomMade, Shape
  <2>2. queue' = [queue EXCEPT ![Served] = Append(q, msg)]
    BY <1>5, <2>1 DEF Send, Full
  <2>3. Append(q, msg) \in Seq(Message) /\ Len(Append(q, msg)) = Len(q) + 1
    BY <2>1, SeqFacts
  <2>4. Shape' /\ AtSlot' /\ StillFull' /\ RoomMade'
    BY <2>1, <2>2, <2>3 DEF RoomInv, Shape, AtSlot, StillFull, RoomMade
  <2>5. NeverOverfull'
    <3> SUFFICES ASSUME NEW s \in Subscribers PROVE Len(queue'[s]) <= Full
      BY DEF NeverOverfull, Full
    <3>1. queue'[s] = IF s = Served THEN Append(q, msg) ELSE queue[s]
      BY <2>2 DEF RoomInv, Shape
    <3> QED BY <2>1, <2>3, <3>1 DEF RoomInv, NeverOverfull, Full
  <2> QED BY <2>4, <2>5 DEF RoomInv
<1> QED BY <1>1, <1>2, <1>3, <1>4, <1>5 DEF Gnss

LEMMA SubscriberKeeps ==
  ASSUME RoomInv, NEW s \in Subscribers, Subscriber(s)
  PROVE  RoomInv'
<1> USE QueueAssumption
<1>1. CASE Subscribe(s)
  <2>1. UNCHANGED <<gnss, queue, taken>> /\ slots' \in {slots, Append(slots, s)}
    BY <1>1 DEF Subscribe
  <2>2. /\ slots' \in Seq(Subscribers) /\ Len(slots) \in Nat /\ Len(slots') >= Len(slots)
        /\ \A i \in 1..Len(slots) : slots'[i] = slots[i]
    <3>1. slots \in Seq(Subscribers)
      BY DEF RoomInv, Shape
    <3>2. CASE slots' = slots
      BY <3>1, <3>2
    <3>3. CASE slots' = Append(slots, s)
      BY <3>1, <3>3
    <3> QED BY <2>1, <3>2, <3>3
  <2>3. Shape' /\ AtSlot' /\ NeverOverfull'
    BY <2>1, <2>2 DEF RoomInv, Shape, AtSlot, NeverOverfull, gnss
  <2>4. pc \in {"receive", "create", "send"} => Served' = Served
    BY <2>1, <2>2, ServedIsSubscriber DEF Served, gnss
  <2>5. StillFull' /\ RoomMade'
    BY <2>1, <2>4 DEF RoomInv, StillFull, RoomMade, gnss
  <2> QED BY <2>3, <2>5 DEF RoomInv
<1>2. CASE Begin(s) \/ Handle(s)
  <2>1. UNCHANGED <<gnss, slots, queue, taken>>
    BY <1>2 DEF Begin, Handle
  <2> QED BY <2>1 DEF RoomInv, Shape, AtSlot, NeverOverfull, StillFull, RoomMade, Served, gnss
<1>3. CASE Take(s)
  <2> DEFINE q == queue[s]
  <2>1. /\ UNCHANGED <<gnss, slots>> /\ q # <<>> /\ queue' = [queue EXCEPT ![s] = Tail(q)]
        /\ taken' \in {taken, taken + 1} /\ q \in Seq(Message)
    BY <1>3 DEF Take, RoomInv, Shape
  <2>2. Tail(q) \in Seq(Message) /\ Len(Tail(q)) = Len(q) - 1 /\ Len(q) \in Nat
    BY <2>1, SeqFacts
  <2>3. Shape' /\ AtSlot' /\ Served' = Served
    BY <2>1, <2>2 DEF RoomInv, Shape, AtSlot, Served, gnss
  <2>4. NeverOverfull'
    <3> SUFFICES ASSUME NEW r \in Subscribers PROVE Len(queue'[r]) <= Full
      BY DEF NeverOverfull, Full
    <3>1. queue'[r] = IF r = s THEN Tail(q) ELSE queue[r]
      BY <2>1 DEF RoomInv, Shape
    <3> QED BY <2>2, <3>1 DEF RoomInv, NeverOverfull, Full
  <2>5. StillFull' /\ RoomMade'
    <3>1. CASE Served = s /\ pc \in {"receive", "create", "send"}
      <4>1. queue'[Served'] = Tail(q)
        BY <2>1, <2>3, <3>1 DEF RoomInv, Shape
      <4>2. pc = "receive" => taken' = taken + 1 /\ taken' <= Burst
        BY <1>3, <3>1 DEF Take, Watched, RoomInv, Shape
      <4> QED BY <2>1, <2>2, <3>1, <4>1, <4>2 DEF RoomInv, Shape, StillFull, RoomMade, gnss, Full
    <3>2. CASE Served # s /\ pc \in {"receive", "create", "send"}
      <4>1. queue'[Served'] = queue[Served] /\ taken' = taken
        BY <1>3, <2>1, <2>3, <3>2, ServedIsSubscriber DEF Take, Watched, RoomInv, Shape
      <4> QED BY <2>1, <4>1 DEF RoomInv, StillFull, RoomMade, gnss
    <3>3. CASE pc \notin {"receive", "create", "send"}
      BY <2>1, <3>3 DEF StillFull, RoomMade, gnss
    <3> QED BY <3>1, <3>2, <3>3
  <2> QED BY <2>3, <2>4, <2>5 DEF RoomInv
<1> QED BY <1>1, <1>2, <1>3 DEF Subscriber

LEMMA RoomInvariant == Spec => []RoomInv
<1> USE QueueAssumption
<1>1. Init => RoomInv
  <2> SUFFICES ASSUME Init PROVE RoomInv
    OBVIOUS
  <2>1. /\ slots = <<>> /\ queue = [s \in Subscribers |-> <<>>] /\ msg = None /\ slot = 1
        /\ taken = 0 /\ point = 0 /\ pc = "idle"
    BY DEF Init
  <2>2. slots \in Seq(Subscribers) /\ queue \in [Subscribers -> Seq(Message)]
    BY <2>1
  <2>3. \A s \in Subscribers : Len(queue[s]) = 0
    BY <2>1
  <2> QED BY <2>1, <2>2, <2>3 DEF RoomInv, Shape, AtSlot, NeverOverfull, StillFull, RoomMade, Full
<1>2. RoomInv /\ [Next]_vars => RoomInv'
  <2>1. ASSUME RoomInv, StartUpgrade \/ UNCHANGED vars PROVE RoomInv'
    <3>1. UNCHANGED <<gnss, slots, queue, taken>>
      BY <2>1 DEF StartUpgrade, vars
    <3> QED BY <2>1, <3>1 DEF RoomInv, Shape, AtSlot, NeverOverfull, StillFull, RoomMade,
                              Served, gnss
  <2> QED BY <2>1, GnssKeeps, SubscriberKeeps DEF Next
<1> QED BY <1>1, <1>2, PTL DEF Spec

\* As long as a subscriber cannot empty a nearly full queue between the look and
\* the removal, gnss_task never waits for a message that only it could send,
\* for any queue length and reserve (general_message.c:38).
THEOREM GnssNeverBlocks == ASSUME Patient PROVE Spec => []NeverBlocks
<1>1. RoomInv => NeverBlocks
  <2> SUFFICES ASSUME RoomInv, pc = "receive" PROVE queue[Served] # <<>>
    BY DEF NeverBlocks
  <2>1. Len(queue[Served]) + taken >= Full /\ taken <= Burst /\ taken \in Nat
    BY DEF RoomInv, Shape, StillFull
  <2>2. Len(queue[Served]) > 0
    BY <2>1, ServedIsSubscriber, QueueAssumption DEF Patient, Full
  <2> QED BY <2>2
<1> QED BY <1>1, RoomInvariant, PTL

\* The message of the newest point finds room, so it is never the one dropped
\* (gnss.c:479).
THEOREM NewestHasRoom == Spec => []RoomToSend
<1>1. RoomInv => RoomToSend
  <2> SUFFICES ASSUME RoomInv, pc = "send" PROVE Len(queue[Served]) < Size
    BY DEF RoomToSend
  <2>1. Len(queue[Served]) < Full /\ Len(queue[Served]) \in Nat
    BY ServedIsSubscriber DEF RoomInv, RoomMade
  <2> QED BY <2>1, QueueAssumption DEF Full
<1> QED BY <1>1, RoomInvariant, PTL

-----------------------------------------------------------------------------
(* A queue holds the latest points.                                        *)

\* consecutive points up to p
Chain(q, p) == /\ q[Len(q)].point = p
               /\ \A i \in 1..(Len(q) - 1) : q[i + 1].point = q[i].point + 1

\* who is subscribed has one slot, and only who is has messages
Subscribed == /\ task \in [Subscribers -> {"start", "loop", "receive", "handle"}]
              /\ slot <= Len(slots) + 1
              /\ \A i \in 1..Len(slots) : task[slots[i]] # "start"
              /\ \A i, j \in 1..Len(slots) : slots[i] = slots[j] => i = j
              /\ \A s \in Subscribers : queue[s] # <<>> => \E i \in 1..Len(slots) : slots[i] = s

Waiting(s) == pc # "idle" /\ \A i \in 1..Len(slots) : slots[i] = s => i >= slot
Latest == \A s \in Subscribers : queue[s] # <<>> => Chain(queue[s], IF Waiting(s) THEN point - 1 ELSE point)
OwnPoint == pc = "send" => msg.point = point

LatestInv == RoomInv /\ Subscribed /\ Latest /\ OwnPoint

LEMMA ChainTail ==
  ASSUME NEW q \in Seq(Message), NEW p \in Int, q # <<>>, Chain(q, p), Tail(q) # <<>>
  PROVE  Chain(Tail(q), p)
<1>1. /\ Len(q) \in Nat /\ Len(Tail(q)) = Len(q) - 1 /\ Len(q) > 1
      /\ \A i \in 1..Len(Tail(q)) : Tail(q)[i] = q[i + 1]
  OBVIOUS
<1>2. Tail(q)[Len(Tail(q))] = q[Len(q)]
  BY <1>1
<1>3. ASSUME NEW i \in 1..(Len(Tail(q)) - 1)
      PROVE  Tail(q)[i + 1].point = Tail(q)[i].point + 1
  <2>1. Tail(q)[i] = q[i + 1] /\ Tail(q)[i + 1] = q[(i + 1) + 1] /\ i + 1 \in 1..(Len(q) - 1)
    BY <1>1
  <2> QED BY <2>1 DEF Chain
<1> QED BY <1>2, <1>3 DEF Chain

LEMMA ChainAppend ==
  ASSUME NEW q \in Seq(Message), NEW p \in Int, NEW m \in Message, m.point = p,
         q = <<>> \/ Chain(q, p - 1)
  PROVE  Chain(Append(q, m), p)
<1> DEFINE r == Append(q, m)
<1>1. /\ Len(q) \in Nat /\ Len(r) = Len(q) + 1 /\ r[Len(q) + 1] = m
      /\ \A i \in 1..Len(q) : r[i] = q[i]
  OBVIOUS
<1>2. ASSUME NEW i \in 1..(Len(r) - 1) PROVE r[i + 1].point = r[i].point + 1
  <2>1. i \in 1..Len(q) /\ r[i] = q[i] /\ Chain(q, p - 1)
    BY <1>1, <1>2
  <2>2. CASE i = Len(q)
    <3>1. r[i + 1] = m /\ q[i].point = p - 1
      BY <1>1, <2>1, <2>2 DEF Chain
    <3> QED BY <2>1, <3>1
  <2>3. CASE i < Len(q)
    <3>1. i + 1 \in 1..Len(q) /\ i \in 1..(Len(q) - 1)
      BY <1>1, <2>1, <2>3
    <3>2. r[i + 1] = q[i + 1]
      BY <1>1, <3>1
    <3> QED BY <2>1, <3>1, <3>2 DEF Chain
  <2> QED BY <1>1, <2>1, <2>2, <2>3
<1> QED BY <1>1, <1>2 DEF Chain

\* the oldest message of a queue is taken
LEMMA TailLatest ==
  ASSUME LatestInv, NEW s \in Subscribers, queue[s] # <<>>,
         queue' = [queue EXCEPT ![s] = Tail(queue[s])],
         UNCHANGED <<slots, slot, point>>, (pc' # "idle") <=> (pc # "idle")
  PROVE  /\ Latest'
         /\ \A r \in Subscribers : queue'[r] # <<>> => \E i \in 1..Len(slots) : slots[i] = r
<1>1. queue[s] \in Seq(Message) /\ point \in Nat
  BY DEF LatestInv, RoomInv, Shape
<1>2. \A r \in Subscribers : queue'[r] = IF r = s THEN Tail(queue[s]) ELSE queue[r]
  BY DEF LatestInv, RoomInv, Shape
<1>3. \A r \in Subscribers : Waiting(r)' <=> Waiting(r)
  BY DEF Waiting
<1>4. ASSUME NEW r \in Subscribers, queue'[r] # <<>>
      PROVE  Chain(queue'[r], IF Waiting(r) THEN point - 1 ELSE point)
  <2>1. CASE r = s
    BY <1>1, <1>2, <1>4, <2>1, ChainTail DEF LatestInv, Latest
  <2>2. CASE r # s
    BY <1>2, <1>4, <2>2 DEF LatestInv, Latest
  <2> QED BY <2>1, <2>2
<1>5. Latest'
  BY <1>3, <1>4 DEF Latest, Chain
<1>6. \A r \in Subscribers : queue'[r] # <<>> => \E i \in 1..Len(slots) : slots[i] = r
  BY <1>2 DEF LatestInv, Subscribed
<1> QED BY <1>5, <1>6

LEMMA GnssLatest ==
  ASSUME LatestInv, Gnss
  PROVE  Subscribed' /\ Latest' /\ OwnPoint'
<1> USE QueueAssumption
<1>0. /\ point \in Nat /\ slot \in Nat \ {0} /\ slots \in Seq(Subscribers) /\ Len(slots) \in Nat
      /\ queue \in [Subscribers -> Seq(Message)]
  BY DEF LatestInv, RoomInv, Shape
<1>1. CASE Locate
  <2>1. /\ pc = "idle" /\ point' = point + 1 /\ slot' = 1 /\ pc' = "look"
        /\ UNCHANGED <<task, slots, queue>>
    BY <1>1 DEF Locate, subscriber
  <2>2. \A s \in Subscribers : Waiting(s)' /\ ~Waiting(s)
    BY <2>1 DEF Waiting
  <2>3. Latest'
    BY <1>0, <2>1, <2>2 DEF LatestInv, Latest, Chain
  <2> QED BY <1>0, <2>1, <2>3 DEF LatestInv, Subscribed, OwnPoint
<1>2. CASE Look
  <2>1. /\ pc = "look" /\ UNCHANGED <<point, slot, task, slots, queue>>
        /\ \/ slot > Len(slots) /\ pc' = "idle"
           \/ slot <= Len(slots) /\ pc' \in {"receive", "create"}
    BY <1>2 DEF Look, subscriber
  <2>2. ASSUME NEW s \in Subscribers, queue[s] # <<>> PROVE Waiting(s)' <=> Waiting(s)
    <3>1. PICK i \in 1..Len(slots) : slots[i] = s
      BY <2>2 DEF LatestInv, Subscribed
    <3> QED BY <1>0, <2>1, <3>1 DEF Waiting
  <2>3. Latest'
    BY <2>1, <2>2 DEF LatestInv, Latest, Chain
  <2> QED BY <2>1, <2>3 DEF LatestInv, Subscribed, OwnPoint
<1>3. CASE RemoveOldest
  <2>1. /\ Served \in Subscribers /\ queue[Served] # <<>>
        /\ queue' = [queue EXCEPT ![Served] = Tail(queue[Served])]
        /\ UNCHANGED <<point, slot, task, slots>> /\ pc = "receive" /\ pc' = "create"
    BY <1>3, ServedIsSubscriber DEF RemoveOldest, LatestInv, subscriber
  <2> QED BY <2>1, TailLatest DEF LatestInv, Subscribed, OwnPoint
<1>4. CASE Create
  <2>1. /\ UNCHANGED <<point, slot, task, slots, queue>> /\ pc = "create" /\ pc' = "send"
        /\ msg'.point = point
    BY <1>4 DEF Create, subscriber
  <2>2. \A s \in Subscribers : Waiting(s)' <=> Waiting(s)
    BY <2>1 DEF Waiting
  <2>3. Latest'
    BY <2>1, <2>2 DEF LatestInv, Latest, Chain
  <2> QED BY <2>1, <2>3 DEF LatestInv, Subscribed, OwnPoint
<1>5. CASE Send
  <2> DEFINE q == queue[Served]
  <2>1. /\ Served \in Subscribers /\ q \in Seq(Message) /\ slot \in 1..Len(slots)
        /\ slots[slot] = Served /\ Len(q) < Full /\ Len(q) \in Nat
        /\ msg \in Message /\ msg.point = point
    BY <1>5, ServedIsSubscriber DEF Send, LatestInv, RoomInv, RoomMade, Shape, OwnPoint, Served
  <2>2. /\ queue' = [queue EXCEPT ![Served] = Append(q, msg)]
        /\ UNCHANGED <<point, task, slots>> /\ slot' = slot + 1 /\ pc = "send" /\ pc' = "look"
    BY <1>5, <2>1 DEF Send, NextSlot, Full, subscriber
  <2>3. \A r \in Subscribers : queue'[r] = IF r = Served THEN Append(q, msg) ELSE queue[r]
    BY <1>0, <2>2
  <2>4. /\ Waiting(Served)
        /\ ~(\A i \in 1..Len(slots') : slots'[i] = Served => i >= slot')
    <3>1. \A i \in 1..Len(slots) : slots[i] = Served => i = slot
      BY <2>1 DEF LatestInv, Subscribed
    <3>2. Waiting(Served)
      BY <1>0, <2>1, <2>2, <3>1 DEF Waiting
    <3>3. slots'[slot] = Served /\ slot \in 1..Len(slots') /\ ~(slot >= slot')
      BY <1>0, <2>1, <2>2
    <3> QED BY <3>2, <3>3
  <2>5. \A r \in Subscribers \ {Served} : Waiting(r)' <=> Waiting(r)
    BY <1>0, <2>1, <2>2 DEF Waiting
  <2>6. Chain(Append(q, msg), point)
    BY <1>0, <2>1, <2>4, ChainAppend DEF LatestInv, Latest
  <2>7. Latest'
    <3> SUFFICES ASSUME NEW r \in Subscribers, queue'[r] # <<>>
                 PROVE  Chain(queue'[r], IF Waiting(r)' THEN point - 1 ELSE point)
      BY <2>2 DEF Latest, Chain
    <3>1. CASE r = Served
      <4>1. ~Waiting(r)'
        BY <2>4, <3>1 DEF Waiting
      <4> QED BY <2>3, <2>6, <3>1, <4>1
    <3>2. CASE r # Served
      BY <2>3, <2>5, <3>2 DEF LatestInv, Latest
    <3> QED BY <3>1, <3>2
  <2>8. \A r \in Subscribers : queue'[r] # <<>> => \E i \in 1..Len(slots) : slots[i] = r
    BY <2>1, <2>3 DEF LatestInv, Subscribed
  <2> QED BY <1>0, <2>1, <2>2, <2>7, <2>8 DEF LatestInv, Subscribed, OwnPoint
<1> QED BY <1>1, <1>2, <1>3, <1>4, <1>5 DEF Gnss

LEMMA SubscriberLatest ==
  ASSUME LatestInv, NEW s \in Subscribers, Subscriber(s)
  PROVE  Subscribed' /\ Latest' /\ OwnPoint'
<1> USE QueueAssumption
<1>0. /\ point \in Nat /\ slot \in Nat \ {0} /\ slots \in Seq(Subscribers) /\ Len(slots) \in Nat
      /\ queue \in [Subscribers -> Seq(Message)]
  BY DEF LatestInv, RoomInv, Shape
<1>1. CASE Subscribe(s)
  <2>1. /\ UNCHANGED <<point, slot, pc, msg, queue>> /\ slots' \in {slots, Append(slots, s)}
        /\ task[s] = "start" /\ task' = [task EXCEPT ![s] = "loop"]
    BY <1>1 DEF Subscribe, gnss
  <2>2. \A i \in 1..Len(slots) : slots[i] \in Subscribers /\ slots[i] # s
    BY <1>0, <2>1 DEF LatestInv, Subscribed
  <2>3. \A r \in Subscribers : task'[r] = IF r = s THEN "loop" ELSE task[r]
    BY <2>1 DEF LatestInv, Subscribed
  <2>4. CASE slots' = slots
    <3>1. \A r \in Subscribers : Waiting(r)' <=> Waiting(r)
      BY <2>1, <2>4 DEF Waiting
    <3>2. Latest' /\ OwnPoint'
      BY <2>1, <3>1 DEF LatestInv, Latest, Chain, OwnPoint
    <3>3. Subscribed'
      BY <2>1, <2>2, <2>3, <2>4 DEF LatestInv, Subscribed
    <3> QED BY <3>2, <3>3
  <2>5. CASE slots' = Append(slots, s)
    <3>1. /\ Len(slots') = Len(slots) + 1 /\ slots'[Len(slots) + 1] = s
          /\ \A i \in 1..Len(slots) : slots'[i] = slots[i]
      BY <1>0, <2>5
    <3>2. \A i \in 1..Len(slots') : i \in 1..Len(slots) \/ (i = Len(slots) + 1 /\ slots'[i] = s)
      BY <1>0, <3>1
    <3>3. ASSUME NEW r \in Subscribers, queue[r] # <<>> PROVE Waiting(r)' <=> Waiting(r)
      <4>1. r # s
        BY <2>2, <3>3 DEF LatestInv, Subscribed
      <4>2. \A i \in 1..Len(slots') : slots'[i] = r => i \in 1..Len(slots) /\ slots[i] = r
        BY <2>5, <3>1, <3>2, <4>1
      <4>3. \A i \in 1..Len(slots) : i \in 1..Len(slots') /\ slots'[i] = slots[i]
        BY <1>0, <3>1
      <4> QED BY <2>1, <4>2, <4>3 DEF Waiting
    <3>4. Latest' /\ OwnPoint'
      BY <2>1, <3>3 DEF LatestInv, Latest, Chain, OwnPoint
    <3>5. \A i, j \in 1..Len(slots') : slots'[i] = slots'[j] => i = j
      BY <2>2, <3>1, <3>2 DEF LatestInv, Subscribed
    <3>6. \A i \in 1..Len(slots') : task'[slots'[i]] # "start"
      BY <2>2, <2>3, <3>1, <3>2 DEF LatestInv, Subscribed
    <3>7. \A r \in Subscribers : queue'[r] # <<>> => \E i \in 1..Len(slots') : slots'[i] = r
      <4>1. \A i \in 1..Len(slots) : i \in 1..Len(slots') /\ slots'[i] = slots[i]
        BY <1>0, <3>1
      <4> QED BY <2>1, <4>1 DEF LatestInv, Subscribed
    <3>8. slot' <= Len(slots') + 1 /\ task' \in [Subscribers -> {"start", "loop", "receive", "handle"}]
      BY <1>0, <2>1, <3>1 DEF LatestInv, Subscribed
    <3> QED BY <3>4, <3>5, <3>6, <3>7, <3>8 DEF Subscribed
  <2> QED BY <2>1, <2>4, <2>5
<1>2. ASSUME UNCHANGED <<point, slot, pc, msg, slots>>, NEW p \in {"loop", "receive", "handle"},
             task' = [task EXCEPT ![s] = p], Latest',
             \A r \in Subscribers : queue'[r] # <<>> => \E i \in 1..Len(slots) : slots[i] = r
      PROVE  Subscribed' /\ Latest' /\ OwnPoint'
  <2>1. \A r \in Subscribers : task'[r] = IF r = s THEN p ELSE task[r]
    BY <1>2 DEF LatestInv, Subscribed
  <2>2. \A i \in 1..Len(slots) : slots[i] \in Subscribers
    BY <1>0
  <2> QED BY <1>2, <2>1, <2>2 DEF LatestInv, Subscribed, OwnPoint
<1>3. CASE Begin(s) \/ Handle(s)
  <2>1. /\ UNCHANGED <<point, slot, pc, msg, slots, queue>>
        /\ \E p \in {"loop", "receive"} : task' = [task EXCEPT ![s] = p]
    BY <1>3 DEF Begin, Handle, gnss
  <2>2. \A r \in Subscribers : Waiting(r)' <=> Waiting(r)
    BY <2>1 DEF Waiting
  <2>3. Latest'
    BY <2>1, <2>2 DEF LatestInv, Latest, Chain
  <2> QED BY <1>2, <2>1, <2>3 DEF LatestInv, Subscribed
<1>4. CASE Take(s)
  <2>1. /\ UNCHANGED <<point, slot, pc, msg, slots>> /\ queue[s] # <<>>
        /\ queue' = [queue EXCEPT ![s] = Tail(queue[s])] /\ task' = [task EXCEPT ![s] = "handle"]
    BY <1>4 DEF Take, gnss
  <2> QED BY <1>2, <2>1, TailLatest
<1> QED BY <1>1, <1>3, <1>4 DEF Subscriber

LEMMA LatestInvariant == Spec => []LatestInv
<1>1. Init => Subscribed /\ Latest /\ OwnPoint
  <2> SUFFICES ASSUME Init PROVE Subscribed /\ Latest /\ OwnPoint
    OBVIOUS
  <2>1. \A s \in Subscribers : queue[s] = <<>>
    BY DEF Init
  <2>2. Len(slots) = 0 /\ slot = 1 /\ pc = "idle"
    BY DEF Init
  <2> QED BY <2>1, <2>2 DEF Init, Subscribed, Latest, OwnPoint
<1>2. ASSUME LatestInv, [Next]_vars PROVE Subscribed' /\ Latest' /\ OwnPoint'
  <2>1. CASE StartUpgrade \/ UNCHANGED vars
    <3>1. UNCHANGED <<point, slot, pc, msg, slots, queue, task>>
      BY <2>1 DEF StartUpgrade, vars, gnss, subscriber
    <3>2. \A r \in Subscribers : Waiting(r)' <=> Waiting(r)
      BY <3>1 DEF Waiting
    <3> QED BY <1>2, <3>1, <3>2 DEF LatestInv, Latest, Chain, OwnPoint, Subscribed
  <2> QED BY <1>2, <2>1, GnssLatest, SubscriberLatest DEF Next
<1>3. Init /\ RoomInv => LatestInv
  BY <1>1 DEF LatestInv
<1>4. LatestInv /\ RoomInv' /\ [Next]_vars => LatestInv'
  BY <1>2 DEF LatestInv
<1> QED BY <1>3, <1>4, RoomInvariant, PTL DEF Spec

\* For any number of subscribers and any queue length: a queue holds the latest
\* points without a gap, however its subscriber lags behind (general_message.h:47-48).
THEOREM QueuesHoldLatest == Spec => []LatestKept
<1>1. LatestInv => LatestKept
  <2> SUFFICES ASSUME LatestInv, NEW s \in Subscribers, queue[s] # <<>>
               PROVE  Chain(queue[s], Distributed(s))
    BY DEF LatestKept, Chain
  <2>1. DOMAIN slots = 1..Len(slots)
    BY DEF LatestInv, RoomInv, Shape
  <2>2. Distributed(s) = IF Waiting(s) THEN point - 1 ELSE point
    BY <2>1 DEF Distributed, Waiting
  <2> QED BY <2>2 DEF LatestInv, Latest
<1> QED BY <1>1, LatestInvariant, PTL

-----------------------------------------------------------------------------
(* No block is lost or freed twice.  A step of a queue moves one block:    *)
(* when the first message leaves, the others move up, and their places     *)
(* before and after are matched one to one.                                *)

Places == Subscribers \X (1..Size)
Blocks(q) == {p \in Places : p[2] <= Len(q[p[1]]) /\ q[p[1]][p[2]].ok}
Holders(h) == {s \in Subscribers : h[s] # None /\ h[s].ok}
Made(m) == IF m # None /\ m.ok THEN 1 ELSE 0
Owes(m) == IF m.ok THEN 1 ELSE 0

LEMMA TailBlocks ==
  ASSUME NEW q \in [Subscribers -> Seq(Message)], NEW s \in Subscribers,
         q[s] # <<>>, Len(q[s]) <= Size, IsFiniteSet(Blocks(q)),
         NEW r, r = [q EXCEPT ![s] = Tail(q[s])]
  PROVE  /\ IsFiniteSet(Blocks(r))
         /\ Cardinality(Blocks(r)) = Cardinality(Blocks(q)) - Owes(Head(q[s]))
<1> DEFINE R == Blocks(q) \ {<<s, 1>>}
           up == [p \in R |-> IF p[1] = s THEN <<s, p[2] - 1>> ELSE p]
<1>1. /\ q[s] \in Seq(Message) /\ Len(q[s]) \in Nat \ {0} /\ Size \in Nat
      /\ Len(Tail(q[s])) = Len(q[s]) - 1
      /\ \A i \in 1..(Len(q[s]) - 1) : Tail(q[s])[i] = q[s][i + 1]
      /\ Head(q[s]) = q[s][1] /\ q[s][1] \in Message
  BY QueueAssumption
<1>2. r[s] = Tail(q[s]) /\ \A t \in Subscribers : t # s => r[t] = q[t]
  OBVIOUS
<1>3. \A p \in R : up[p] \in Blocks(r)
  <2> SUFFICES ASSUME NEW p \in R PROVE up[p] \in Blocks(r)
    OBVIOUS
  <2>1. p[1] \in Subscribers /\ p[2] \in 1..Size /\ p = <<p[1], p[2]>> /\ p # <<s, 1>>
    BY DEF Blocks, Places
  <2>2. p[2] <= Len(q[p[1]]) /\ q[p[1]][p[2]].ok
    BY DEF Blocks
  <2>3. CASE p[1] = s
    <3>1. p[2] # 1
      BY <2>1, <2>3
    <3>2. p[2] - 1 \in 1..Size /\ p[2] - 1 \in 1..(Len(q[s]) - 1)
      BY <1>1, <2>1, <2>2, <2>3, <3>1
    <3>3. r[s][p[2] - 1] = q[s][p[2]]
      <4>1. (p[2] - 1) + 1 = p[2]
        BY <2>1
      <4> QED BY <1>1, <1>2, <3>2, <4>1
    <3>4. p[2] - 1 <= Len(r[s])
      BY <1>1, <1>2, <3>2
    <3>5. up[p] = <<s, p[2] - 1>>
      BY <2>3
    <3>6. <<s, p[2] - 1>> \in Places /\ r[s][p[2] - 1].ok
      BY <2>2, <2>3, <3>2, <3>3 DEF Places
    <3>7. <<s, p[2] - 1>> \in Blocks(r)
      BY <3>4, <3>6 DEF Blocks
    <3> QED BY <3>5, <3>7
  <2>4. CASE p[1] # s
    <3>1. up[p] = p
      BY <2>4
    <3>2. r[p[1]] = q[p[1]] /\ p \in Places
      BY <1>2, <2>1, <2>4 DEF Blocks
    <3>3. p \in Blocks(r)
      BY <2>2, <3>2 DEF Blocks
    <3> QED BY <3>1, <3>3
  <2> QED BY <2>3, <2>4
<1>4. \A a, b \in R : up[a] = up[b] => a = b
  <2> SUFFICES ASSUME NEW a \in R, NEW b \in R, up[a] = up[b] PROVE a = b
    OBVIOUS
  <2>1. /\ a = <<a[1], a[2]>> /\ b = <<b[1], b[2]>> /\ a[2] \in 1..Size /\ b[2] \in 1..Size
    BY DEF Blocks, Places
  <2>2. /\ up[a] = IF a[1] = s THEN <<s, a[2] - 1>> ELSE a
        /\ up[b] = IF b[1] = s THEN <<s, b[2] - 1>> ELSE b
    OBVIOUS
  <2>3. a[1] = b[1]
    BY <2>1, <2>2
  <2>4. a[2] = b[2]
    <3>1. CASE a[1] = s
      <4>1. a[2] - 1 = b[2] - 1
        BY <2>2, <2>3, <3>1
      <4> QED BY <2>1, <4>1
    <3>2. CASE a[1] # s
      BY <2>2, <2>3, <3>2
    <3> QED BY <3>1, <3>2
  <2> QED BY <2>1, <2>3, <2>4
<1>5. \A c \in Blocks(r) : \E p \in R : up[p] = c
  <2> SUFFICES ASSUME NEW c \in Blocks(r) PROVE \E p \in R : up[p] = c
    OBVIOUS
  <2>1. /\ c[1] \in Subscribers /\ c[2] \in 1..Size /\ c = <<c[1], c[2]>>
        /\ c[2] <= Len(r[c[1]]) /\ r[c[1]][c[2]].ok
    BY DEF Blocks, Places
  <2>2. CASE c[1] = s
    <3> DEFINE p == <<s, c[2] + 1>>
    <3>1. c[2] \in 1..(Len(q[s]) - 1)
      BY <1>1, <1>2, <2>1, <2>2
    <3>2. c[2] + 1 \in 1..Size /\ c[2] + 1 <= Len(q[s]) /\ c[2] + 1 # 1 /\ (c[2] + 1) - 1 = c[2]
      BY <1>1, <3>1
    <3>3. q[s][c[2] + 1].ok
      BY <1>1, <1>2, <2>1, <2>2, <3>1
    <3>4. p \in R
      BY <3>2, <3>3 DEF Blocks, Places
    <3>5. up[p] = c
      BY <2>1, <2>2, <3>2, <3>4
    <3> QED BY <3>4, <3>5
  <2>3. CASE c[1] # s
    <3>1. c \in R
      BY <1>2, <2>1, <2>3 DEF Blocks, Places
    <3>2. up[c] = c
      BY <2>3, <3>1
    <3> QED BY <3>1, <3>2
  <2> QED BY <2>2, <2>3
<1>6. ExistsBijection(R, Blocks(r))
  <2>1. up \in [R -> Blocks(r)]
    BY <1>3
  <2>2. up \in Bijection(R, Blocks(r))
    BY <1>4, <1>5, <2>1, Fun_IsBij
  <2> QED BY <2>2, Fun_ExistsBij
<1>7. /\ IsFiniteSet(R)
      /\ Cardinality(R) = IF <<s, 1>> \in Blocks(q) THEN Cardinality(Blocks(q)) - 1
                                                     ELSE Cardinality(Blocks(q))
  BY FS_RemoveElement
<1>8. <<s, 1>> \in Blocks(q) <=> Head(q[s]).ok
  BY <1>1 DEF Blocks, Places
<1>9. IsFiniteSet(Blocks(r)) /\ Cardinality(Blocks(r)) = Cardinality(R)
  BY <1>6, <1>7, FS_Bijection
<1>10. Cardinality(Blocks(q)) \in Nat
  BY FS_CardinalityType
<1> QED BY <1>7, <1>8, <1>9, <1>10 DEF Owes

LEMMA AppendBlocks ==
  ASSUME NEW q \in [Subscribers -> Seq(Message)], NEW s \in Subscribers, NEW m \in Message,
         Len(q[s]) < Size, IsFiniteSet(Blocks(q)),
         NEW r, r = [q EXCEPT ![s] = Append(q[s], m)]
  PROVE  /\ IsFiniteSet(Blocks(r))
         /\ Cardinality(Blocks(r)) = Cardinality(Blocks(q)) + Owes(m)
<1> DEFINE n == Len(q[s]) + 1
<1>1. /\ q[s] \in Seq(Message) /\ Len(q[s]) \in Nat /\ Size \in Nat /\ n \in 1..Size
      /\ Len(Append(q[s], m)) = n /\ Append(q[s], m)[n] = m
      /\ \A i \in 1..Len(q[s]) : Append(q[s], m)[i] = q[s][i]
  BY QueueAssumption
<1>2. r[s] = Append(q[s], m) /\ \A t \in Subscribers : t # s => r[t] = q[t]
  OBVIOUS
<1>3. <<s, n>> \notin Blocks(q)
  BY <1>1 DEF Blocks
<1>4. Blocks(r) = IF m.ok THEN Blocks(q) \cup {<<s, n>>} ELSE Blocks(q)
  <2>1. ASSUME NEW p \in Places
        PROVE  p \in Blocks(r) <=> p \in Blocks(q) \/ (m.ok /\ p = <<s, n>>)
    <3>1. p[1] \in Subscribers /\ p[2] \in 1..Size /\ p = <<p[1], p[2]>>
      BY <2>1 DEF Places
    <3>2. CASE p[1] # s
      BY <1>2, <2>1, <3>1, <3>2 DEF Blocks
    <3>3. CASE p[1] = s /\ p[2] <= Len(q[s])
      <4>1. r[s][p[2]] = q[s][p[2]] /\ p[2] <= n /\ p[2] # n
        BY <1>1, <1>2, <3>1, <3>3
      <4>2. p # <<s, n>>
        BY <3>1, <4>1
      <4> QED BY <1>1, <1>2, <2>1, <3>3, <4>1, <4>2 DEF Blocks
    <3>4. CASE p[1] = s /\ p[2] = n
      <4>1. p = <<s, n>> /\ p \notin Blocks(q)
        BY <1>3, <3>1, <3>4
      <4> QED BY <1>1, <1>2, <2>1, <3>4, <4>1 DEF Blocks
    <3>5. CASE p[1] = s /\ p[2] > n
      <4>1. ~(p[2] <= n) /\ ~(p[2] <= Len(q[s])) /\ p # <<s, n>>
        BY <1>1, <3>1, <3>5
      <4> QED BY <1>1, <1>2, <3>5, <4>1 DEF Blocks
    <3> QED BY <1>1, <3>1, <3>2, <3>3, <3>4, <3>5
  <2>2. <<s, n>> \in Places /\ Blocks(q) \subseteq Places /\ Blocks(r) \subseteq Places
    BY <1>1 DEF Places, Blocks
  <2> QED BY <2>1, <2>2
<1>5. CASE m.ok
  <2>1. Blocks(r) = Blocks(q) \cup {<<s, n>>}
    BY <1>4, <1>5
  <2>2. IsFiniteSet(Blocks(r)) /\ Cardinality(Blocks(r)) = Cardinality(Blocks(q)) + 1
    <3> DEFINE B == Blocks(q)
               x == <<s, n>>
    <3>1. IsFiniteSet(B) /\ x \notin B /\ Blocks(r) = B \cup {x}
      BY <1>3, <2>1
    <3> HIDE DEF B, x
    <3>2. IsFiniteSet(B \cup {x}) /\ Cardinality(B \cup {x}) = Cardinality(B) + 1
      BY <3>1, FS_AddElement
    <3> QED BY <3>1, <3>2 DEF B
  <2> QED BY <1>5, <2>2 DEF Owes
<1>6. CASE ~m.ok
  <2>1. Blocks(r) = Blocks(q) /\ Cardinality(Blocks(q)) \in Nat
    BY <1>4, <1>6, FS_CardinalityType
  <2> QED BY <1>6, <2>1 DEF Owes
<1> QED BY <1>5, <1>6

LEMMA TakenUp ==
  ASSUME NEW h \in [Subscribers -> Message \cup {None}], NEW s \in Subscribers, NEW m \in Message,
         h[s] = None, IsFiniteSet(Holders(h))
  PROVE  /\ IsFiniteSet(Holders([h EXCEPT ![s] = m]))
         /\ Cardinality(Holders([h EXCEPT ![s] = m])) = Cardinality(Holders(h)) + Owes(m)
<1> DEFINE g == [h EXCEPT ![s] = m]
<1>1. s \notin Holders(h) /\ m # None
  BY QueueAssumption DEF Holders
<1>2. Holders(g) = IF m.ok THEN Holders(h) \cup {s} ELSE Holders(h)
  BY <1>1 DEF Holders
<1>3. Cardinality(Holders(h)) \in Nat
  BY FS_CardinalityType
<1> QED BY <1>1, <1>2, <1>3, FS_AddElement DEF Owes

LEMMA PutDown ==
  ASSUME NEW h \in [Subscribers -> Message \cup {None}], NEW s \in Subscribers,
         h[s] \in Message, IsFiniteSet(Holders(h)), NEW g, g = [h EXCEPT ![s] = None]
  PROVE  /\ IsFiniteSet(Holders(g))
         /\ Cardinality(Holders(g)) = Cardinality(Holders(h)) - Owes(h[s])
<1>1. h[s] # None
  BY QueueAssumption
<1>2. Holders(g) = Holders(h) \ {s}
  BY DEF Holders
<1>3. s \in Holders(h) <=> h[s].ok
  BY <1>1 DEF Holders
<1>4. Cardinality(Holders(h)) \in Nat
  BY FS_CardinalityType
<1>5. /\ IsFiniteSet(Holders(g))
      /\ Cardinality(Holders(g)) = IF s \in Holders(h) THEN Cardinality(Holders(h)) - 1
                                                       ELSE Cardinality(Holders(h))
  <2> DEFINE B == Holders(h)
  <2>1. IsFiniteSet(B) /\ Holders(g) = B \ {s}
    BY <1>2
  <2> HIDE DEF B
  <2>2. /\ IsFiniteSet(B \ {s})
        /\ Cardinality(B \ {s}) = IF s \in B THEN Cardinality(B) - 1 ELSE Cardinality(B)
    BY <2>1, FS_RemoveElement
  <2> QED BY <2>1, <2>2 DEF B
<1> QED BY <1>3, <1>4, <1>5 DEF Owes

-----------------------------------------------------------------------------
Stages == {"start", "loop", "receive", "handle"}
\* a task has a message exactly while it handles one, gnss_task while it sends one
HandsInv == /\ task \in [Subscribers -> Stages] /\ held \in [Subscribers -> Message \cup {None}]
            /\ \A s \in Subscribers : task[s] = "handle" => held[s] \in Message
            /\ \A s \in Subscribers : task[s] # "handle" => held[s] = None
            /\ (pc # "send" => msg = None)
Finite == IsFiniteSet(Blocks(queue)) /\ IsFiniteSet(Holders(held))
Counted == /\ free \in Nat
           /\ free + Cardinality(Blocks(queue)) + Cardinality(Holders(held)) + Made(msg) = Heap
BlockInv == HandsInv /\ Finite /\ Counted

LEMMA CardsAreNat ==
  ASSUME BlockInv
  PROVE  /\ Cardinality(Blocks(queue)) \in Nat /\ Cardinality(Holders(held)) \in Nat
         /\ Made(msg) \in 0..1 /\ free \in Nat /\ Heap \in Nat
  BY FS_CardinalityType, QueueAssumption DEF BlockInv, Finite, Counted, Made

LEMMA MadeOwes ==
  ASSUME NEW m \in Message PROVE Made(m) = Owes(m) /\ Owes(m) \in 0..1 /\ Made(None) = 0
  BY QueueAssumption DEF Made, Owes

LEMMA ReleaseGivesBack == ASSUME NEW m, free \in Int, Release(m) PROVE free' = free + Owes(m)
  BY DEF Release, Owes

LEMMA GnssCounts == ASSUME RoomInv, BlockInv, Gnss PROVE BlockInv'
<1> USE CardsAreNat
<1>1. CASE Locate \/ Look
  <2>1. UNCHANGED <<task, held, queue, free, msg>> /\ pc # "send" /\ pc' # "send"
    BY <1>1 DEF Locate, Look, subscriber
  <2> QED BY <2>1 DEF BlockInv, HandsInv, Finite, Counted, Blocks, Holders, Made
<1>2. CASE RemoveOldest
  <2> DEFINE q == queue[Served]
  <2>0. Len(q) <= Size
    <3>1. Served \in Subscribers /\ Len(q) \in Nat
      BY <1>2, ServedIsSubscriber DEF RemoveOldest
    <3>2. Len(q) <= Full
      BY <3>1 DEF RoomInv, NeverOverfull
    <3> QED BY <3>1, <3>2, QueueAssumption DEF Full
  <2>1. /\ Served \in Subscribers /\ q \in Seq(Message) /\ q # <<>> /\ Len(q) <= Size
        /\ queue' = [queue EXCEPT ![Served] = Tail(q)] /\ Release(Head(q))
        /\ UNCHANGED <<task, held, msg>> /\ pc = "receive" /\ pc' = "create"
    BY <1>2, <2>0, ServedIsSubscriber DEF RemoveOldest, subscriber
  <2>2. /\ IsFiniteSet(Blocks(queue'))
        /\ Cardinality(Blocks(queue')) = Cardinality(Blocks(queue)) - Owes(Head(q))
    BY <2>1, TailBlocks DEF RoomInv, Shape, BlockInv, Finite
  <2>3. free' = free + Owes(Head(q)) /\ Owes(Head(q)) \in 0..1
    BY <2>1, ReleaseGivesBack, MadeOwes
  <2>4. HandsInv' /\ Holders(held') = Holders(held) /\ Made(msg') = Made(msg)
    BY <2>1 DEF BlockInv, HandsInv, Holders, Made
  <2>5. Finite' /\ Counted'
    BY <2>2, <2>3, <2>4 DEF BlockInv, Finite, Counted
  <2> QED BY <2>4, <2>5 DEF BlockInv
<1>3. CASE Create
  <2>1. UNCHANGED <<task, held, queue>> /\ pc = "create" /\ pc' = "send" /\ msg = None
    BY <1>3 DEF Create, subscriber, BlockInv, HandsInv
  <2>2. PICK b \in BOOLEAN : /\ msg' = [point |-> point, ok |-> b]
                             /\ free' = IF b THEN free - 1 ELSE free
                             /\ b => free > 0
    BY <1>3 DEF Create
  <2>3. msg' \in Message /\ Made(msg') = (IF b THEN 1 ELSE 0) /\ Made(msg) = 0
    <3>1. msg' \in Message /\ msg'.ok = b
      BY <2>2 DEF Message, RoomInv, Shape
    <3> QED BY <2>1, <3>1, MadeOwes DEF Owes
  <2>4. HandsInv' /\ Blocks(queue') = Blocks(queue) /\ Holders(held') = Holders(held)
    BY <2>1 DEF BlockInv, HandsInv, Blocks, Holders
  <2>5. Finite' /\ Counted'
    BY <2>2, <2>3, <2>4 DEF BlockInv, Finite, Counted
  <2> QED BY <2>4, <2>5 DEF BlockInv
<1>4. CASE Send
  <2> DEFINE q == queue[Served]
  <2>1. /\ Served \in Subscribers /\ q \in Seq(Message) /\ Len(q) < Size
        /\ msg \in Message /\ msg' = None /\ pc' = "look" /\ UNCHANGED <<task, held>>
    BY <1>4, ServedIsSubscriber, QueueAssumption
       DEF Send, NextSlot, RoomInv, RoomMade, Shape, Full, subscriber
  <2>2. queue' = [queue EXCEPT ![Served] = Append(q, msg)] /\ free' = free
    BY <1>4, <2>1 DEF Send
  <2>3. /\ IsFiniteSet(Blocks(queue'))
        /\ Cardinality(Blocks(queue')) = Cardinality(Blocks(queue)) + Owes(msg)
    BY <2>1, <2>2, AppendBlocks DEF RoomInv, Shape, BlockInv, Finite
  <2>4. Made(msg) = Owes(msg) /\ Made(msg') = 0
    BY <2>1, MadeOwes
  <2>5. HandsInv' /\ Holders(held') = Holders(held)
    BY <2>1 DEF BlockInv, HandsInv, Holders
  <2>6. Finite' /\ Counted'
    BY <2>2, <2>3, <2>4, <2>5 DEF BlockInv, Finite, Counted
  <2> QED BY <2>5, <2>6 DEF BlockInv
<1> QED BY <1>1, <1>2, <1>3, <1>4 DEF Gnss

LEMMA SubscriberCounts ==
  ASSUME RoomInv, BlockInv, NEW s \in Subscribers, Subscriber(s) PROVE BlockInv'
<1> USE CardsAreNat
<1>1. CASE Subscribe(s) \/ Begin(s)
  <2>1. /\ UNCHANGED <<held, queue, free, msg, pc>>
        /\ task[s] # "handle" /\ \E p \in Stages \ {"handle"} : task' = [task EXCEPT ![s] = p]
    BY <1>1 DEF Subscribe, Begin, gnss, Stages
  <2>2. HandsInv'
    BY <2>1 DEF BlockInv, HandsInv
  <2> QED BY <2>1, <2>2 DEF BlockInv, Finite, Counted, Blocks, Holders, Made
<1>2. CASE Take(s)
  <2> DEFINE q == queue[s]
  <2>1. /\ q \in Seq(Message) /\ q # <<>> /\ Len(q) <= Size /\ Head(q) \in Message
        /\ queue' = [queue EXCEPT ![s] = Tail(q)] /\ held' = [held EXCEPT ![s] = Head(q)]
        /\ task' = [task EXCEPT ![s] = "handle"] /\ task[s] = "receive"
        /\ UNCHANGED <<msg, pc, free>>
    BY <1>2, SeqFacts, QueueAssumption DEF Take, RoomInv, Shape, NeverOverfull, Full, gnss
  <2>2. /\ IsFiniteSet(Blocks(queue'))
        /\ Cardinality(Blocks(queue')) = Cardinality(Blocks(queue)) - Owes(Head(q))
    BY <2>1, TailBlocks DEF RoomInv, Shape, BlockInv, Finite
  <2>3. held[s] = None /\ held \in [Subscribers -> Message \cup {None}]
    BY <2>1 DEF BlockInv, HandsInv
  <2>4. /\ IsFiniteSet(Holders(held'))
        /\ Cardinality(Holders(held')) = Cardinality(Holders(held)) + Owes(Head(q))
    <3>1. IsFiniteSet(Holders(held))
      BY DEF BlockInv, Finite
    <3> DEFINE m == Head(q)
    <3>2. m \in Message /\ held' = [held EXCEPT ![s] = m]
      BY <2>1
    <3> HIDE DEF m
    <3>3. /\ IsFiniteSet(Holders([held EXCEPT ![s] = m]))
          /\ Cardinality(Holders([held EXCEPT ![s] = m])) = Cardinality(Holders(held)) + Owes(m)
      BY <2>3, <3>1, <3>2, TakenUp, Zenon
    <3> QED BY <3>2, <3>3 DEF m
  <2>5. HandsInv' /\ Made(msg') = Made(msg)
    BY <2>1 DEF BlockInv, HandsInv, Stages
  <2>6. Owes(Head(q)) \in 0..1
    BY <2>1, MadeOwes
  <2>7. Finite' /\ Counted'
    BY <2>1, <2>2, <2>4, <2>5, <2>6 DEF BlockInv, Finite, Counted
  <2> QED BY <2>5, <2>7 DEF BlockInv
<1>3. CASE Handle(s)
  <2>1. /\ held[s] \in Message /\ held \in [Subscribers -> Message \cup {None}]
        /\ Release(held[s]) /\ held' = [held EXCEPT ![s] = None] /\ queue' = queue
        /\ task' = [task EXCEPT ![s] = "loop"] /\ UNCHANGED <<msg, pc>>
    BY <1>3 DEF Handle, BlockInv, HandsInv, gnss
  <2>2. /\ IsFiniteSet(Holders(held'))
        /\ Cardinality(Holders(held')) = Cardinality(Holders(held)) - Owes(held[s])
    BY <2>1, PutDown DEF BlockInv, Finite
  <2>3. free' = free + Owes(held[s]) /\ Owes(held[s]) \in 0..1
    BY <2>1, ReleaseGivesBack, MadeOwes
  <2>4. HandsInv' /\ Blocks(queue') = Blocks(queue) /\ Made(msg') = Made(msg)
    BY <2>1 DEF BlockInv, HandsInv, Blocks, Stages
  <2>5. Finite' /\ Counted'
    BY <2>2, <2>3, <2>4 DEF BlockInv, Finite, Counted
  <2> QED BY <2>4, <2>5 DEF BlockInv
<1> QED BY <1>1, <1>2, <1>3 DEF Subscriber

LEMMA BlockInvariant == Spec => []BlockInv
<1>1. Init => BlockInv
  <2> SUFFICES ASSUME Init PROVE BlockInv
    OBVIOUS
  <2>1. Blocks(queue) = {}
    BY DEF Init, Blocks, Places
  <2>2. Holders(held) = {}
    BY DEF Init, Holders
  <2>3. /\ IsFiniteSet(Blocks(queue)) /\ Cardinality(Blocks(queue)) = 0
        /\ IsFiniteSet(Holders(held)) /\ Cardinality(Holders(held)) = 0
    BY <2>1, <2>2, FS_EmptySet
  <2>4. free = Heap /\ Heap \in Nat /\ Made(msg) = 0
    BY QueueAssumption DEF Init, Made
  <2>5. HandsInv
    BY DEF Init, HandsInv, Stages
  <2> QED BY <2>3, <2>4, <2>5 DEF BlockInv, Finite, Counted
<1>2. RoomInv /\ BlockInv /\ [Next]_vars => BlockInv'
  <2>1. ASSUME BlockInv, StartUpgrade \/ UNCHANGED vars PROVE BlockInv'
    <3>1. UNCHANGED <<task, held, queue, free, msg, pc>>
      BY <2>1 DEF StartUpgrade, vars, gnss, subscriber
    <3> QED BY <2>1, <3>1 DEF BlockInv, HandsInv, Finite, Counted, Blocks, Holders, Made
  <2> QED BY <2>1, GnssCounts, SubscriberCounts DEF Next
<1> QED BY <1>1, <1>2, RoomInvariant, PTL DEF Spec

\* For any heap, number of subscribers and queue length: every message block is
\* in the heap, in one queue or in one task's hands (general_message.c:18, 27, 48).
THEOREM NoBlockIsLost == Spec => []BlocksConserved
<1>1. BlockInv => BlocksConserved
  <2> SUFFICES ASSUME BlockInv PROVE BlocksConserved
    OBVIOUS
  <2>1. InQueues = Cardinality(Blocks(queue))
    BY DEF InQueues, Blocks, Places
  <2>2. InHands = Cardinality(Holders(held)) + Made(msg)
    BY DEF InHands, Holders, Made
  <2> QED BY <2>1, <2>2, CardsAreNat DEF BlocksConserved, BlockInv, Counted
<1> QED BY <1>1, BlockInvariant, PTL

\* The state of the queues and of the tasks at both ends keeps its types; in
\* particular the heap never gives out more than it has (gnss.c, general_message.c).
THEOREM QueueTypeCorrect == Spec => []TypeOK
<1> DEFINE Rest == /\ point <= MaxPoints /\ pc \in {"idle", "look", "receive", "create", "send"}
                   /\ Len(slots) <= MaxSlots /\ upgrading \in BOOLEAN /\ taken \in 0..Burst
<1> USE QueueAssumption
<1>1. Init => Rest
  <2> SUFFICES ASSUME Init PROVE Rest
    OBVIOUS
  <2>1. Len(slots) = 0 /\ point = 0 /\ pc = "idle" /\ upgrading = FALSE /\ taken = 0
    BY DEF Init
  <2>2. 0 <= MaxSlots /\ 0 <= MaxPoints /\ 0 \in 0..Burst
    OBVIOUS
  <2> QED BY <2>1, <2>2
<1>2. LatestInv /\ Rest /\ [Next]_vars => Rest'
  <2> SUFFICES ASSUME LatestInv, Rest, [Next]_vars PROVE Rest'
    OBVIOUS
  <2>1. slots \in Seq(Subscribers) /\ Len(slots) \in Nat /\ point \in Nat
    BY DEF LatestInv, RoomInv, Shape
  <2>2. CASE Gnss
    BY <2>1, <2>2 DEF Gnss, Locate, Look, RemoveOldest, Create, Send, NextSlot
  <2>3. ASSUME NEW s \in Subscribers, Subscriber(s) PROVE Rest'
    BY <2>1, <2>3 DEF Subscriber, Subscribe, Begin, Take, Handle, gnss
  <2>4. CASE StartUpgrade \/ UNCHANGED vars
    BY <2>4 DEF StartUpgrade, vars, gnss
  <2> QED BY <2>2, <2>3, <2>4 DEF Next
<1>3. LatestInv /\ BlockInv /\ Rest => TypeOK
  <2> SUFFICES ASSUME LatestInv, BlockInv, Rest PROVE TypeOK
    OBVIOUS
  <2>1. free \in 0..Heap
    <3>1. free <= Heap
      BY CardsAreNat DEF BlockInv, Counted
    <3> QED BY <3>1, CardsAreNat
  <2> QED BY <2>1 DEF TypeOK, LatestInv, RoomInv, Shape, AtSlot, Subscribed, BlockInv, HandsInv, Stages
<1> QED BY <1>1, <1>2, <1>3, LatestInvariant, BlockInvariant, PTL DEF Spec
=============================================================================
