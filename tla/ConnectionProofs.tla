-------------------------- MODULE ConnectionProofs --------------------------
(***************************************************************************)
(* Proofs about Connection, for any number of publishing tasks, retries    *)
(* and faults.                                                             *)
(***************************************************************************)
EXTENDS Connection, FiniteSetTheorems, SequenceTheorems, TLAPS

Stages == {"enter", "leave", "send", "beat", "count", "connect", "close", "reconnect",
           "look", "beats", "read", "restart", "drop", "insert"}
Packets == {"whole", "torn", "refused"}

-----------------------------------------------------------------------------
(* The session's mutexes.                                                  *)

Rank == [data |-> 1, send |-> 2, recv |-> 3]
Needed(t) == IF plan[t] = <<>> THEN <<>> ELSE Needs(Head(plan[t]))
Elements(s) == {s[i] : i \in 1..Len(s)}
Owned(t) == {m \in Mutexes : owner[m] = t}
Rising(s) == \A i, j \in 1..Len(s) : i < j => Rank[s[i]] < Rank[s[j]]

Shape == /\ plan \in [Threads -> Seq(Stages)]
         /\ wants \in [Threads -> Seq(Mutexes)]
         /\ owner \in [Mutexes -> Threads \cup {"nobody"}]

\* a thread owns what its stage needs and it no longer waits for, the lower ones
Orderly(t) == /\ Rising(wants[t])
              /\ Owned(t) \cup Elements(wants[t]) = Elements(Needed(t))
              /\ \A m \in Owned(t), n \in Elements(wants[t]) : Rank[m] < Rank[n]

LockInv == Shape /\ \A t \in Threads : Orderly(t)

LEMMA NeedsFacts ==
  ASSUME NEW stage \in Stages
  PROVE  Needs(stage) \in Seq(Mutexes) /\ Rising(Needs(stage))
<1>1. /\ <<>> \in Seq(Mutexes) /\ Rising(<<>>)
      /\ <<"send">> \in Seq(Mutexes) /\ Rising(<<"send">>)
      /\ <<"recv">> \in Seq(Mutexes) /\ Rising(<<"recv">>)
  BY DEF Mutexes, Rising
<1>2. <<"send", "recv">> \in Seq(Mutexes) /\ Rising(<<"send", "recv">>)
  BY DEF Mutexes, Rising, Rank
<1>3. <<"data", "send", "recv">> \in Seq(Mutexes) /\ Rising(<<"data", "send", "recv">>)
  <2>1. /\ Len(<<"data", "send", "recv">>) = 3
        /\ <<"data", "send", "recv">>[1] = "data" /\ <<"data", "send", "recv">>[2] = "send"
        /\ <<"data", "send", "recv">>[3] = "recv"
    OBVIOUS
  <2>2. Rank["data"] = 1 /\ Rank["send"] = 2 /\ Rank["recv"] = 3
    BY DEF Rank
  <2>3. <<"data", "send", "recv">> \in Seq(Mutexes)
    BY DEF Mutexes
  <2> QED BY <2>1, <2>2, <2>3 DEF Rising
<1> QED BY <1>1, <1>2, <1>3 DEF Needs

LEMMA SeqFacts ==
  ASSUME NEW S, NEW s \in Seq(S)
  PROVE  /\ Len(s) \in Nat /\ \A i \in 1..Len(s) : s[i] \in S
         /\ s # <<>> => /\ Head(s) \in S /\ Head(s) = s[1] /\ Len(s) > 0
                        /\ Tail(s) \in Seq(S) /\ Len(Tail(s)) = Len(s) - 1
                        /\ \A i \in 1..Len(Tail(s)) : Tail(s)[i] = s[i + 1]
         /\ \A x \in S : /\ <<x>> \o s \in Seq(S) /\ <<x>> \o s # <<>>
                         /\ Head(<<x>> \o s) = x
                         /\ \A i \in 1..Len(<<x>> \o s) : i = 1 \/ (<<x>> \o s)[i] \in Elements(s)
<1>1. /\ Len(s) \in Nat /\ \A i \in 1..Len(s) : s[i] \in S
      /\ s # <<>> => /\ Head(s) \in S /\ Head(s) = s[1] /\ Len(s) > 0
                     /\ Tail(s) \in Seq(S) /\ Len(Tail(s)) = Len(s) - 1
                     /\ \A i \in 1..Len(Tail(s)) : Tail(s)[i] = s[i + 1]
  OBVIOUS
<1>2. ASSUME NEW x \in S
      PROVE  /\ <<x>> \o s \in Seq(S) /\ <<x>> \o s # <<>> /\ Head(<<x>> \o s) = x
             /\ \A i \in 1..Len(<<x>> \o s) : i = 1 \/ (<<x>> \o s)[i] \in Elements(s)
  <2>1. /\ <<x>> \in Seq(S) /\ Len(<<x>>) = 1 /\ <<x>>[1] = x
    OBVIOUS
  <2>2. /\ <<x>> \o s \in Seq(S) /\ Len(<<x>> \o s) = 1 + Len(s)
        /\ \A i \in 1..(1 + Len(s)) : (<<x>> \o s)[i] = IF i <= 1 THEN x ELSE s[i - 1]
    BY <2>1
  <2> QED BY <1>1, <2>2 DEF Elements
<1> QED BY <1>1, <1>2

\* a thread's stage is over and it goes on with others, or starts a call
Goes(t, stages) == Release(t) /\ Follow(t, stages)

LEMMA GoesKeeps ==
  ASSUME LockInv, NEW t \in Threads, NEW stages \in Seq(Stages), Goes(t, stages)
  PROVE  LockInv'
<1> DEFINE first == IF stages = <<>> THEN <<>> ELSE Needs(Head(stages))
<1>1. first \in Seq(Mutexes) /\ Rising(first)
  <2>1. stages # <<>> => Head(stages) \in Stages
    BY SeqFacts
  <2>2. <<>> \in Seq(Mutexes) /\ Rising(<<>>)
    BY DEF Rising
  <2> QED BY <2>1, <2>2, NeedsFacts
<1>2. /\ plan' = [plan EXCEPT ![t] = stages] /\ wants' = [wants EXCEPT ![t] = first]
      /\ owner' = [m \in Mutexes |-> IF owner[m] = t THEN "nobody" ELSE owner[m]]
  BY DEF Goes, Release, Follow
<1>3. t # "nobody"
  BY ConnectionAssumption DEF Threads
<1>4. Shape'
  BY <1>1, <1>2 DEF LockInv, Shape
<1>5. Owned(t)' = {} /\ wants'[t] = first /\ Needed(t)' = first
  BY <1>2, <1>3 DEF Owned, Needed, LockInv, Shape
<1>6. ASSUME NEW u \in Threads \ {t} PROVE Orderly(u)'
  <2>1. Owned(u)' = Owned(u) /\ wants'[u] = wants[u] /\ Needed(u)' = Needed(u)
    <3>1. u # "nobody"
      BY ConnectionAssumption DEF Threads
    <3> QED BY <1>2, <3>1 DEF Owned, Needed, LockInv, Shape
  <2> QED BY <2>1 DEF LockInv, Orderly
<1>7. Orderly(t)'
  BY <1>1, <1>5 DEF Orderly
<1> QED BY <1>4, <1>6, <1>7 DEF LockInv

\* a thread in no stage that needs a mutex owns none
LEMMA OwnsNothing ==
  ASSUME LockInv, NEW t \in Threads,
         plan[t] = <<>> \/ Needs(Head(plan[t])) = <<>>, UNCHANGED owner
  PROVE  Release(t)
<1>1. Elements(Needed(t)) = {}
  BY DEF Needed, Elements
<1>2. Owned(t) = {}
  BY <1>1 DEF LockInv, Orderly
<1> QED BY <1>2 DEF Owned, Release, LockInv, Shape

LEMMA AcquireKeeps ==
  ASSUME LockInv, NEW t \in Threads, Acquire(t)
  PROVE  LockInv'
<1> DEFINE w == wants[t]
<1> DEFINE m == Head(w)
<1>1. /\ w \in Seq(Mutexes) /\ w # <<>> /\ owner[m] = "nobody" /\ plan' = plan
      /\ owner' = [owner EXCEPT ![m] = t] /\ wants' = [wants EXCEPT ![t] = Tail(w)]
  BY DEF Acquire, LockInv, Shape
<1>2. /\ m \in Mutexes /\ m = w[1] /\ Len(w) \in Nat /\ Len(w) > 0 /\ Tail(w) \in Seq(Mutexes)
      /\ Len(Tail(w)) = Len(w) - 1 /\ \A i \in 1..Len(Tail(w)) : Tail(w)[i] = w[i + 1]
  BY <1>1, SeqFacts
<1>3. Shape'
  BY <1>1, <1>2 DEF LockInv, Shape
<1>4. ASSUME NEW u \in Threads \ {t} PROVE Orderly(u)'
  <2>1. u # "nobody"
    BY ConnectionAssumption DEF Threads
  <2>2. Owned(u)' = Owned(u) /\ wants'[u] = wants[u] /\ Needed(u)' = Needed(u)
    BY <1>1, <1>2, <2>1 DEF Owned, Needed, LockInv, Shape
  <2> QED BY <2>2 DEF LockInv, Orderly
<1>5. Orderly(t)'
  <2>1. Owned(t)' = Owned(t) \cup {m} /\ wants'[t] = Tail(w) /\ Needed(t)' = Needed(t)
    BY <1>1, <1>2 DEF Owned, Needed, LockInv, Shape
  <2>2. Elements(w) = {m} \cup Elements(Tail(w))
    <3>1. \A i \in 1..Len(w) : i = 1 \/ (i - 1 \in 1..Len(Tail(w)) /\ Tail(w)[i - 1] = w[i])
      BY <1>2
    <3>2. Elements(w) \subseteq {m} \cup Elements(Tail(w))
      BY <1>2, <3>1 DEF Elements
    <3>3. Elements(Tail(w)) \subseteq Elements(w) /\ m \in Elements(w)
      BY <1>2 DEF Elements
    <3> QED BY <3>2, <3>3
  <2>3. Rising(w) /\ \A a \in Owned(t), b \in Elements(w) : Rank[a] < Rank[b]
    BY DEF LockInv, Orderly
  <2>4. Rising(Tail(w)) /\ \A b \in Elements(Tail(w)) : Rank[m] < Rank[b]
    BY <1>2, <2>3 DEF Rising, Elements
  <2>5. Owned(t) \cup Elements(w) = Elements(Needed(t))
    BY DEF LockInv, Orderly
  <2> QED BY <2>1, <2>2, <2>3, <2>4, <2>5 DEF Orderly
<1> QED BY <1>3, <1>4, <1>5 DEF LockInv

\* what a step does to the mutexes
Moves == \/ \E t \in Threads : Acquire(t)
         \/ \E t \in Threads, stages \in Seq(Stages) : Goes(t, stages)
         \/ UNCHANGED <<plan, wants, owner>>
         \/ Reboot

LEMMA TailGoes ==
  ASSUME LockInv, NEW t \in Threads, plan[t] # <<>>, Done(t)
  PROVE  Moves
<1>1. Tail(plan[t]) \in Seq(Stages)
  BY SeqFacts DEF LockInv, Shape
<1> QED BY <1>1 DEF Moves, Goes, Done

LEMMA ConsGoes ==
  ASSUME LockInv, NEW t \in Threads, plan[t] # <<>>, NEW x \in Stages,
         Release(t), Follow(t, <<x>> \o Tail(plan[t]))
  PROVE  Moves
<1>1. <<x>> \o Tail(plan[t]) \in Seq(Stages)
  BY SeqFacts DEF LockInv, Shape
<1> QED BY <1>1 DEF Moves, Goes

\* a call is made by a thread that is in none
LEMMA CallGoes ==
  ASSUME LockInv, NEW t \in Threads, plan[t] = <<>>, NEW stages \in Seq(Stages),
         Call(t, stages), UNCHANGED owner
  PROVE  Moves
<1>1. <<"enter">> \o stages \in Seq(Stages)
  BY SeqFacts DEF Stages
<1>2. Release(t)
  BY OwnsNothing
<1> QED BY <1>1, <1>2 DEF Moves, Goes, Call

LEMMA StageTypes ==
  /\ <<>> \in Seq(Stages) /\ <<"leave">> \in Seq(Stages) /\ RecvCall \in Seq(Stages)
  /\ <<"leave", "close">> \in Seq(Stages) /\ <<"close", "leave">> \in Seq(Stages)
  /\ <<"beat", "count">> \o <<"leave">> \in Seq(Stages) /\ <<>> \o <<"leave">> \in Seq(Stages)
  /\ <<"send", "leave", "restart">> \in Seq(Stages) /\ <<"send", "leave">> \in Seq(Stages)
  /\ <<"connect", "leave">> \in Seq(Stages) /\ <<"drop", "send", "close", "leave">> \in Seq(Stages)
  /\ <<"insert", "send", "leave">> \in Seq(Stages)
<1>1. /\ <<>> \in Seq(Stages) /\ <<"leave">> \in Seq(Stages)
      /\ <<"leave", "close">> \in Seq(Stages) /\ <<"close", "leave">> \in Seq(Stages)
      /\ <<"beat", "count">> \in Seq(Stages) /\ <<"send", "leave">> \in Seq(Stages)
      /\ <<"connect", "leave">> \in Seq(Stages) /\ <<"send", "leave", "restart">> \in Seq(Stages)
  BY DEF Stages
<1>2. /\ RecvCall \in Seq(Stages) /\ <<"drop", "send", "close", "leave">> \in Seq(Stages)
      /\ <<"insert", "send", "leave">> \in Seq(Stages)
  BY DEF Stages, RecvCall
<1> QED BY <1>1, <1>2

LEMMA StageMoves ==
  ASSUME LockInv, NEW t \in Threads, Stage(t)
  PROVE  Moves
<1>1. plan[t] # <<>>
  BY DEF Stage, Enter, Leave, Write, Close, Connect, CountBeat, LookForSocket, LookForBeats,
         ReadNothing, ReadPacket, Reconnect, At, Ready
<1>2. CASE Enter(t) \/ Leave(t) \/ Close(t)
  BY <1>1, <1>2, TailGoes DEF Enter, Leave, Close
<1>3. CASE Write(t)
  <2>1. "close" \in Stages
    BY DEF Stages
  <2> QED BY <1>1, <1>3, <2>1, TailGoes, ConsGoes DEF Write, DoneWith
<1>4. ASSUME NEW ok \in BOOLEAN, Connect(t, ok) PROVE Moves
  <2>1. Done(t) \/ (Release(t) /\ Follow(t, <<"leave">>))
    BY <1>4 DEF Connect, DoneWith
  <2> QED BY <1>1, <2>1, TailGoes, StageTypes DEF Moves, Goes
<1>5. CASE t = "process" /\ CountBeat
  BY <1>1, <1>5, TailGoes DEF CountBeat
<1>6. CASE t = "recv" /\ (LookForSocket \/ LookForBeats)
  <2>1. Needs(Head(plan[t])) = <<>> /\ UNCHANGED owner
    BY <1>6 DEF LookForSocket, LookForBeats, At, Needs
  <2>2. Release(t)
    BY <2>1, OwnsNothing
  <2>3. PICK x \in {"reconnect", "connect"} :
            Follow(t, <<x>> \o Tail(plan[t])) \/ Follow(t, Tail(plan[t]))
    BY <1>6 DEF LookForSocket, LookForBeats
  <2>4. x \in Stages /\ Tail(plan[t]) \in Seq(Stages)
    BY <1>1, SeqFacts DEF Stages, LockInv, Shape
  <2> QED BY <1>1, <2>2, <2>3, <2>4, ConsGoes DEF Moves, Goes
<1>7. CASE t = "recv" /\ ReadNothing
  <2>1. Done(t) \/ (Release(t) /\ Follow(t, <<"leave", "close">>))
    BY <1>7 DEF ReadNothing, DoneWith
  <2> QED BY <1>1, <2>1, TailGoes, StageTypes DEF Moves, Goes
<1>8. ASSUME t = "recv", (\E ok \in BOOLEAN : Reconnect(ok)) \/ (\E how \in Packets : ReadPacket(how))
      PROVE  Moves
  <2>1. Done(t) \/ (Release(t) /\ \E s \in {<<"leave">>, <<"close", "leave">>} : Follow(t, s))
    BY <1>8 DEF Reconnect, ReadPacket, DoneWith
  <2> QED BY <1>1, <2>1, TailGoes, StageTypes DEF Moves, Goes
<1> QED BY <1>2, <1>3, <1>4, <1>5, <1>6, <1>7, <1>8 DEF Stage, Packets

LEMMA MainMoves ==
  ASSUME LockInv, Main
  PROVE  Moves
<1>1. "main" \in Threads
  BY DEF Threads
<1>2. CASE \/ Boot \/ Connected \/ (\E ok \in BOOLEAN : Register(ok)) \/ Deinit \/ Wait
           \/ Create("process", "recv") \/ Create("recv", "subscribe") \/ Online
  <2>1. UNCHANGED <<plan, wants, owner>>
    BY <1>2 DEF Boot, Connected, Register, Deinit, Wait, Create, Online, NoCall, calls
  <2> QED BY <2>1 DEF Moves
<1>3. ASSUME NEW stages \in Seq(Stages), Free("main"), Call("main", stages), UNCHANGED owner
      PROVE  Moves
  BY <1>1, <1>3, CallGoes DEF Free
<1>4. CASE StartConnect \/ Subscribe \/ Send("ntp", "clients") \/ Send("get", "got")
  BY <1>3, <1>4, StageTypes DEF StartConnect, Subscribe, Send, MainAt
<1>5. CASE Clients
  <2>1. /\ Free("main") /\ UNCHANGED owner
        /\ UNCHANGED <<plan, wants>> \/ Call("main", <<"drop", "send", "close", "leave">>)
    BY <1>5 DEF Clients, Stops, MainAt
  <2> QED BY <1>3, <2>1, StageTypes DEF Moves
<1>6. CASE Drop
  BY <1>1, <1>6, TailGoes DEF Drop, At, Ready
<1>7. CASE Insert
  <2>1. plan["main"] # <<>> /\ (Done("main") \/ Goes("main", <<>>))
    BY <1>7 DEF Insert, At, Ready, DoneWith, Goes
  <2> QED BY <1>1, <2>1, TailGoes, StageTypes DEF Moves
<1> QED BY <1>2, <1>4, <1>5, <1>6, <1>7 DEF Main

LEMMA NextMoves ==
  ASSUME LockInv, [Next]_vars
  PROVE  Moves
<1>1. CASE \E t \in Threads : Acquire(t) \/ Stage(t)
  BY <1>1, StageMoves DEF Moves
<1>2. ASSUME NEW t \in Threads, NEW stages \in Seq(Stages), Free(t), Call(t, stages), UNCHANGED owner
      PROVE  Moves
  BY <1>2, CallGoes DEF Free
<1>3. {"process", "recv"} \cup Senders \subseteq Threads
  BY DEF Threads
<1>4. ASSUME NEW beat \in BOOLEAN, Process(beat) PROVE Moves
  <2>1. /\ Free("process") /\ UNCHANGED owner
        /\ \/ UNCHANGED <<plan, wants>>
           \/ Call("process", <<"beat", "count">> \o <<"leave">>)
           \/ Call("process", <<>> \o <<"leave">>)
    BY <1>4 DEF Process
  <2> QED BY <1>2, <1>3, <2>1, StageTypes DEF Moves
<1>5. CASE Recv
  <2>1. /\ Free("recv") /\ UNCHANGED owner
        /\ \/ UNCHANGED <<plan, wants>> \/ Call("recv", RecvCall)
           \/ Call("recv", <<"send", "leave", "restart">>)
    BY <1>5 DEF Recv
  <2> QED BY <1>2, <1>3, <2>1, StageTypes DEF Moves
<1>6. CASE RecvRestarts \/ LinkFails("broken") \/ LinkFails("silent") \/ UNCHANGED vars
  BY <1>6 DEF RecvRestarts, LinkFails, vars, calls, Moves
<1>7. ASSUME NEW s \in Senders, Publish(s) PROVE Moves
  BY <1>2, <1>3, <1>7, StageTypes DEF Publish
<1>8. CASE Reboot
  BY <1>8 DEF Moves
<1> QED BY <1>1, <1>4, <1>5, <1>6, <1>7, <1>8, MainMoves DEF Next, ThreadStep

LEMMA LockInvariant == Spec => []LockInv
<1>1. ASSUME plan = [t \in Threads |-> <<>>], wants = [t \in Threads |-> <<>>],
             owner = [m \in Mutexes |-> "nobody"]
      PROVE  LockInv
  <2>1. Shape
    BY <1>1 DEF Shape
  <2>2. ASSUME NEW t \in Threads PROVE Orderly(t)
    <3>1. t # "nobody"
      BY ConnectionAssumption DEF Threads
    <3> QED BY <1>1, <3>1 DEF Orderly, Rising, Owned, Elements, Needed
  <2> QED BY <2>1, <2>2 DEF LockInv
<1>2. Init => LockInv
  BY <1>1 DEF Init
<1>3. LockInv /\ [Next]_vars => LockInv'
  <2> SUFFICES ASSUME LockInv, [Next]_vars PROVE LockInv'
    OBVIOUS
  <2>1. CASE UNCHANGED <<plan, wants, owner>>
    BY <2>1 DEF LockInv, Shape, Orderly, Owned, Needed
  <2>2. CASE Reboot
    <3>1. /\ plan' = [t \in Threads |-> <<>>] /\ wants' = [t \in Threads |-> <<>>]
          /\ owner' = [m \in Mutexes |-> "nobody"]
      BY <2>2 DEF Reboot
    <3>2. Shape'
      BY <3>1 DEF Shape
    <3>3. ASSUME NEW t \in Threads PROVE Orderly(t)'
      <4>1. t # "nobody"
        BY ConnectionAssumption DEF Threads
      <4> QED BY <3>1, <4>1 DEF Orderly, Rising, Owned, Elements, Needed
    <3> QED BY <3>2, <3>3 DEF LockInv
  <2> QED BY <2>1, <2>2, NextMoves, AcquireKeeps, GoesKeeps DEF Moves
<1> QED BY <1>2, <1>3, PTL DEF Spec

\* For any number of publishing tasks no two threads are on the socket at once
\* unless one sends and the other reads (aiot_mqtt_api.c, aiot_at_api.c:504, 645).
THEOREM SocketApart == Spec => []NetExclusive
<1>1. LockInv => NetExclusive
  <2> SUFFICES ASSUME LockInv, NEW t \in Threads, NEW u \in Threads, t # u,
                      UsesSocket(t), UsesSocket(u)
               PROVE  /\ Head(plan[t]) \in {"send", "beat", "read"}
                      /\ Head(plan[u]) \in {"send", "beat", "read"}
                      /\ ~(Head(plan[t]) = "read" /\ Head(plan[u]) = "read")
    BY DEF NetExclusive
  <2>1. ASSUME NEW v \in Threads, UsesSocket(v)
        PROVE  Owned(v) = Elements(Needs(Head(plan[v])))
    <3>1. plan[v] # <<>> /\ wants[v] = <<>>
      BY <2>1 DEF UsesSocket, Ready
    <3> QED BY <3>1 DEF LockInv, Orderly, Elements, Needed
  <2>2. Owned(t) \cap Owned(u) = {}
    BY DEF Owned
  <2>3. /\ Elements(<<"send">>) = {"send"} /\ Elements(<<"recv">>) = {"recv"}
        /\ {"send", "recv"} \subseteq Elements(<<"send", "recv">>)
        /\ {"send", "recv"} \subseteq Elements(<<"data", "send", "recv">>)
    BY DEF Elements
  <2>4. ASSUME NEW v \in Threads, UsesSocket(v)
        PROVE  \/ Head(plan[v]) \in {"send", "beat"} /\ "send" \in Owned(v)
               \/ Head(plan[v]) = "read" /\ "recv" \in Owned(v)
               \/ {"send", "recv"} \subseteq Owned(v)
    <3>1. CASE Head(plan[v]) \in {"send", "beat", "read"}
      BY <2>1, <2>3, <2>4, <3>1 DEF Needs
    <3>2. CASE Head(plan[v]) \in {"connect", "close", "reconnect"}
      <4>1. Needs(Head(plan[v])) \in {<<"send", "recv">>, <<"data", "send", "recv">>}
        BY <3>2 DEF Needs
      <4> QED BY <2>1, <2>3, <2>4, <4>1
    <3> QED BY <2>4, <3>1, <3>2 DEF UsesSocket
  <2> QED BY <2>2, <2>4
<1> QED BY <1>1, LockInvariant, PTL

\* Whatever the threads do, they take the mutexes in one order, and so never wait
\* for one another in a circle.
THEOREM NoDeadlock == Spec => []NoCircle
<1>1. LockInv => NoCircle
  <2> SUFFICES ASSUME LockInv, NEW ts \in (SUBSET Threads) \ {{}}
               PROVE  ~(\A t \in ts : Waits(t, ts))
    BY DEF NoCircle
  <2> SUFFICES ASSUME \A t \in ts : Waits(t, ts) PROVE FALSE
    OBVIOUS
  <2> DEFINE first(t) == Head(wants[t])
  <2>1. ASSUME NEW t \in ts
        PROVE  /\ owner[first(t)] \in ts /\ first(t) \in Mutexes /\ wants[t] # <<>>
               /\ first(t) \in Elements(wants[t])
    <3>1. wants[t] \in Seq(Mutexes) /\ wants[t] # <<>> /\ owner[first(t)] \in ts
      BY DEF Waits, LockInv, Shape
    <3>2. first(t) \in Mutexes /\ first(t) = wants[t][1] /\ Len(wants[t]) > 0 /\ Len(wants[t]) \in Nat
      BY <3>1, SeqFacts
    <3> QED BY <3>1, <3>2 DEF Elements
  <2>2. ASSUME NEW t \in ts
        PROVE  Rank[first(t)] < Rank[first(owner[first(t)])]
    <3> DEFINE u == owner[first(t)]
    <3>1. u \in ts /\ u \in Threads /\ first(t) \in Owned(u) /\ first(u) \in Elements(wants[u])
      BY <2>1 DEF Owned
    <3> QED BY <3>1 DEF LockInv, Orderly
  <2>0. ts # {}
    OBVIOUS
  <2>3. PICK t : t \in ts
    BY <2>0
  <2> DEFINE u == owner[first(t)]
  <2> DEFINE v == owner[first(u)]
  <2> DEFINE w == owner[first(v)]
  <2>4. t \in ts /\ u \in ts /\ v \in ts /\ w \in ts
    BY <2>1, <2>3
  <2>5. /\ Rank[first(t)] < Rank[first(u)] /\ Rank[first(u)] < Rank[first(v)]
        /\ Rank[first(v)] < Rank[first(w)]
    BY <2>2, <2>4
  <2>6. \A x \in ts : Rank[first(x)] \in 1..3
    BY <2>1 DEF Rank, Mutexes
  <2>7. \A a, b, c, d \in 1..3 : ~(a < b /\ b < c /\ c < d)
    OBVIOUS
  <2> QED BY <2>4, <2>5, <2>6, <2>7
<1> QED BY <1>1, LockInvariant, PTL

-----------------------------------------------------------------------------
(* Without a fault nothing looks like one.                                 *)

\* what the threads do as long as nothing goes wrong
Quiet == Stages \ {"close", "reconnect", "restart", "drop"}
FirstCall == <<"enter", "connect", "leave">>
FirstStep == <<"connect", "leave">>

\* iot_connect's task is still on its way to the first connection
Early == /\ net = "none" /\ alive = {"main"}
         /\ main \in {"boot", "register", "connect", "connecting"}
         /\ plan["main"] \in {<<>>, FirstCall, FirstStep}
         /\ main = "connecting" => plan["main"] # <<>>

Fine == /\ enabled = TRUE /\ (up \/ main = "register") /\ main \notin {"stopped", "waiting"}
        /\ \A t \in Threads : result[t] = "ok"
        /\ \A t \in Threads : plan[t] \in Seq(Quiet)
        /\ net = "open" \/ Early

Alive == /\ alive \subseteq Threads /\ harm \in Nat /\ result \in [Threads -> {"ok", "error", "disabled"}]
         /\ \A t \in Threads \ alive : plan[t] = <<>>

CauseInv == LockInv /\ Alive /\ (harm = 0 => Fine)

LEMMA MainIsThread == "main" \in Threads /\ "process" \in Threads /\ "recv" \in Threads /\ Senders \subseteq Threads
  BY DEF Threads

\* whoever is past the first connection finds a socket
LEMMA HasSocket ==
  ASSUME CauseInv, harm = 0, NEW t \in Threads,
         \/ plan[t] # <<>> /\ Head(plan[t]) \notin {"enter", "connect"}
         \/ t \in alive /\ t # "main"
         \/ plan["main"] = <<>> /\ main \notin {"boot", "register", "connect"}
  PROVE  net = "open"
<1> SUFFICES ASSUME Early PROVE FALSE
  BY DEF CauseInv, Fine
<1>1. Head(FirstCall) = "enter" /\ Head(FirstStep) = "connect"
  BY DEF FirstCall, FirstStep
<1>2. CASE plan[t] # <<>> /\ Head(plan[t]) \notin {"enter", "connect"}
  <2>1. t = "main"
    BY <1>2 DEF CauseInv, Alive, Early
  <2> QED BY <1>1, <1>2, <2>1 DEF Early
<1>3. CASE (t \in alive /\ t # "main") \/ (plan["main"] = <<>> /\ main \notin {"boot", "register", "connect"})
  BY <1>3 DEF Early
<1> QED BY <1>2, <1>3

\* with a socket a thread goes on with anything quiet
LEMMA QuietGoes ==
  ASSUME CauseInv, harm = 0, net = "open", net' = "open", NEW t \in alive,
         NEW stages \in Seq(Quiet), Follow(t, stages),
         UNCHANGED <<harm, result, enabled, alive>>, up' \/ main' = "register",
         main' \notin {"stopped", "waiting"}
  PROVE  Alive' /\ Fine'
  BY DEF CauseInv, Alive, Fine, Follow, LockInv, Shape

LEMMA QuietTail ==
  ASSUME NEW q \in Seq(Quiet), q # <<>>
  PROVE  Tail(q) \in Seq(Quiet) /\ Head(q) \in Quiet
         /\ \A x \in Quiet : <<x>> \o Tail(q) \in Seq(Quiet)
  BY SeqFacts

LEMMA QuietStages ==
  /\ <<"enter">> \o (<<"beat", "count">> \o <<"leave">>) \in Seq(Quiet)
  /\ <<"enter">> \o (<<>> \o <<"leave">>) \in Seq(Quiet)
  /\ <<"enter">> \o RecvCall \in Seq(Quiet)
  /\ <<"enter">> \o <<"send", "leave">> \in Seq(Quiet)
  /\ <<"enter">> \o <<"insert", "send", "leave">> \in Seq(Quiet)
  /\ <<"enter">> \o <<"connect", "leave">> = FirstCall /\ FirstCall \in Seq(Quiet)
  /\ FirstStep = Tail(FirstCall) /\ FirstStep \in Seq(Quiet)
<1>1. /\ <<"beat", "count">> \in Seq(Quiet) /\ <<"leave">> \in Seq(Quiet) /\ <<>> \in Seq(Quiet)
      /\ <<"send", "leave">> \in Seq(Quiet) /\ <<"enter">> \in Seq(Quiet)
      /\ <<"insert", "send", "leave">> \in Seq(Quiet)
  BY DEF Quiet, Stages
<1>2. RecvCall \in Seq(Quiet)
  BY DEF RecvCall, Quiet, Stages
<1>3. FirstCall \in Seq(Quiet) /\ FirstStep \in Seq(Quiet) /\ FirstStep = Tail(FirstCall)
  BY DEF FirstCall, FirstStep, Quiet, Stages
<1>4. <<"enter">> \o <<"connect", "leave">> = FirstCall
  <2> DEFINE joined == <<"enter">> \o <<"connect", "leave">>
  <2>1. /\ joined \in Seq(Quiet) /\ Len(joined) = 3
        /\ joined[1] = "enter" /\ joined[2] = "connect" /\ joined[3] = "leave"
    BY DEF Quiet, Stages
  <2>2. /\ Len(FirstCall) = 3
        /\ FirstCall[1] = "enter" /\ FirstCall[2] = "connect" /\ FirstCall[3] = "leave"
    BY DEF FirstCall
  <2>3. \A i \in 1..3 : joined[i] = FirstCall[i]
    BY <2>1, <2>2
  <2> HIDE DEF joined
  <2> QED BY <1>3, <2>1, <2>2, <2>3, SeqEqual
<1> QED BY <1>1, <1>2, <1>3, <1>4

LEMMA StageCalm ==
  ASSUME CauseInv, NEW t \in Threads, Stage(t)
  PROVE  Alive' /\ (harm' = 0 => Fine')
<1> USE MainIsThread
<1> DEFINE q == plan[t]
<1>1. /\ q # <<>> /\ t \in alive /\ up /\ UNCHANGED <<main, up, alive, enabled>>
      /\ harm' \in {harm, harm + 1}
  BY DEF Stage, Enter, Leave, Write, Close, Connect, CountBeat, LookForSocket, LookForBeats,
         ReadNothing, ReadPacket, Reconnect, At, Ready, CauseInv, Alive, start, session, link, Opens
<1>2. PICK stages : Follow(t, stages)
  BY DEF Stage, Enter, Leave, Write, Close, Connect, CountBeat, LookForSocket, LookForBeats,
         ReadNothing, ReadPacket, Reconnect, Done, DoneWith
<1>3. result' \in [Threads -> {"ok", "error", "disabled"}]
  BY DEF Stage, Enter, Leave, Write, Close, Connect, CountBeat, LookForSocket, LookForBeats,
         ReadNothing, ReadPacket, Reconnect, Done, DoneWith, CauseInv, Alive
<1>4. Alive'
  <2>1. alive' \subseteq Threads /\ harm' \in Nat
    BY <1>1 DEF CauseInv, Alive
  <2>2. \A u \in Threads \ alive : plan'[u] = plan[u]
    BY <1>1, <1>2 DEF Follow, CauseInv, LockInv, Shape
  <2> QED BY <1>1, <1>3, <2>1, <2>2 DEF CauseInv, Alive
<1> SUFFICES ASSUME harm' = 0 PROVE Fine'
  BY <1>4
<1>5. harm = 0 /\ harm' = harm /\ Fine
  BY <1>1 DEF CauseInv, Alive
<1>6. q \in Seq(Quiet) /\ Tail(q) \in Seq(Quiet) /\ Head(q) \in Quiet
  BY <1>1, <1>5, QuietTail DEF Fine
<1>7. main \notin {"stopped", "waiting"}
  BY <1>5 DEF Fine
<1>8. ASSUME net = "open", net' = "open", Done(t)
      PROVE  Fine'
  BY <1>1, <1>5, <1>6, <1>7, <1>8, QuietGoes DEF Done
<1>9. CASE Enter(t)
  <2>1. Done(t) /\ net' = net /\ Head(q) = "enter"
    BY <1>9 DEF Enter, At, link
  <2>2. CASE Early
    <3>1. t = "main" /\ q = FirstCall
      BY <1>1, <2>1, <2>2 DEF Early, FirstStep
    <3>2. plan' = [plan EXCEPT !["main"] = FirstStep] /\ result' = result
      BY <2>1, <3>1, QuietStages DEF Done, Follow
    <3>3. FirstStep # <<>> /\ plan'["main"] = FirstStep
      BY <3>2 DEF FirstStep, CauseInv, LockInv, Shape
    <3>4. Early'
      BY <1>1, <2>1, <2>2, <3>3 DEF Early
    <3>5. \A u \in Threads : plan'[u] \in Seq(Quiet)
      BY <1>5, <3>2, QuietStages DEF Fine, CauseInv, LockInv, Shape
    <3> QED BY <1>1, <1>5, <3>2, <3>4, <3>5 DEF Fine
  <2> QED BY <1>5, <1>8, <2>1, <2>2 DEF Fine
<1>10. CASE Leave(t)
  <2>1. Done(t) /\ net' = net /\ Head(q) = "leave"
    BY <1>10 DEF Leave, At, link
  <2> QED BY <1>1, <1>5, <1>8, <2>1, HasSocket
<1>11. CASE Write(t)
  <2>1. Head(q) \in {"send", "beat"} /\ net' = net
    BY <1>11 DEF Write, At
  <2>2. net = "open"
    BY <1>1, <1>5, <2>1, HasSocket
  <2> QED BY <1>8, <1>11, <2>1, <2>2 DEF Write
<1>12. ASSUME NEW ok \in BOOLEAN, Connect(t, ok) PROVE Fine'
  <2>0. Head(q) = "connect" /\ ok
    BY <1>5, <1>12 DEF Connect, At, Opens, CauseInv, Alive
  <2>1. Head(q) = "connect" /\ net' = "open" /\ Done(t)
    BY <1>12, <2>0 DEF Connect, Opens
  <2>2. plan' = [plan EXCEPT ![t] = Tail(q)] /\ result' = result
    BY <2>1 DEF Done, Follow
  <2>3. \A u \in Threads : plan'[u] \in Seq(Quiet)
    BY <1>5, <1>6, <2>2 DEF Fine, CauseInv, LockInv, Shape
  <2> QED BY <1>1, <1>5, <2>1, <2>2, <2>3 DEF Fine
<1>13. CASE t = "process" /\ CountBeat
  <2>1. Done(t) /\ net' = net /\ Head(q) = "count"
    BY <1>13 DEF CountBeat, At, link
  <2> QED BY <1>1, <1>5, <1>8, <2>1, HasSocket
<1>14. CASE t = "recv" /\ (LookForSocket \/ LookForBeats)
  <2>1. Head(q) \in {"look", "beats"} /\ net' = net /\ result' = result
    BY <1>14 DEF LookForSocket, LookForBeats, At, link
  <2>2. net = "open"
    BY <1>1, <1>5, <2>1, HasSocket
  <2>3. PICK s \in Seq(Quiet) : Follow(t, s)
    <3>1. "connect" \in Quiet
      BY DEF Quiet, Stages
    <3>2. Follow(t, Tail(q)) \/ Follow(t, <<"connect">> \o Tail(q))
      BY <1>14, <2>2 DEF LookForSocket, LookForBeats
    <3> QED BY <1>1, <1>6, <3>1, <3>2, QuietTail
  <2> QED BY <1>1, <1>5, <1>7, <2>1, <2>2, <2>3, QuietGoes
<1>15. CASE t = "recv" /\ ReadNothing
  <2>1. Head(q) = "read" /\ net' = net
    BY <1>15 DEF ReadNothing, At, link
  <2>2. net = "open"
    BY <1>1, <1>5, <2>1, HasSocket
  <2> QED BY <1>8, <1>15, <2>1, <2>2 DEF ReadNothing
<1>16. ASSUME t = "recv", NEW how \in Packets, ReadPacket(how) PROVE Fine'
  <2>0. Head(q) = "read" /\ net' = net /\ how = "whole"
    BY <1>5, <1>16 DEF ReadPacket, At, CauseInv, Alive
  <2>1. Head(q) = "read" /\ net' = net /\ Done(t)
    BY <1>16, <2>0 DEF ReadPacket
  <2> QED BY <1>1, <1>5, <1>8, <2>1, HasSocket
<1>17. CASE Close(t) \/ (t = "recv" /\ \E ok \in BOOLEAN : Reconnect(ok))
  BY <1>6, <1>17 DEF Close, Reconnect, At, Quiet
<1> QED BY <1>9, <1>10, <1>11, <1>12, <1>13, <1>14, <1>15, <1>16, <1>17 DEF Stage, Packets

\* a thread other than iot_connect's makes a call
LEMMA CallCalm ==
  ASSUME CauseInv, NEW t \in Threads, t # "main", Free(t), NEW stages, Call(t, stages),
         <<"enter">> \o stages \in Seq(Quiet) \/ harm # 0,
         UNCHANGED <<main, harm, net, enabled, alive, up>>
  PROVE  Alive' /\ (harm' = 0 => Fine')
<1>1. t \in alive
  BY DEF Free
<1>2. /\ result' \in [Threads -> {"ok", "error", "disabled"}]
      /\ \A u \in Threads \ {t} : plan'[u] = plan[u]
  BY DEF Call, Follow, CauseInv, Alive, LockInv, Shape
<1>3. Alive'
  BY <1>1, <1>2 DEF CauseInv, Alive
<1>4. ASSUME harm' = 0 PROVE Fine'
  <2>1. Fine /\ harm = 0 /\ net = "open"
    BY <1>1, <1>4, HasSocket DEF CauseInv
  <2>2. Follow(t, <<"enter">> \o stages) /\ result' = [result EXCEPT ![t] = "ok"]
    BY <2>1 DEF Call, Fine
  <2>3. result' = result
    BY <2>1, <2>2 DEF Fine, CauseInv, Alive
  <2> QED BY <1>1, <2>1, <2>2, <2>3, QuietGoes DEF Fine
<1> QED BY <1>3, <1>4

\* iot_connect's task on line
LEMMA OnlineCall ==
  ASSUME CauseInv, MainAt("subscribe") \/ MainAt("ntp") \/ MainAt("get"),
         NEW stages \in {<<"send", "leave">>, <<"insert", "send", "leave">>},
         Call("main", stages),
         main' \in {"ntp", "clients", "got"}, UNCHANGED <<harm, net, enabled, alive, up>>
  PROVE  Alive' /\ (harm' = 0 => Fine')
<1>1. "main" \in alive /\ up /\ plan["main"] = <<>> /\ main \notin {"boot", "register", "connect"}
  BY DEF MainAt, Free
<1>2. /\ result' \in [Threads -> {"ok", "error", "disabled"}]
      /\ \A u \in Threads \ {"main"} : plan'[u] = plan[u]
  BY DEF Call, Follow, CauseInv, Alive, LockInv, Shape
<1>3. Alive'
  BY <1>1, <1>2 DEF CauseInv, Alive
<1>4. ASSUME harm' = 0 PROVE Fine'
  <2>1. Fine /\ harm = 0 /\ net = "open"
    BY <1>1, <1>4, HasSocket, MainIsThread DEF CauseInv
  <2>2. /\ Follow("main", <<"enter">> \o stages)
        /\ result' = [result EXCEPT !["main"] = "ok"]
    BY <2>1 DEF Call, Fine
  <2>3. result' = result
    BY <2>1, <2>2 DEF Fine, CauseInv, Alive
  <2> QED BY <1>1, <2>1, <2>2, <2>3, QuietGoes, QuietStages
<1> QED BY <1>3, <1>4

LEMMA MainCalm ==
  ASSUME CauseInv, Main
  PROVE  Alive' /\ (harm' = 0 => Fine')
<1> USE MainIsThread
<1>1. CASE Boot \/ \E ok \in BOOLEAN : Register(ok)
  <2>1. /\ UNCHANGED <<alive, plan, result, enabled, net>> /\ MainAt(main)
        /\ main \in {"boot", "register"}
        /\ harm' = harm + 1 \/ (harm' = harm /\ main' \in {"connect", "register"})
        /\ up' = up \/ main' = "register"
    BY <1>1 DEF GoTo, Boot, Register, MainAt, NoCall, calls, session, link
  <2>2. Alive'
    BY <2>1 DEF CauseInv, Alive
  <2>3. ASSUME harm' = 0 PROVE Fine'
    <3>1. harm = 0 /\ Fine /\ main' \in {"connect", "register"} /\ up
      BY <2>1, <2>3 DEF CauseInv, Alive, MainAt, Free
    <3> QED BY <2>1, <3>1 DEF Fine, Early
  <2> QED BY <2>2, <2>3
<1>2. CASE StartConnect
  <2>1. /\ UNCHANGED <<alive, up, enabled, net, harm>> /\ main' = "connecting" /\ main = "connect"
        /\ Call("main", <<"connect", "leave">>) /\ up /\ "main" \in alive
    BY <1>2 DEF GoTo, StartConnect, MainAt, Free, session, link
  <2>2. /\ result' \in [Threads -> {"ok", "error", "disabled"}]
        /\ \A u \in Threads \ {"main"} : plan'[u] = plan[u]
    BY <2>1 DEF Call, Follow, CauseInv, Alive, LockInv, Shape
  <2>3. Alive'
    BY <2>1, <2>2 DEF CauseInv, Alive
  <2>4. ASSUME harm' = 0 PROVE Fine'
    <3>1. harm = 0 /\ Fine
      BY <2>1, <2>4 DEF CauseInv
    <3>2. plan' = [plan EXCEPT !["main"] = FirstCall] /\ result' = [result EXCEPT !["main"] = "ok"]
      BY <2>1, <3>1, QuietStages DEF Call, Follow, Fine
    <3>3. plan'["main"] = FirstCall /\ FirstCall # <<>>
      BY <3>2 DEF CauseInv, LockInv, Shape, FirstCall
    <3>4. \A u \in Threads : plan'[u] \in Seq(Quiet) /\ result'[u] = "ok"
      BY <3>1, <3>2, <3>3, QuietStages DEF Fine, CauseInv, LockInv, Shape, Alive
    <3>5. net = "open" \/ Early'
      BY <2>1, <3>1, <3>3 DEF Fine, Early
    <3> QED BY <2>1, <3>1, <3>4, <3>5 DEF Fine
  <2> QED BY <2>3, <2>4
<1>3. CASE Connected
  <2>1. /\ UNCHANGED <<alive, plan, result, enabled, net, harm>> /\ main = "connecting"
        /\ plan["main"] = <<>> /\ up
        /\ result["main"] = "ok" => main' = "process" /\ up' = up
    BY <1>3 DEF GoTo, Connected, MainAt, Free, NoCall, calls, session, link
  <2>2. Alive'
    BY <2>1 DEF CauseInv, Alive
  <2>3. ASSUME harm' = 0 PROVE Fine'
    <3>1. harm = 0 /\ Fine /\ net = "open" /\ result["main"] = "ok"
      BY <2>1, <2>3, HasSocket DEF CauseInv, Fine
    <3> QED BY <2>1, <3>1 DEF Fine
  <2> QED BY <2>2, <2>3
<1>4. ASSUME NEW t \in {"process", "recv"}, NEW next \in {"recv", "subscribe"}, Create(t, next)
      PROVE  Alive' /\ (harm' = 0 => Fine')
  <2>1. /\ UNCHANGED <<plan, result, enabled, net>> /\ main = t /\ plan["main"] = <<>> /\ up
        /\ alive' = alive \cup {t} \/ alive' = alive
        /\ (main' = next /\ up' = up /\ harm' = harm) \/ harm' = harm + 1
    BY <1>4 DEF GoTo, Create, MainAt, Free, calls, session
  <2>2. harm' \in {harm, harm + 1} /\ harm \in Nat
    BY <1>4 DEF Create, CauseInv, Alive
  <2>3. Alive'
    <3>1. alive \subseteq alive' /\ alive' \subseteq Threads
      BY <2>1 DEF CauseInv, Alive
    <3>2. harm' \in Nat
      BY <2>2
    <3> QED BY <2>1, <3>1, <3>2 DEF CauseInv, Alive
  <2>4. ASSUME harm' = 0 PROVE Fine'
    <3>1. harm = 0 /\ harm' = harm
      BY <2>2, <2>4
    <3>2. Fine /\ main' = next /\ up' /\ main \notin {"boot", "register", "connect"}
      BY <2>1, <3>1 DEF CauseInv
    <3>3. net = "open"
      BY <2>1, <3>1, <3>2, HasSocket
    <3> QED BY <3>2, <3>3, <2>1, <3>1 DEF Fine
  <2> QED BY <2>3, <2>4
<1>5. CASE Subscribe \/ Send("ntp", "clients") \/ Send("get", "got")
  BY <1>5, OnlineCall DEF GoTo, Subscribe, Send, session, link
<1>6. CASE Clients
  <2>1. /\ UNCHANGED <<alive, enabled, net, up>> /\ main = "clients" /\ plan["main"] = <<>>
        /\ up /\ "main" \in alive /\ harm' \in {harm, harm + 1}
    BY <1>6 DEF GoTo, Clients, MainAt, Free, session
  <2>2. Alive'
    <3>1. /\ result' \in [Threads -> {"ok", "error", "disabled"}]
          /\ \A u \in Threads \ {"main"} : plan'[u] = plan[u]
      BY <1>6 DEF GoTo, Clients, Stops, Call, Follow, CauseInv, Alive, LockInv, Shape
    <3> QED BY <2>1, <3>1 DEF CauseInv, Alive
  <2>3. ASSUME harm' = 0 PROVE Fine'
    <3>1. harm = 0 /\ Fine /\ net = "open"
      BY <2>1, <2>3, HasSocket DEF CauseInv, Alive
    <3>2. main' = "get" /\ UNCHANGED <<plan, result>>
      BY <1>6, <2>3, <3>1 DEF GoTo, Clients, Fine
    <3> QED BY <2>1, <3>1, <3>2 DEF Fine
  <2> QED BY <2>2, <2>3
<1>7. CASE Online
  <2>1. /\ UNCHANGED <<plan, enabled, net, harm, up>> /\ main = "got" /\ main' = "online"
        /\ plan["main"] = <<>> /\ up /\ alive' = (alive \ {"main"}) \cup Senders
        /\ result' = [result EXCEPT !["main"] = "ok"]
    BY <1>7 DEF GoTo, Online, MainAt, Free, session, link
  <2>2. Alive'
    BY <2>1 DEF CauseInv, Alive
  <2>3. ASSUME harm' = 0 PROVE Fine'
    <3>1. harm = 0 /\ Fine /\ net = "open"
      BY <2>1, <2>3, HasSocket DEF CauseInv
    <3> QED BY <2>1, <3>1 DEF Fine, CauseInv, Alive
  <2> QED BY <2>2, <2>3
<1>8. CASE Drop
  <2>1. /\ UNCHANGED <<alive, harm, result>> /\ plan["main"] # <<>> /\ Head(plan["main"]) = "drop"
        /\ Follow("main", Tail(plan["main"]))
    BY <1>8 DEF Drop, At, Ready, start, link, Done
  <2>2. harm # 0
    <3> SUFFICES ASSUME harm = 0 PROVE FALSE
      OBVIOUS
    <3>1. plan["main"] \in Seq(Quiet)
      BY DEF CauseInv, Fine
    <3> QED BY <2>1, <3>1, QuietTail DEF Quiet
  <2>3. \A u \in Threads \ {"main"} : plan'[u] = plan[u]
    BY <2>1 DEF Follow, CauseInv, LockInv, Shape
  <2>4. "main" \in alive
    BY <2>1 DEF CauseInv, Alive
  <2> QED BY <2>1, <2>2, <2>3, <2>4 DEF CauseInv, Alive
<1>9. CASE Deinit \/ Wait
  <2>1. UNCHANGED <<alive, harm, result, plan>> /\ main \in {"stopped", "waiting"}
    BY <1>9 DEF GoTo, Deinit, Wait, MainAt, calls, link
  <2> QED BY <2>1 DEF CauseInv, Alive, Fine
<1>10. CASE Insert
  <2>1. /\ UNCHANGED <<alive, main, up, enabled, net>>
        /\ plan["main"] # <<>> /\ Head(plan["main"]) = "insert" /\ up
        /\ (harm' = harm /\ Done("main")) \/ (harm' = harm + 1 /\ DoneWith("main", <<>>, "error"))
    BY <1>10 DEF Insert, At, Ready, start
  <2>2. "main" \in alive
    BY <2>1 DEF CauseInv, Alive
  <2>3. /\ result' \in [Threads -> {"ok", "error", "disabled"}]
        /\ \A u \in Threads \ {"main"} : plan'[u] = plan[u]
    BY <2>1 DEF Done, DoneWith, Follow, CauseInv, Alive, LockInv, Shape
  <2>4. Alive'
    BY <2>1, <2>2, <2>3 DEF CauseInv, Alive
  <2>5. ASSUME harm' = 0 PROVE Fine'
    <3>1. harm = 0 /\ harm' = harm /\ Fine
      BY <2>1, <2>5 DEF CauseInv, Alive
    <3>2. net = "open"
      BY <2>1, <3>1, HasSocket
    <3>3. Follow("main", Tail(plan["main"])) /\ result' = result
      BY <2>1, <3>1 DEF Done, CauseInv, Alive
    <3>4. Tail(plan["main"]) \in Seq(Quiet) /\ main \notin {"stopped", "waiting"}
      BY <2>1, <3>1, QuietTail DEF Fine
    <3> QED BY <2>1, <2>2, <3>1, <3>2, <3>3, <3>4, QuietGoes
  <2> QED BY <2>4, <2>5
<1> QED BY <1>1, <1>2, <1>3, <1>4, <1>5, <1>6, <1>7, <1>8, <1>9, <1>10 DEF Main

LEMMA CauseInvariant == Spec => []CauseInv
<1> USE MainIsThread
<1>1. ASSUME main = "boot", alive = {"main"}, plan = [t \in Threads |-> <<>>], up = TRUE,
             result = [t \in Threads |-> "ok"], enabled = TRUE, net = "none", harm = 0
      PROVE  Alive /\ Fine
  <2>1. <<>> \in Seq(Quiet)
    OBVIOUS
  <2> QED BY <1>1, <2>1 DEF Alive, Fine, Early
<1>2. Init => Alive /\ Fine
  BY <1>1 DEF Init
<1>3. ASSUME CauseInv, [Next]_vars PROVE Alive' /\ (harm' = 0 => Fine')
  <2>1. ASSUME NEW t \in Threads, Acquire(t) PROVE Alive' /\ (harm' = 0 => Fine')
    BY <1>3, <2>1 DEF Acquire, start, session, link, CauseInv, Alive, Fine, Early
  <2>2. ASSUME NEW t \in Threads, UNCHANGED <<plan, result, main, harm, net, enabled, up>>,
               alive' = alive \/ (t # "main" /\ Free(t) /\ alive' = alive \ {t})
        PROVE  Alive' /\ (harm' = 0 => Fine')
    <3>1. Alive'
      BY <1>3, <2>2 DEF Free, CauseInv, Alive
    <3>2. ASSUME harm' = 0 PROVE Fine'
      <4>1. harm = 0 /\ Fine
        BY <1>3, <2>2, <3>2 DEF CauseInv
      <4> QED BY <2>2, <4>1 DEF Fine, Early, Free
    <3> QED BY <3>1, <3>2
  <2>3. ASSUME NEW beat \in BOOLEAN, Process(beat) PROVE Alive' /\ (harm' = 0 => Fine')
    <3>1. UNCHANGED <<main, harm, net, enabled, up>> /\ Free("process")
      BY <2>3 DEF Process, session, link
    <3>2. CASE running /\ result["process"] # "disabled"
      <4>1. alive' = alive /\ \E s \in {<<"beat", "count">> \o <<"leave">>, <<>> \o <<"leave">>} :
                                  Call("process", s)
        BY <2>3, <3>2 DEF Process
      <4> QED BY <1>3, <3>1, <4>1, CallCalm, QuietStages
    <3>3. CASE ~(running /\ result["process"] # "disabled")
      BY <2>2, <2>3, <3>1, <3>3 DEF Process
    <3> QED BY <3>2, <3>3
  <2>4. CASE Recv
    <3>1. UNCHANGED <<main, harm, net, enabled>> /\ Free("recv")
      BY <2>4 DEF Recv, session, link
    <3>2. CASE result["recv"] = "error"
      <4>1. harm # 0
        BY <1>3, <3>2 DEF CauseInv, Fine
      <4>2. /\ alive' = alive /\ \A u \in Threads \ {"recv"} : plan'[u] = plan[u]
            /\ result' \in [Threads -> {"ok", "error", "disabled"}]
        BY <1>3, <2>4, <3>2 DEF Recv, Call, Follow, CauseInv, LockInv, Shape, Alive
      <4> QED BY <1>3, <3>1, <4>1, <4>2 DEF CauseInv, Alive, Free
    <3>3. CASE result["recv"] # "error" /\ running /\ result["recv"] # "disabled"
      <4>1. UNCHANGED <<alive, up>> /\ Call("recv", RecvCall)
        BY <2>4, <3>3 DEF Recv
      <4> QED BY <1>3, <3>1, <4>1, CallCalm, QuietStages
    <3>4. CASE result["recv"] # "error" /\ ~(running /\ result["recv"] # "disabled")
      <4>1. UNCHANGED <<up, plan, result>> /\ alive' = alive \ {"recv"}
        BY <2>4, <3>4 DEF Recv
      <4> QED BY <2>2, <3>1, <4>1
    <3> QED BY <3>2, <3>3, <3>4
  <2>5. CASE RecvRestarts
    <3>1. UNCHANGED <<alive, harm, result, plan>> /\ plan["recv"] # <<>> /\ Head(plan["recv"]) = "restart"
      BY <2>5 DEF RecvRestarts, calls, link, At, Ready
    <3>2. harm # 0
      <4> SUFFICES ASSUME harm = 0 PROVE FALSE
        OBVIOUS
      <4>1. plan["recv"] \in Seq(Quiet)
        BY <1>3 DEF CauseInv, Fine
      <4> QED BY <3>1, <4>1, QuietTail DEF Quiet
    <3> QED BY <1>3, <3>1, <3>2 DEF CauseInv, Alive
  <2>6. ASSUME NEW s \in Senders, Publish(s) PROVE Alive' /\ (harm' = 0 => Fine')
    <3>1. s # "main"
      BY ConnectionAssumption
    <3> QED BY <1>3, <2>6, <3>1, CallCalm, QuietStages DEF Publish, start, session, link
  <2>7. CASE LinkFails("broken") \/ LinkFails("silent")
    <3>1. UNCHANGED <<alive, result, plan>> /\ harm' = harm + 1
      BY <2>7 DEF LinkFails, start, calls
    <3> QED BY <1>3, <3>1 DEF CauseInv, Alive
  <2>8. CASE Reboot
    <3>1. <<>> \in Seq(Quiet)
      OBVIOUS
    <3> QED BY <2>8, <3>1 DEF Reboot, Alive, Fine, Early
  <2>9. CASE UNCHANGED vars
    BY <2>2, <2>9 DEF vars, start, calls, session, link
  <2> QED BY <1>3, <2>1, <2>3, <2>4, <2>5, <2>6, <2>7, <2>8, <2>9, StageCalm, MainCalm
          DEF Next, ThreadStep
<1>4. Init /\ LockInv => CauseInv
  BY <1>2 DEF CauseInv
<1>5. CauseInv /\ LockInv' /\ [Next]_vars => CauseInv'
  BY <1>3 DEF CauseInv
<1> QED BY <1>4, <1>5, LockInvariant, PTL DEF Spec

\* Without a fault the device does not restart, except after a registration, for
\* any number of retries and publishing tasks (aliyun_protocol.c:166-182).
THEOREM NoNeedlessRestart == Spec => []RestartHasCause
<1>1. CauseInv => RestartHasCause
  BY DEF CauseInv, Alive, Fine, RestartHasCause
<1> QED BY <1>1, CauseInvariant, PTL

-----------------------------------------------------------------------------
(* exec_count.                                                             *)

Counted(s) == \E i \in 1..Len(s) : s[i] = "leave" /\ s[1] # "enter"

\* a call leaves once at most, having entered before anything else; what it has still
\* to do before that is more than closing the socket
Good(s) == /\ \A i, j \in 1..Len(s) : s[i] = "leave" /\ s[j] = "leave" => i = j
           /\ \A i \in 1..Len(s) : s[i] = "enter" => i = 1
           /\ \A i \in 1..Len(s) : s[i] \notin {"leave", "close", "restart"}
                  => \E j \in 1..Len(s) : i < j /\ s[j] = "leave"

CountedThreads == {t \in Threads : Counted(plan[t])}
CountInv == /\ \A t \in Threads : Good(plan[t])
            /\ leaked \in Nat /\ count = leaked + Cardinality(CountedThreads)

LEMMA GoodTail ==
  ASSUME NEW s \in Seq(Stages), s # <<>>, Good(s)
  PROVE  /\ Tail(s) \in Seq(Stages) /\ Good(Tail(s))
         /\ Head(s) = "enter" => ~Counted(s) /\ Counted(Tail(s))
         /\ Head(s) = "leave" => Counted(s) /\ ~Counted(Tail(s))
         /\ Head(s) \notin {"enter", "leave"} => (Counted(Tail(s)) <=> Counted(s))
<1> DEFINE r == Tail(s)
<1>1. /\ Len(s) \in Nat /\ Len(s) > 0 /\ Head(s) = s[1] /\ r \in Seq(Stages) /\ Len(r) = Len(s) - 1
      /\ \A i \in 1..Len(r) : r[i] = s[i + 1]
  BY SeqFacts
<1>2. /\ \A i \in 1..Len(r) : i + 1 \in 1..Len(s) /\ i + 1 # 1 /\ r[i] = s[i + 1]
      /\ \A j \in 1..Len(s) : j = 1 \/ (j - 1 \in 1..Len(r) /\ r[j - 1] = s[j])
  BY <1>1
<1>3. /\ \A i, j \in 1..Len(s) : s[i] = "leave" /\ s[j] = "leave" => i = j
      /\ \A i \in 1..Len(s) : s[i] = "enter" => i = 1
  BY DEF Good
<1>4. ASSUME NEW i \in 1..Len(r), r[i] \notin {"leave", "close", "restart"}
      PROVE  \E j \in 1..Len(r) : i < j /\ r[j] = "leave"
  <2>1. PICK j \in 1..Len(s) : i + 1 < j /\ s[j] = "leave"
    BY <1>2, <1>4 DEF Good
  <2>2. j - 1 \in 1..Len(r) /\ i < j - 1 /\ r[j - 1] = "leave"
    BY <1>2, <2>1
  <2> QED BY <2>2
<1>5. Good(r)
  <2>1. \A i, j \in 1..Len(r) : r[i] = "leave" /\ r[j] = "leave" => i = j
    <3>1. ASSUME NEW i \in 1..Len(r), NEW j \in 1..Len(r), r[i] = "leave", r[j] = "leave"
          PROVE  i = j
      <4>1. i + 1 = j + 1
        BY <1>2, <1>3, <3>1
      <4> QED BY <4>1
    <3> QED BY <3>1
  <2>2. \A i \in 1..Len(r) : r[i] # "enter"
    BY <1>2, <1>3
  <2> QED BY <1>4, <2>1, <2>2 DEF Good
<1>6. \A i \in 1..Len(r) : r[1] # "enter"
  BY <1>1, <1>2, <1>3
<1>7. Counted(r) <=> \E j \in 1..Len(s) : j # 1 /\ s[j] = "leave"
  BY <1>1, <1>2, <1>6 DEF Counted
<1>8. s[1] = "enter" => \E j \in 1..Len(s) : j # 1 /\ s[j] = "leave"
  <2> SUFFICES ASSUME s[1] = "enter" PROVE \E j \in 1..Len(s) : j # 1 /\ s[j] = "leave"
    OBVIOUS
  <2>1. 1 \in 1..Len(s)
    BY <1>1
  <2>2. PICK j \in 1..Len(s) : 1 < j /\ s[j] = "leave"
    BY <2>1 DEF Good
  <2> QED BY <2>2
<1>9. s[1] = "leave" => Counted(s) /\ ~\E j \in 1..Len(s) : j # 1 /\ s[j] = "leave"
  BY <1>1, <1>3 DEF Counted
<1> QED BY <1>1, <1>5, <1>7, <1>8, <1>9 DEF Counted

\* a stage put before the rest in place of one after which the call is still counted
LEMMA GoodCons ==
  ASSUME NEW s \in Seq(Stages), s # <<>>, Good(s), NEW x \in Stages \ {"enter", "leave"},
         Head(s) \notin {"enter", "leave", "close", "restart"}
  PROVE  LET r == <<x>> \o Tail(s)
         IN  r \in Seq(Stages) /\ Good(r) /\ Counted(r) /\ Counted(s)
<1> DEFINE r == <<x>> \o Tail(s)
<1>1. /\ Len(s) \in Nat /\ Len(s) > 0 /\ Head(s) = s[1] /\ Tail(s) \in Seq(Stages)
      /\ Len(Tail(s)) = Len(s) - 1 /\ \A i \in 1..Len(Tail(s)) : Tail(s)[i] = s[i + 1]
  BY SeqFacts
<1>2. <<x>> \in Seq(Stages) /\ Len(<<x>>) = 1 /\ <<x>>[1] = x
  OBVIOUS
<1>3. /\ r \in Seq(Stages) /\ Len(r) = 1 + Len(Tail(s))
      /\ \A i \in 1..(1 + Len(Tail(s))) : r[i] = IF i <= 1 THEN x ELSE Tail(s)[i - 1]
  BY <1>1, <1>2
<1>4. /\ Len(r) = Len(s) /\ r[1] = x /\ \A i \in 1..Len(s) : i = 1 \/ r[i] = s[i]
  BY <1>1, <1>3
<1>5. PICK j \in 1..Len(s) : 1 < j /\ s[j] = "leave"
  <2>1. 1 \in 1..Len(s)
    BY <1>1
  <2> QED BY <1>1, <2>1 DEF Good
<1>6. \A a, b \in 1..Len(r) : r[a] = "leave" /\ r[b] = "leave" => a = b
  BY <1>1, <1>4 DEF Good
<1>7. \A i \in 1..Len(r) : r[i] # "enter"
  BY <1>4 DEF Good
<1>8. ASSUME NEW i \in 1..Len(r), r[i] \notin {"leave", "close", "restart"}
      PROVE  \E k \in 1..Len(r) : i < k /\ r[k] = "leave"
  BY <1>1, <1>4, <1>5, <1>8 DEF Good
<1>9. Good(r)
  BY <1>6, <1>7, <1>8 DEF Good
<1>10. Counted(r) /\ Counted(s)
  BY <1>1, <1>4, <1>5 DEF Counted
<1> QED BY <1>3, <1>9, <1>10

\* the ends of a call, and the calls the threads make
LEMMA GoodEnds ==
  ASSUME NEW s \in {<<"leave">>, <<"leave", "close">>, <<"close", "leave">>}
  PROVE  s \in Seq(Stages) /\ Good(s) /\ Counted(s)
<1>1. \A x, y : Len(<<x, y>>) = 2 /\ <<x, y>>[1] = x /\ <<x, y>>[2] = y
  OBVIOUS
<1>2. \A x : Len(<<x>>) = 1 /\ <<x>>[1] = x
  OBVIOUS
<1>3. Counted(s)
  BY <1>1, <1>2 DEF Counted
<1>4. s \in Seq(Stages)
  BY StageTypes
<1>5. CASE s = <<"leave">>
  BY <1>2, <1>3, <1>4, <1>5 DEF Good
<1>6. CASE s = <<"leave", "close">>
  BY <1>1, <1>3, <1>4, <1>6 DEF Good
<1>7. CASE s = <<"close", "leave">>
  BY <1>1, <1>3, <1>4, <1>7 DEF Good
<1> QED BY <1>5, <1>6, <1>7

LEMMA GoodCalls ==
  ASSUME NEW s \in {<<"beat", "count">> \o <<"leave">>, <<>> \o <<"leave">>, RecvCall,
                    <<"send", "leave", "restart">>, <<"send", "leave">>, <<"connect", "leave">>,
                    <<"drop", "send", "close", "leave">>, <<"insert", "send", "leave">>}
  PROVE  LET r == <<"enter">> \o s IN r \in Seq(Stages) /\ Good(r) /\ ~Counted(r)
<1> DEFINE r == <<"enter">> \o s
<1>1. \E n \in 1..Len(s) : /\ s[n] = "leave" /\ n >= Len(s) - 1
                           /\ \A i \in 1..Len(s) : i # n => s[i] \notin {"enter", "leave"}
                           /\ \A i \in 1..Len(s) : n < i => s[i] = "restart"
  <2>1. CASE s = <<"beat", "count">> \o <<"leave">>
    <3>1. Len(s) = 3 /\ s[1] = "beat" /\ s[2] = "count" /\ s[3] = "leave"
      BY <2>1
    <3> QED BY <3>1
  <2>2. CASE s = <<>> \o <<"leave">>
    <3>1. Len(s) = 1 /\ s[1] = "leave"
      BY <2>2
    <3> QED BY <3>1
  <2>3. CASE s = RecvCall
    <3>1. Len(s) = 4 /\ s[1] = "look" /\ s[2] = "beats" /\ s[3] = "read" /\ s[4] = "leave"
      BY <2>3 DEF RecvCall
    <3> QED BY <3>1
  <2>4. CASE s = <<"send", "leave", "restart">>
    <3>1. Len(s) = 3 /\ s[1] = "send" /\ s[2] = "leave" /\ s[3] = "restart"
      BY <2>4
    <3> QED BY <3>1
  <2>5. CASE s = <<"send", "leave">> \/ s = <<"connect", "leave">>
    <3>1. Len(s) = 2 /\ s[1] \in {"send", "connect"} /\ s[2] = "leave"
      BY <2>5
    <3> QED BY <3>1
  <2>6. CASE s = <<"drop", "send", "close", "leave">>
    <3>1. Len(s) = 4 /\ s[1] = "drop" /\ s[2] = "send" /\ s[3] = "close" /\ s[4] = "leave"
      BY <2>6
    <3> QED BY <3>1
  <2>7. CASE s = <<"insert", "send", "leave">>
    <3>1. Len(s) = 3 /\ s[1] = "insert" /\ s[2] = "send" /\ s[3] = "leave"
      BY <2>7
    <3> QED BY <3>1
  <2> QED BY <2>1, <2>2, <2>3, <2>4, <2>5, <2>6, <2>7
<1>2. s \in Seq(Stages) /\ <<"enter">> \in Seq(Stages)
  <2>1. s \in Seq(Stages)
    BY StageTypes, Zenon
  <2>2. <<"enter">> \in Seq(Stages)
    BY DEF Stages
  <2> QED BY <2>1, <2>2
<1>3. /\ r \in Seq(Stages) /\ Len(r) = 1 + Len(s)
      /\ \A i \in 1..(1 + Len(s)) : r[i] = IF i <= 1 THEN "enter" ELSE s[i - 1]
  BY <1>2
<1>4. PICK n \in 1..Len(s) : /\ s[n] = "leave"
                             /\ \A i \in 1..Len(s) : i # n => s[i] \notin {"enter", "leave"}
                             /\ \A i \in 1..Len(s) : n < i => s[i] = "restart"
  BY <1>1
<1>5. /\ Len(s) \in Nat /\ n + 1 \in 1..Len(r) /\ r[n + 1] = "leave" /\ r[1] = "enter"
      /\ \A i \in 1..Len(r) : i = 1 \/ (i - 1 \in 1..Len(s) /\ r[i] = s[i - 1])
  BY <1>2, <1>3, <1>4
<1>6. \A i \in 1..Len(r) : r[i] = "leave" => i = n + 1
  BY <1>4, <1>5
<1>7. \A i \in 1..Len(r) : r[i] = "enter" => i = 1
  BY <1>4, <1>5
<1>8. \A i \in 1..Len(r) : r[i] \notin {"leave", "close", "restart"} => i < n + 1
  BY <1>4, <1>5
<1>9. Good(r)
  BY <1>5, <1>6, <1>7, <1>8 DEF Good
<1> QED BY <1>3, <1>5, <1>9 DEF Counted

\* one thread's call goes on, and exec_count with it
Becomes(t, s) ==
    /\ plan' = [plan EXCEPT ![t] = s] /\ Good(s) /\ UNCHANGED leaked
    /\ count' = count + (IF Counted(s) THEN 1 ELSE 0) - (IF Counted(plan[t]) THEN 1 ELSE 0)
\* the call that is counted and will not be taken off again
Leaks == /\ plan' = [plan EXCEPT !["main"] = <<>>] /\ Counted(plan["main"])
         /\ count' = count /\ leaked' = leaked + 1
Counts == \/ UNCHANGED <<plan, count, leaked>>
          \/ \E t \in Threads, s \in Seq(Stages) : Becomes(t, s)
          \/ Leaks
          \/ plan' = [t \in Threads |-> <<>>] /\ count' = 0 /\ leaked' = 0

LEMMA CountType ==
  ASSUME CountInv
  PROVE  IsFiniteSet(CountedThreads) /\ count \in Nat
<1>1. IsFiniteSet({"main", "process", "recv"} \cup Senders)
  <2>1. IsFiniteSet({"main"}) /\ IsFiniteSet({"process"}) /\ IsFiniteSet({"recv"}) /\ IsFiniteSet(Senders)
    BY FS_Singleton, ConnectionAssumption
  <2>2. IsFiniteSet(({"main"} \cup {"process"}) \cup ({"recv"} \cup Senders))
    BY <2>1, FS_Union
  <2>3. ({"main"} \cup {"process"}) \cup ({"recv"} \cup Senders) = {"main", "process", "recv"} \cup Senders
    OBVIOUS
  <2> QED BY <2>2, <2>3
<1>2. IsFiniteSet(CountedThreads)
  <2>1. CountedThreads \in SUBSET Threads
    BY DEF CountedThreads
  <2> QED BY <1>1, <2>1, FS_Subset DEF Threads
<1> QED BY <1>2, FS_CardinalityType DEF CountInv

LEMMA CountsKeeps ==
  ASSUME CountInv, plan \in [Threads -> Seq(Stages)], Counts
  PROVE  CountInv'
<1>1. CASE UNCHANGED <<plan, count, leaked>>
  BY <1>1 DEF CountInv, CountedThreads
<1>2. ASSUME NEW t \in Threads, NEW s \in Seq(Stages), Becomes(t, s) PROVE CountInv'
  <2>1. plan'[t] = s /\ \A u \in Threads \ {t} : plan'[u] = plan[u]
    BY <1>2 DEF Becomes
  <2>2. \A u \in Threads : Good(plan'[u])
    BY <1>2, <2>1 DEF Becomes, CountInv
  <2>3. CountedThreads' = IF Counted(s) THEN CountedThreads \cup {t} ELSE CountedThreads \ {t}
    BY <2>1 DEF CountedThreads
  <2>4. t \in CountedThreads <=> Counted(plan[t])
    BY DEF CountedThreads
  <2> DEFINE n == Cardinality(CountedThreads)
  <2>5. IsFiniteSet(CountedThreads) /\ n \in Nat /\ leaked \in Nat /\ count = leaked + n
    BY CountType, FS_CardinalityType DEF CountInv
  <2>6. /\ Cardinality(CountedThreads \cup {t}) = IF t \in CountedThreads THEN n ELSE n + 1
        /\ Cardinality(CountedThreads \ {t}) = IF t \in CountedThreads THEN n - 1 ELSE n
    BY <2>5, FS_AddElement, FS_RemoveElement
  <2>7. Cardinality(CountedThreads') =
            IF Counted(s) THEN IF Counted(plan[t]) THEN n ELSE n + 1
                          ELSE IF Counted(plan[t]) THEN n - 1 ELSE n
    <3> HIDE DEF n
    <3>1. CASE Counted(s)
      BY <2>3, <2>4, <2>6, <3>1
    <3>2. CASE ~Counted(s)
      BY <2>3, <2>4, <2>6, <3>2
    <3> QED BY <3>1, <3>2
  <2>8. leaked' = leaked /\ count' = leaked + Cardinality(CountedThreads')
    <3> HIDE DEF n
    <3>1. /\ leaked' = leaked
          /\ count' = count + (IF Counted(s) THEN 1 ELSE 0) - (IF Counted(plan[t]) THEN 1 ELSE 0)
      BY <1>2 DEF Becomes
    <3> QED BY <2>5, <2>7, <3>1
  <2> QED BY <2>2, <2>5, <2>8 DEF CountInv
<1>3. CASE Leaks
  <2>1. /\ "main" \in Threads /\ plan'["main"] = <<>>
        /\ \A u \in Threads \ {"main"} : plan'[u] = plan[u]
    BY <1>3, MainIsThread DEF Leaks
  <2>2. "main" \in CountedThreads /\ CountedThreads' = CountedThreads \ {"main"}
    BY <1>3, <2>1 DEF Leaks, CountedThreads, Counted
  <2>3. \A u \in Threads : Good(plan'[u])
    BY <2>1 DEF CountInv, Good
  <2> DEFINE n == Cardinality(CountedThreads)
  <2>4. /\ n \in Nat /\ leaked \in Nat /\ count = leaked + n
        /\ Cardinality(CountedThreads \ {"main"}) = n - 1
    BY <2>2, CountType, FS_CardinalityType, FS_RemoveElement DEF CountInv
  <2>5. leaked' \in Nat /\ count' = leaked' + Cardinality(CountedThreads')
    <3> HIDE DEF n
    <3> QED BY <1>3, <2>2, <2>4 DEF Leaks
  <2> QED BY <2>3, <2>5 DEF CountInv
<1>4. CASE plan' = [t \in Threads |-> <<>>] /\ count' = 0 /\ leaked' = 0
  <2>1. CountedThreads' = {}
    BY <1>4 DEF CountedThreads, Counted
  <2>2. \A t \in Threads : Good(plan'[t])
    BY <1>4 DEF Good
  <2> QED BY <1>4, <2>1, <2>2, FS_EmptySet DEF CountInv
<1> QED BY <1>1, <1>2, <1>3, <1>4 DEF Counts

CountFacts == CountInv /\ plan \in [Threads -> Seq(Stages)]

\* a stage other than the first and the one that leaves
LEMMA TailCounts ==
  ASSUME CountFacts, NEW t \in Threads, plan[t] # <<>>, Head(plan[t]) \notin {"enter", "leave"},
         Follow(t, Tail(plan[t])), UNCHANGED <<count, leaked>>
  PROVE  Counts
<1>1. /\ Tail(plan[t]) \in Seq(Stages) /\ Good(Tail(plan[t]))
      /\ Counted(Tail(plan[t])) <=> Counted(plan[t])
  BY GoodTail DEF CountFacts, CountInv
<1>2. count \in Nat
  BY CountType DEF CountFacts
<1>3. Becomes(t, Tail(plan[t]))
  BY <1>1, <1>2 DEF Becomes, Follow
<1> QED BY <1>1, <1>3 DEF Counts

LEMMA ConsCounts ==
  ASSUME CountFacts, NEW t \in Threads, NEW x \in {"close", "reconnect", "connect"}, plan[t] # <<>>,
         Head(plan[t]) \notin {"enter", "leave", "close", "restart"},
         Follow(t, <<x>> \o Tail(plan[t])), UNCHANGED <<count, leaked>>
  PROVE  Counts
<1>1. x \in Stages \ {"enter", "leave"}
  BY DEF Stages
<1>2. LET r == <<x>> \o Tail(plan[t]) IN r \in Seq(Stages) /\ Good(r) /\ Counted(r) /\ Counted(plan[t])
  BY <1>1, GoodCons DEF CountFacts, CountInv
<1>3. count \in Nat
  BY CountType DEF CountFacts
<1>4. Becomes(t, <<x>> \o Tail(plan[t]))
  BY <1>2, <1>3 DEF Becomes, Follow
<1> QED BY <1>2, <1>4 DEF Counts

LEMMA EndCounts ==
  ASSUME CountFacts, NEW t \in Threads, plan[t] # <<>>,
         Head(plan[t]) \notin {"enter", "leave", "close", "restart"},
         NEW s \in {<<"leave">>, <<"leave", "close">>, <<"close", "leave">>},
         Follow(t, s), UNCHANGED <<count, leaked>>
  PROVE  Counts
<1>1. "close" \in Stages \ {"enter", "leave"}
  BY DEF Stages
<1>2. Counted(plan[t])
  BY <1>1, GoodCons DEF CountFacts, CountInv
<1>3. count \in Nat
  BY CountType DEF CountFacts
<1>4. Becomes(t, s)
  BY <1>2, <1>3, GoodEnds DEF Becomes, Follow
<1> QED BY <1>4, GoodEnds DEF Counts

LEMMA CallCounts ==
  ASSUME CountFacts, NEW t \in Threads, Free(t), UNCHANGED <<count, leaked>>,
         NEW s \in {<<"beat", "count">> \o <<"leave">>, <<>> \o <<"leave">>, RecvCall,
                    <<"send", "leave", "restart">>, <<"send", "leave">>, <<"connect", "leave">>,
                    <<"drop", "send", "close", "leave">>, <<"insert", "send", "leave">>},
         Call(t, s)
  PROVE  Counts
<1>1. LET r == <<"enter">> \o s IN r \in Seq(Stages) /\ Good(r) /\ ~Counted(r)
  BY GoodCalls
<1>2. ~Counted(plan[t])
  BY DEF Free, Counted
<1>3. count \in Nat
  BY CountType DEF CountFacts
<1>4. CASE UNCHANGED plan
  BY <1>4 DEF Counts
<1>5. CASE Follow(t, <<"enter">> \o s)
  <2>1. Becomes(t, <<"enter">> \o s)
    BY <1>1, <1>2, <1>3, <1>5 DEF Becomes, Follow
  <2> QED BY <1>1, <2>1 DEF Counts
<1> QED BY <1>4, <1>5 DEF Call

LEMMA StageCounts ==
  ASSUME CountFacts, NEW t \in Threads, Stage(t)
  PROVE  Counts
<1> DEFINE q == plan[t]
<1>1. q # <<>>
  BY DEF Stage, Enter, Leave, Write, Close, Connect, CountBeat, LookForSocket, LookForBeats,
         ReadNothing, ReadPacket, Reconnect, At, Ready
<1>2. CASE Enter(t) \/ Leave(t)
  <2>1. /\ plan' = [plan EXCEPT ![t] = Tail(q)] /\ UNCHANGED leaked
        /\ (Head(q) = "enter" /\ count' = count + 1) \/ (Head(q) = "leave" /\ count' = count - 1)
    BY <1>2 DEF Enter, Leave, Done, Follow, At
  <2>2. /\ Tail(q) \in Seq(Stages) /\ Good(Tail(q))
        /\ Head(q) = "enter" => ~Counted(q) /\ Counted(Tail(q))
        /\ Head(q) = "leave" => Counted(q) /\ ~Counted(Tail(q))
    BY <1>1, GoodTail DEF CountFacts, CountInv
  <2>3. count \in Nat
    BY CountType DEF CountFacts
  <2>4. Becomes(t, Tail(q))
    BY <2>1, <2>2, <2>3 DEF Becomes
  <2> QED BY <2>2, <2>4 DEF Counts
<1>3. CASE Close(t) \/ (t = "process" /\ CountBeat)
  <2>1. Follow(t, Tail(q)) /\ UNCHANGED <<count, leaked>> /\ Head(q) \in {"close", "count"}
    BY <1>3 DEF Close, CountBeat, Done, At, session
  <2> QED BY <1>1, <2>1, TailCounts
<1>4. CASE Write(t)
  <2>1. /\ Follow(t, Tail(q)) \/ Follow(t, <<"close">> \o Tail(q))
        /\ UNCHANGED <<count, leaked>> /\ Head(q) \in {"send", "beat"}
    BY <1>4 DEF Write, Done, DoneWith, At, session
  <2> QED BY <1>1, <2>1, TailCounts, ConsCounts
<1>5. ASSUME NEW ok \in BOOLEAN, Connect(t, ok) \/ (t = "recv" /\ Reconnect(ok)) PROVE Counts
  <2>1. /\ Follow(t, Tail(q)) \/ Follow(t, <<"leave">>)
        /\ UNCHANGED <<count, leaked>> /\ Head(q) \in {"connect", "reconnect"}
    BY <1>5 DEF Connect, Reconnect, Done, DoneWith, At
  <2> QED BY <1>1, <2>1, TailCounts, EndCounts
<1>6. CASE t = "recv" /\ (LookForSocket \/ LookForBeats)
  <2>1. /\ \/ Follow(t, Tail(q)) \/ Follow(t, <<"reconnect">> \o Tail(q))
           \/ Follow(t, <<"connect">> \o Tail(q))
        /\ UNCHANGED <<count, leaked>> /\ Head(q) \in {"look", "beats"}
    BY <1>6 DEF LookForSocket, LookForBeats, At, session
  <2> QED BY <1>1, <2>1, TailCounts, ConsCounts
<1>7. ASSUME t = "recv", ReadNothing \/ \E how \in Packets : ReadPacket(how) PROVE Counts
  <2>1. /\ \/ Follow(t, Tail(q)) \/ Follow(t, <<"leave", "close">>)
           \/ Follow(t, <<"close", "leave">>)
        /\ UNCHANGED <<count, leaked>> /\ Head(q) = "read"
    BY <1>7 DEF ReadNothing, ReadPacket, Done, DoneWith, At, session
  <2> QED BY <1>1, <2>1, TailCounts, EndCounts
<1> QED BY <1>2, <1>3, <1>4, <1>5, <1>6, <1>7 DEF Stage, Packets

LEMMA NextCounts ==
  ASSUME CountFacts, [Next]_vars
  PROVE  Counts
<1> USE MainIsThread
<1>1. ASSUME NEW t \in Threads, Acquire(t) PROVE Counts
  BY <1>1 DEF Acquire, session, Counts
<1>2. ASSUME NEW beat \in BOOLEAN, Process(beat) PROVE Counts
  <2>1. /\ Free("process") /\ UNCHANGED <<count, leaked>>
        /\ \/ UNCHANGED plan
           \/ Call("process", <<"beat", "count">> \o <<"leave">>)
           \/ Call("process", <<>> \o <<"leave">>)
    BY <1>2 DEF Process, session
  <2> QED BY <2>1, CallCounts DEF Counts
<1>3. CASE Recv
  <2>1. /\ Free("recv") /\ UNCHANGED <<count, leaked>>
        /\ \/ UNCHANGED plan \/ Call("recv", RecvCall)
           \/ Call("recv", <<"send", "leave", "restart">>)
    BY <1>3 DEF Recv, session
  <2> QED BY <2>1, CallCounts DEF Counts
<1>4. CASE RecvRestarts \/ LinkFails("broken") \/ LinkFails("silent") \/ UNCHANGED vars
  BY <1>4 DEF RecvRestarts, LinkFails, vars, calls, session, Counts
<1>5. ASSUME NEW s \in Senders, Publish(s) PROVE Counts
  BY <1>5, CallCounts DEF Publish, session
<1>6. CASE Reboot
  BY <1>6 DEF Reboot, Counts
<1>7. CASE Main
  <2>1. CASE \/ Boot \/ Connected \/ (\E ok \in BOOLEAN : Register(ok)) \/ Deinit \/ Wait
             \/ Create("process", "recv") \/ Create("recv", "subscribe") \/ Online
    BY <2>1 DEF Boot, Connected, Register, Deinit, Wait, Create, Online, NoCall, calls, session, Counts
  <2>2. CASE StartConnect \/ Subscribe \/ Send("ntp", "clients") \/ Send("get", "got")
    BY <2>2, CallCounts DEF StartConnect, Subscribe, Send, MainAt, session
  <2>3. CASE Clients
    <3>1. /\ Free("main") /\ UNCHANGED <<count, leaked>>
          /\ UNCHANGED plan \/ Call("main", <<"drop", "send", "close", "leave">>)
      BY <2>3 DEF Clients, Stops, MainAt, session
    <3> QED BY <3>1, CallCounts DEF Counts
  <2>4. CASE Drop
    <3>1. Follow("main", Tail(plan["main"])) /\ UNCHANGED <<count, leaked>> /\ plan["main"] # <<>>
          /\ Head(plan["main"]) = "drop"
      BY <2>4 DEF Drop, Done, At, Ready
    <3> QED BY <3>1, TailCounts
  <2>5. CASE Insert
    <3>1. /\ plan["main"] # <<>> /\ Head(plan["main"]) = "insert" /\ UNCHANGED count
          /\ \/ Follow("main", Tail(plan["main"])) /\ UNCHANGED leaked
             \/ Follow("main", <<>>) /\ leaked' = leaked + 1
      BY <2>5 DEF Insert, Done, DoneWith, At, Ready
    <3>2. Counted(plan["main"])
      <4>1. "close" \in Stages \ {"enter", "leave"}
        BY DEF Stages
      <4> QED BY <3>1, <4>1, GoodCons DEF CountFacts, CountInv
    <3>3. CASE Follow("main", <<>>) /\ leaked' = leaked + 1
      <4>1. Leaks
        BY <3>1, <3>2, <3>3 DEF Leaks, Follow
      <4> QED BY <4>1 DEF Counts
    <3> QED BY <3>1, <3>3, TailCounts
  <2> QED BY <1>7, <2>1, <2>2, <2>3, <2>4, <2>5 DEF Main
<1> QED BY <1>1, <1>2, <1>3, <1>4, <1>5, <1>6, <1>7, StageCounts DEF Next, ThreadStep

-----------------------------------------------------------------------------
(* The type invariant.                                                     *)

Places == {"boot", "register", "connect", "connecting", "process", "recv", "subscribe",
           "ntp", "clients", "get", "got", "online", "stopped", "waiting", "offline"}

\* the attempts iot_connect's task may make where it is
Allowed(place) == CASE place = "register" -> MaxRegister
                    [] place \in {"connect", "connecting"} -> RetryCount
                    [] OTHER -> 0

TriesInv == /\ tries \in Nat /\ main \in Places /\ tries <= Allowed(main)
            /\ up /\ Allowed(main) # 0 => tries < Allowed(main)

Flags == /\ registered \in BOOLEAN /\ running \in BOOLEAN /\ enabled \in BOOLEAN
         /\ dropped \in BOOLEAN /\ freed \in BOOLEAN /\ answer \in BOOLEAN
         /\ recent \in BOOLEAN /\ up \in BOOLEAN
Link == net \in {"none", "open", "silent", "broken"} /\ lostTimes \in 0..(MaxLost + 1)

LEMMA AllowedFacts ==
  /\ Allowed("register") = MaxRegister /\ MaxRegister \in Nat \ {0}
  /\ Allowed("connect") = RetryCount /\ Allowed("connecting") = RetryCount
  /\ RetryCount \in Nat \ {0}
  /\ \A place \in Places \ {"register", "connect", "connecting"} : Allowed(place) = 0
BY ConnectionAssumption DEF Allowed

LEMMA MainTries ==
  ASSUME TriesInv, Main
  PROVE  TriesInv'
<1> USE AllowedFacts
<1>1. CASE Boot
  <2>1. main = "boot" /\ main' \in {"connect", "register", "offline"} /\ tries' = tries
    BY <1>1 DEF Boot, MainAt, GoTo
  <2> QED BY <2>1 DEF TriesInv, Places
<1>2. ASSUME NEW ok \in BOOLEAN, Register(ok) PROVE TriesInv'
  <2>1. main = "register" /\ main' = main /\ tries' = tries + 1 /\ up
    BY <1>2 DEF Register, MainAt, Free
  <2>2. up' => tries' # MaxRegister
    BY <1>2, Zenon DEF Register
  <2> QED BY <2>1, <2>2 DEF TriesInv, Places
<1>3. CASE StartConnect
  <2>1. main = "connect" /\ main' = "connecting" /\ tries' = tries /\ up' = up
    BY <1>3 DEF StartConnect, MainAt, GoTo
  <2> QED BY <2>1 DEF TriesInv, Places
<1>4. CASE Connected
  <2>1. main = "connecting" /\ up
    BY <1>4 DEF Connected, MainAt, Free
  <2>2. CASE result["main"] = "ok"
    <3>1. main' = "process" /\ tries' = 0
      BY <1>4, <2>2 DEF Connected, GoTo
    <3> QED BY <3>1 DEF TriesInv, Places
  <2>3. CASE result["main"] # "ok"
    <3>1. main' = "connect" /\ tries' = tries + 1
      BY <1>4, <2>3 DEF Connected, GoTo
    <3>2. up' => tries' < RetryCount
      BY <1>4, <2>3, Zenon DEF Connected
    <3> QED BY <2>1, <3>1, <3>2 DEF TriesInv, Places
  <2> QED BY <2>2, <2>3
<1>5. ASSUME main \in Places \ {"boot", "register", "connect", "connecting"}, tries' = tries,
             main' \in Places \ {"boot", "register", "connect", "connecting"}
      PROVE  TriesInv'
  BY <1>5 DEF TriesInv
<1>6. CASE Create("process", "recv") \/ Create("recv", "subscribe")
  BY <1>5, <1>6 DEF Create, MainAt, GoTo, Places
<1>7. CASE Subscribe \/ Send("ntp", "clients") \/ Send("get", "got") \/ Clients
  BY <1>5, <1>7 DEF Subscribe, Send, Clients, Stops, MainAt, GoTo, Places
<1>8. CASE Online \/ Deinit \/ Wait
  BY <1>5, <1>8 DEF Online, Deinit, Wait, MainAt, GoTo, Places
<1>9. CASE Drop \/ Insert
  BY <1>9 DEF Drop, Insert, start, TriesInv
<1> QED BY <1>1, <1>2, <1>3, <1>4, <1>6, <1>7, <1>8, <1>9 DEF Main

LEMMA NextTries ==
  ASSUME TriesInv, [Next]_vars
  PROVE  TriesInv'
<1>1. ASSUME UNCHANGED <<main, tries>>, up' => up PROVE TriesInv'
  BY <1>1 DEF TriesInv
<1>2. ASSUME NEW t \in Threads, Acquire(t) \/ Stage(t) PROVE TriesInv'
  <2>1. UNCHANGED start
    BY <1>2 DEF Acquire, Stage, Enter, Leave, Write, Close, Connect, CountBeat, LookForSocket,
       LookForBeats, ReadNothing, ReadPacket, Reconnect
  <2> QED BY <1>1, <2>1 DEF start
<1>3. CASE \/ \E beat \in BOOLEAN : Process(beat)
           \/ \E s \in Senders : Publish(s)
           \/ Recv \/ RecvRestarts \/ LinkFails("broken") \/ LinkFails("silent") \/ UNCHANGED vars
  BY <1>1, <1>3 DEF Process, Publish, Recv, RecvRestarts, LinkFails, start, vars
<1>4. CASE Reboot
  <2>1. main' = "boot" /\ tries' = 0
    BY <1>4 DEF Reboot
  <2> QED BY <2>1, AllowedFacts DEF TriesInv, Places
<1> QED BY <1>2, <1>3, <1>4, MainTries DEF Next, ThreadStep

LEMMA NextFlags ==
  ASSUME Flags, [Next]_vars
  PROVE  Flags'
<1>1. ASSUME NEW t \in Threads, Acquire(t) PROVE Flags'
  BY <1>1, Zenon DEF Acquire, start, session, link, Flags
<1>2. ASSUME NEW t \in Threads, Stage(t) PROVE Flags'
  <2>1. UNCHANGED <<start, enabled, freed>>
    BY <1>2 DEF Stage, Enter, Leave, Write, Close, Connect, CountBeat, LookForSocket,
       LookForBeats, ReadNothing, ReadPacket, Reconnect, session
  <2>2. UNCHANGED dropped
    BY <1>2 DEF Stage, Enter, Leave, Write, Close, Connect, CountBeat, LookForSocket,
       LookForBeats, ReadNothing, ReadPacket, Reconnect, session
  <2>3. answer' \in {answer, FALSE, net = "open"}
    BY <1>2 DEF Stage, Enter, Leave, Write, Close, Connect, CountBeat, LookForSocket,
       LookForBeats, ReadNothing, ReadPacket, Reconnect, Opens, session, link
  <2>4. recent' \in {recent, TRUE}
    BY <1>2 DEF Stage, Enter, Leave, Write, Close, Connect, CountBeat, LookForSocket,
       LookForBeats, ReadNothing, ReadPacket, Reconnect
  <2> QED BY <2>1, <2>2, <2>3, <2>4, Zenon DEF start, Flags
<1>3. CASE Main
  <2>1. CASE Boot \/ StartConnect \/ Connected \/ \E ok \in BOOLEAN : Register(ok)
    <3>1. up' \in BOOLEAN \/ up' = up
      <4>1. CASE Boot \/ StartConnect
        BY <4>1 DEF Boot, StartConnect
      <4>2. CASE Connected
        <5>1. (tries' < RetryCount) \in BOOLEAN
          OBVIOUS
        <5> QED BY <4>2, <5>1, Zenon DEF Connected
      <4>3. CASE \E ok \in BOOLEAN : Register(ok)
        BY <4>3, Zenon DEF Register
      <4> QED BY <2>1, <4>1, <4>2, <4>3
    <3>2. registered' \in BOOLEAN \/ registered' = registered
      BY <2>1 DEF Boot, StartConnect, Connected, Register
    <3>3. UNCHANGED <<running, enabled, dropped, freed, answer, recent>>
      BY <2>1 DEF Boot, StartConnect, Connected, Register, NoCall, session, link
    <3> QED BY <3>1, <3>2, <3>3, Zenon DEF Flags
  <2>2. CASE Create("process", "recv") \/ Create("recv", "subscribe")
    BY <2>2, Zenon DEF Create, session, Flags
  <2>3. CASE Subscribe \/ Send("ntp", "clients") \/ Send("get", "got") \/ Clients
    BY <2>3, Zenon DEF Subscribe, Send, Clients, Stops, session, link, Flags
  <2>4. CASE Online \/ Drop \/ Insert \/ Deinit \/ Wait
    BY <2>4, Zenon DEF Online, Drop, Insert, Deinit, Wait, start, session, link, Flags
  <2> QED BY <1>3, <2>1, <2>2, <2>3, <2>4 DEF Main
<1>4. CASE \/ \E beat \in BOOLEAN : Process(beat)
           \/ \E s \in Senders : Publish(s)
           \/ RecvRestarts \/ UNCHANGED vars
  BY <1>4, Zenon DEF Process, Publish, RecvRestarts, start, session, link, vars, Flags
<1>5. CASE Recv
  <2>1. UNCHANGED <<registered, running, enabled, dropped, freed, answer, recent>>
    BY <1>5 DEF Recv, session, link
  <2>2. up' = up \/ up' = FALSE
    BY <1>5 DEF Recv
  <2> QED BY <2>1, <2>2, Zenon DEF Flags
<1>6. CASE LinkFails("broken") \/ LinkFails("silent")
  BY <1>6, Zenon DEF LinkFails, start, session, Flags
<1>7. CASE Reboot
  BY <1>7, Zenon DEF Reboot, Flags
<1> QED BY <1>1, <1>2, <1>3, <1>4, <1>5, <1>6, <1>7 DEF Next, ThreadStep

LEMMA NextLink ==
  ASSUME Link, [Next]_vars
  PROVE  Link'
<1> USE ConnectionAssumption
<1>1. ASSUME lostTimes' \in {lostTimes, 0}, net' \in {net, "none", "open", "silent", "broken"}
      PROVE  Link'
  BY <1>1 DEF Link
<1>2. ASSUME NEW t \in Threads, Stage(t) PROVE Link'
  <2>1. net' \in {net, "none", "open", "silent", "broken"}
    BY <1>2 DEF Stage, Enter, Leave, Write, Close, Connect, CountBeat, LookForSocket,
       LookForBeats, ReadNothing, ReadPacket, Reconnect, Opens, link
  <2>2. lostTimes' \in {lostTimes, 0} \/ CountBeat
    BY <1>2 DEF Stage, Enter, Leave, Write, Close, Connect, LookForSocket,
       LookForBeats, ReadNothing, ReadPacket, Reconnect, session
  <2>3. CASE CountBeat
    BY <2>3 DEF CountBeat, link, Link
  <2> QED BY <1>1, <2>1, <2>2, <2>3
<1>3. CASE \/ \E t \in Threads : Acquire(t)
           \/ \E beat \in BOOLEAN : Process(beat)
           \/ \E s \in Senders : Publish(s)
           \/ Recv \/ RecvRestarts \/ UNCHANGED vars
  BY <1>1, <1>3 DEF Acquire, Process, Publish, Recv, RecvRestarts, session, link, vars
<1>4. CASE Main
  <2>1. CASE Boot \/ StartConnect \/ Connected \/ \E ok \in BOOLEAN : Register(ok)
    BY <1>1, <2>1 DEF Boot, StartConnect, Connected, Register, NoCall, session, link
  <2>2. CASE Create("process", "recv") \/ Create("recv", "subscribe") \/ Subscribe
             \/ Send("ntp", "clients") \/ Send("get", "got") \/ Clients
    BY <1>1, <2>2 DEF Create, Subscribe, Send, Clients, session, link
  <2>3. CASE Online \/ Drop \/ Insert \/ Deinit \/ Wait
    <3>1. lostTimes' = lostTimes /\ (net' = net \/ net' = "none")
      BY <2>3 DEF Online, Drop, Insert, Deinit, Wait, session, link
    <3> QED BY <1>1, <3>1
  <2> QED BY <1>4, <2>1, <2>2, <2>3 DEF Main
<1>5. CASE LinkFails("broken") \/ LinkFails("silent") \/ Reboot
  BY <1>1, <1>5 DEF LinkFails, Reboot, session
<1> QED BY <1>2, <1>3, <1>4, <1>5 DEF Next, ThreadStep

\* The device is always in one of iot_connect's places with no more attempts than it
\* may make there, and exec_count is the number of calls between their two stages
\* and of subscriptions that found no memory, for any number of threads
\* (aiot_mqtt_api.c, _core_mqtt_exec_inc and _dec; 2311).
THEOREM ConnectionTypeCorrect == Spec => []TypeOK
<1> DEFINE Inv == CountFacts /\ TriesInv /\ Flags /\ Link
<1>1. Init => Inv
  <2> SUFFICES ASSUME Init PROVE Inv
    OBVIOUS
  <2>1. \A t \in Threads : plan[t] = <<>> /\ ~Counted(plan[t]) /\ Good(plan[t])
    BY DEF Init, Counted, Good
  <2>2. CountInv
    <3>1. CountedThreads = {}
      BY <2>1 DEF CountedThreads
    <3> QED BY <2>1, <3>1, FS_EmptySet DEF Init, CountInv
  <2>3. plan \in [Threads -> Seq(Stages)]
    BY DEF Init
  <2>4. TriesInv
    BY AllowedFacts DEF Init, TriesInv, Places
  <2>5. Link
    BY ConnectionAssumption DEF Init, Link
  <2>6. Flags
    BY Zenon DEF Init, Flags
  <2> QED BY <2>2, <2>3, <2>4, <2>5, <2>6 DEF CountFacts
<1>2. Inv /\ LockInv' /\ [Next]_vars => Inv'
  <2> SUFFICES ASSUME CountFacts, TriesInv, Flags, Link, LockInv', [Next]_vars PROVE Inv'
    OBVIOUS
  <2>1. CountInv'
    BY NextCounts, CountsKeeps DEF CountFacts
  <2> QED BY <2>1, NextTries, NextFlags, NextLink DEF CountFacts, LockInv, Shape
<1>3. Inv /\ CauseInv => TypeOK
  <2> SUFFICES ASSUME CountFacts, TriesInv, Flags, Link, CauseInv PROVE TypeOK
    OBVIOUS
  <2>1. tries \in 0..(RetryCount + MaxRegister)
    BY AllowedFacts DEF TriesInv, Places
  <2>2. count = leaked + Cardinality({t \in Threads : \E i \in 1..Len(plan[t]) :
                                /\ plan[t][i] = "leave" /\ plan[t][1] # "enter"})
    BY DEF CountFacts, CountInv, CountedThreads, Counted
  <2> QED BY <2>1, <2>2 DEF TypeOK, TriesInv, Places, Flags, Link, CauseInv, Alive, LockInv, Shape
<1> QED BY <1>1, <1>2, <1>3, LockInvariant, CauseInvariant, PTL DEF Spec
=============================================================================
