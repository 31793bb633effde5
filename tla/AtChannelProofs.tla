--------------------------- MODULE AtChannelProofs ---------------------------
(***************************************************************************)
(* Proofs about the AT command channel, for any set of tasks, any lists of *)
(* commands, any retry count and any modem.                                *)
(***************************************************************************)
EXTENDS AtChannel, SequenceTheorems, TLAPS

TypeInv == TypeOK /\ ExchangeInv

\* A task between "lock" and "judged" has a command in hand.
LEMMA CurrentIsKind ==
    ASSUME TypeInv, NEW t \in Tasks, Armed(t)
    PROVE  Current(t) \in Kinds
<1>1. list[t] \in Seq(Kinds) /\ pos[t] \in 1..Len(list[t])
  BY ChannelAssumption DEF TypeInv, TypeOK, ExchangeInv
<1> QED
  BY <1>1, ElementOfSeq DEF Current

\* A verdict other than "waiting" is success or failure.
LEMMA VerdictType ==
    ASSUME NEW k \in Kinds, NEW buf
    PROVE  Verdict(k, buf) \in {"success", "failed", "waiting"}
BY DEF Verdict, DefaultRule, Kinds

\* A function on 1..n is a sequence.
LEMMA FunctionIsSeq ==
    ASSUME NEW S, NEW n \in Nat, NEW f \in [1..n -> S]
    PROVE  f \in Seq(S)
BY SeqDef

\* Ageing keeps the type of a sequence of lines and of commands.
LEMMA AgedType ==
    ASSUME NEW K, NEW s \in Seq([kind : K, mine : BOOLEAN])
    PROVE  /\ Aged(s) \in Seq([kind : K, mine : BOOLEAN])
           /\ Len(Aged(s)) = Len(s)
<1> DEFINE R == [kind : K, mine : BOOLEAN]
<1>1. Len(s) \in Nat /\ DOMAIN s = 1..Len(s) /\ s \in [1..Len(s) -> R]
  BY LenProperties
<1>2. \A l \in R : Old(l) \in R
  BY DEF Old
<1>3. Aged(s) \in [1..Len(s) -> R]
  BY <1>1, <1>2 DEF Aged
<1>4. Aged(s) \in Seq(R)
  BY <1>1, <1>3, FunctionIsSeq
<1>5. Len(Aged(s)) = Len(s)
  BY <1>1, <1>3, <1>4, LenProperties
<1> QED
  BY <1>4, <1>5

\* An answer, labelled, is a sequence of lines.
LEMMA AnswerType ==
    ASSUME NEW k \in Kinds, NEW a \in Answers(k), NEW m \in BOOLEAN
    PROVE  /\ a \in Seq(LineKinds)
           /\ Labelled(a, m) \in Seq(Lines)
           /\ Len(Labelled(a, m)) = Len(a)
<1>1. a \in {<<"blank", "error">>, <<"blank", "ok">>, <<"blank", "body", "ok">>,
             <<"blank", "weak", "ok">>}
  BY DEF Answers, Kinds
<1>2. a \in Seq(LineKinds)
  <2>1. /\ "blank" \in LineKinds /\ "body" \in LineKinds /\ "weak" \in LineKinds
        /\ "ok" \in LineKinds /\ "error" \in LineKinds
    BY DEF LineKinds
  <2>2. CASE a = <<"blank", "error">>
    BY <2>1, <2>2
  <2>3. CASE a = <<"blank", "ok">>
    BY <2>1, <2>3
  <2>4. CASE a = <<"blank", "body", "ok">>
    BY <2>1, <2>4
  <2>5. CASE a = <<"blank", "weak", "ok">>
    BY <2>1, <2>5
  <2> QED
    BY <1>1, <2>2, <2>3, <2>4, <2>5
<1>3. Len(a) \in Nat /\ DOMAIN a = 1..Len(a) /\ a \in [1..Len(a) -> LineKinds]
  BY <1>2, LenProperties
<1>4. Labelled(a, m) \in [1..Len(a) -> Lines]
  BY <1>3 DEF Labelled, Lines
<1>5. Labelled(a, m) \in Seq(Lines)
  BY <1>3, <1>4, FunctionIsSeq
<1>6. Len(Labelled(a, m)) = Len(a)
  BY <1>3, <1>4, <1>5, LenProperties
<1> QED
  BY <1>2, <1>5, <1>6

LEMMA TypeInit == Init => TypeInv
BY ChannelAssumption DEF Init, TypeInv, TypeOK, ExchangeInv, InExchange, Armed, PCs

LEMMA TypeStep == TypeInv /\ [Next]_vars => TypeInv'
<1> SUFFICES ASSUME TypeInv, [Next]_vars PROVE TypeInv'
  OBVIOUS
<1> USE ChannelAssumption DEF TypeInv, TypeOK, ExchangeInv, InExchange, Armed, PCs, taskVars, modemVars
<1>1. ASSUME NEW t \in Tasks, Call(t) PROVE TypeInv'
  BY <1>1 DEF Call
<1>2. ASSUME NEW t \in Tasks, Lock(t) PROVE TypeInv'
  BY <1>2 DEF Lock
<1>3. ASSUME NEW t \in Tasks, Reset(t) PROVE TypeInv'
  BY <1>3 DEF Reset
<1>4. ASSUME NEW t \in Tasks, Transmit(t) PROVE TypeInv'
  <2>1. Current(t) \in Kinds
    BY <1>4, CurrentIsKind DEF Transmit
  <2>2. modem' \in Seq(Commands)
    <3>1. Aged(modem) \in Seq(Commands)
      BY AgedType DEF Commands
    <3>2. [kind |-> Current(t), mine |-> TRUE] \in Commands
      BY <2>1 DEF Commands
    <3> QED
      BY <1>4, <3>1, <3>2 DEF Transmit
  <2>3. wire' \in Seq(Lines) /\ rspRb' \in SUBSET Lines
    <3>1. Aged(wire) \in Seq(Lines)
      BY AgedType DEF Lines
    <3>2. AgedSet(rspRb) \in SUBSET Lines
      <4>1. \A l \in Lines : Old(l) \in Lines
        BY DEF Old, Lines
      <4> QED
        BY <4>1 DEF AgedSet
    <3> QED
      BY <1>4, <3>1, <3>2 DEF Transmit
  <2> QED
    BY <1>4, <2>2, <2>3 DEF Transmit
<1>5. ASSUME NEW t \in Tasks, TransmitFails(t) PROVE TypeInv'
  BY <1>5 DEF TransmitFails
<1>6. ASSUME NEW t \in Tasks, Poll(t) PROVE TypeInv'
  <2>1. Current(t) \in Kinds
    BY <1>6, CurrentIsKind DEF Poll
  <2>2. Verdict(Current(t), rsp'[t]) \in {"success", "failed", "waiting"}
    BY <2>1, VerdictType
  <2>a. pc' \in [Tasks -> PCs] /\ verdict' \in [Tasks -> {"none", "success", "failed", "timeout"}]
    <3>1. CASE Verdict(Current(t), rsp'[t]) = "waiting"
      BY <1>6, <3>1 DEF Poll
    <3>2. CASE Verdict(Current(t), rsp'[t]) # "waiting"
      <4>1. /\ verdict' = [verdict EXCEPT ![t] = Verdict(Current(t), rsp'[t])]
            /\ pc' = [pc EXCEPT ![t] = "judged"]
        BY <1>6, <3>2 DEF Poll
      <4>2. Verdict(Current(t), rsp'[t]) \in {"none", "success", "failed", "timeout"}
        BY <2>2, <3>2
      <4> QED
        BY <4>1, <4>2
    <3> QED
      BY <3>1, <3>2
  <2>b. pos' \in [Tasks -> Nat \ {0}] /\ retry' \in [Tasks -> 0..CmdRetryTime]
    BY <1>6, <2>2 DEF Poll
  <2>c. rsp' \in [Tasks -> SUBSET Lines] /\ result' \in [Tasks -> {"none", "ok", "failed"}]
    BY <1>6, <2>2 DEF Poll
  <2>3. TypeOK'
    BY <1>6, <2>a, <2>b, <2>c DEF Poll
  <2>4. ExchangeInv'
    BY <1>6, <2>2 DEF Poll
  <2> QED
    BY <2>3, <2>4
<1>7. ASSUME NEW t \in Tasks, Timeout(t) PROVE TypeInv'
  BY <1>7 DEF Timeout
<1>8. ASSUME NEW t \in Tasks, Advance(t) PROVE TypeInv'
  <2>1. list[t] \in Seq(Kinds) /\ Len(list[t]) \in Nat /\ pos[t] \in Nat
    BY <1>8 DEF Advance
  <2>p. \E l \in {"send", "unlock"} : pc' = [pc EXCEPT ![t] = l]
    BY <1>8 DEF Advance
  <2>q. verdict' = [verdict EXCEPT ![t] = "none"]
    BY <1>8 DEF Advance
  <2>a. pc' \in [Tasks -> PCs] /\ verdict' \in [Tasks -> {"none", "success", "failed", "timeout"}]
    BY <2>p, <2>q
  <2>b. pos' \in [Tasks -> Nat \ {0}] /\ retry' \in [Tasks -> 0..CmdRetryTime]
    BY <1>8, <2>1 DEF Advance
  <2>c. rsp' \in [Tasks -> SUBSET Lines] /\ result' \in [Tasks -> {"none", "ok", "failed"}]
    BY <1>8, <2>1 DEF Advance
  <2>2. TypeOK'
    BY <1>8, <2>a, <2>b, <2>c DEF Advance
  <2>3. ExchangeInv'
    <3>1. CASE pos[t] = Len(list[t])
      BY <1>8, <2>1, <3>1 DEF Advance
    <3>2. CASE pos[t] # Len(list[t])
      BY <1>8, <2>1, <3>2 DEF Advance
    <3> QED
      BY <3>1, <3>2
  <2> QED
    BY <2>2, <2>3
<1>9. ASSUME NEW t \in Tasks, Retry(t) PROVE TypeInv'
  <2>p. \E l \in {"send", "unlock"} : pc' = [pc EXCEPT ![t] = l]
    BY <1>9 DEF Retry
  <2>q. verdict' = [verdict EXCEPT ![t] = "none"]
    BY <1>9 DEF Retry
  <2>a. pc' \in [Tasks -> PCs] /\ verdict' \in [Tasks -> {"none", "success", "failed", "timeout"}]
    BY <2>p, <2>q
  <2>b. pos' \in [Tasks -> Nat \ {0}] /\ retry' \in [Tasks -> 0..CmdRetryTime]
    BY <1>9 DEF Retry
  <2>c. rsp' \in [Tasks -> SUBSET Lines] /\ result' \in [Tasks -> {"none", "ok", "failed"}]
    BY <1>9 DEF Retry
  <2>2. TypeOK'
    BY <1>9, <2>a, <2>b, <2>c DEF Retry
  <2>3. ExchangeInv'
    <3>1. CASE retry[t] - 1 > 0
      BY <1>9, <3>1 DEF Retry
    <3>2. CASE ~(retry[t] - 1 > 0)
      BY <1>9, <3>2 DEF Retry
    <3> QED
      BY <3>1, <3>2
  <2> QED
    BY <2>2, <2>3
<1>10. ASSUME NEW t \in Tasks, Unlock(t) PROVE TypeInv'
  BY <1>10 DEF Unlock
<1>11. CASE ModemAnswers
  <2>1. Head(modem) \in Commands /\ Tail(modem) \in Seq(Commands)
    BY <1>11 DEF ModemAnswers
  <2>2. PICK a \in Answers(Head(modem).kind) : wire' = wire \o Labelled(a, Head(modem).mine)
    BY <1>11 DEF ModemAnswers
  <2>3. Labelled(a, Head(modem).mine) \in Seq(Lines)
    BY <2>1, AnswerType DEF Commands
  <2>4. wire' \in Seq(Lines)
    BY <2>2, <2>3
  <2> QED
    BY <1>11, <2>1, <2>4 DEF ModemAnswers
<1>12. CASE ModemLoses
  BY <1>12 DEF ModemLoses
<1>13. CASE ModemReports
  BY <1>13 DEF ModemReports, Lines, LineKinds
<1>14. CASE Receive
  BY <1>14 DEF Receive
<1>15. CASE UNCHANGED vars
  BY <1>15 DEF vars
<1> QED
  BY <1>1, <1>2, <1>3, <1>4, <1>5, <1>6, <1>7, <1>8, <1>9, <1>10, <1>11, <1>12,
     <1>13, <1>14, <1>15 DEF Next, Step, Environment

LEMMA InvHolds == Spec => []TypeInv
BY TypeInit, TypeStep, PTL DEF Spec

\* The type invariant: in particular every decision of core_at_wait_resp is made
\* on a command of the list, and retry_cnt never leaves 0..AIOT_AT_CMD_RETRY_TIME.
THEOREM TypeCorrect == Spec => []TypeOK
<1>1. TypeInv => TypeOK
  BY DEF TypeInv
<1> QED
  BY <1>1, InvHolds, PTL

\* cmd_mutex serialises whole calls of core_at_commands_send_sync.
THEOREM MutualExclusion == Spec => []OneExchange
<1>1. TypeInv => OneExchange
  BY DEF TypeInv, ExchangeInv, OneExchange
<1> QED
  BY <1>1, InvHolds, PTL

\* While a task waits, cmd_content points at its command: the interrupt keeps
\* every line it completes.
THEOREM AnswersAreKept == Spec => []AnswerIsKept
<1>1. TypeInv => AnswerIsKept
  BY DEF TypeInv, ExchangeInv, AnswerIsKept
<1> QED
  BY <1>1, InvHolds, PTL

-----------------------------------------------------------------------------
(* The channel implements AtService.                                       *)

LEMMA ServiceInit == Init => Service!Init
BY DEF Init, Service!Init

LEMMA ServiceStep == TypeInv /\ [Next]_vars => [Service!Next]_(Service!vars)
<1> SUFFICES ASSUME TypeInv, [Next]_vars PROVE [Service!Next]_(Service!vars)
  OBVIOUS
<1> USE DEF TypeInv, TypeOK, ExchangeInv, InExchange, Armed, taskVars, modemVars
<1>1. ASSUME NEW t \in Tasks, Call(t) PROVE Service!Request(t)
  BY <1>1 DEF Call, Service!Request
<1>2. ASSUME NEW t \in Tasks, Lock(t) PROVE Service!Serve(t)
  <2>1. list[t] # <<>>
    BY <1>2, ChannelAssumption DEF Lock
  <2> QED
    BY <1>2, <2>1 DEF Lock, Service!Serve
<1>3. ASSUME NEW t \in Tasks, Reset(t) \/ Transmit(t) \/ Poll(t) \/ Timeout(t)
      PROVE  UNCHANGED Service!vars
  BY <1>3 DEF Reset, Transmit, Poll, Timeout, Service!vars
<1>4. ASSUME NEW t \in Tasks, TransmitFails(t) PROVE Service!Refuse(t)
  BY <1>4 DEF TransmitFails, Service!Refuse
<1>5. ASSUME NEW t \in Tasks, Advance(t) PROVE Service!Accept(t)
  <2>1. mutex = t /\ result[t] = "none" /\ list[t] \in Lists /\ pos[t] <= Len(list[t])
    BY <1>5 DEF Advance
  <2>2. Len(list[t]) \in Nat /\ pos[t] \in Nat
    BY <2>1, ChannelAssumption
  <2> DEFINE acc == [u \in Tasks |-> pos[u] - 1]
  <2>3. acc[t] < Len(list[t])
    BY <2>1, <2>2
  <2>4. acc' = [acc EXCEPT ![t] = @ + 1]
    <3>1. \A u \in Tasks : pos'[u] - 1 = IF u = t THEN (pos[t] - 1) + 1 ELSE pos[u] - 1
      BY <1>5, <2>2 DEF Advance
    <3> QED
      BY <3>1
  <2>5. acc'[t] = pos[t]
    BY <1>5, <2>2 DEF Advance
  <2>6. result' = [result EXCEPT ![t] = IF acc'[t] = Len(list[t]) THEN "ok" ELSE "none"]
    <3>1. CASE pos[t] = Len(list[t])
      BY <1>5, <2>5, <3>1 DEF Advance
    <3>2. CASE pos[t] # Len(list[t])
      BY <1>5, <2>1, <2>5, <3>2 DEF Advance
    <3> QED
      BY <3>1, <3>2
  <2>7. UNCHANGED <<list, mutex>>
    BY <1>5 DEF Advance
  <2> QED
    BY <2>1, <2>3, <2>4, <2>6, <2>7 DEF Service!Accept
<1>6. ASSUME NEW t \in Tasks, Retry(t) PROVE Service!Refuse(t) \/ UNCHANGED Service!vars
  <2>1. CASE retry[t] - 1 > 0
    BY <1>6, <2>1 DEF Retry, Service!vars
  <2>2. CASE ~(retry[t] - 1 > 0)
    BY <1>6, <2>2 DEF Retry, Service!Refuse
  <2> QED
    BY <2>1, <2>2
<1>7. ASSUME NEW t \in Tasks, Unlock(t) PROVE Service!Return(t)
  <2> DEFINE acc == [u \in Tasks |-> pos[u] - 1]
  <2>1. acc' = [acc EXCEPT ![t] = 0]
    <3>1. \A u \in Tasks : pos'[u] - 1 = IF u = t THEN 0 ELSE pos[u] - 1
      BY <1>7 DEF Unlock
    <3> QED
      BY <3>1
  <2> QED
    BY <1>7, <2>1 DEF Unlock, Service!Return
<1>8. CASE Environment \/ UNCHANGED vars
  BY <1>8 DEF Environment, ModemAnswers, ModemLoses, ModemReports, Receive, vars, Service!vars
<1> QED
  BY <1>1, <1>2, <1>3, <1>4, <1>5, <1>6, <1>7, <1>8 DEF Next, Step, Service!Next

\* Requests are served one at a time, their commands accepted in list order, and
\* a call returns ok exactly when every command of its list was accepted.
THEOREM ChannelImplementsService == Spec => ImplementsService
<1>1. Spec => Service!Spec
  BY ServiceInit, ServiceStep, InvHolds, PTL DEF Spec, Service!Spec
<1> QED
  BY <1>1 DEF ImplementsService
==============================================================================
