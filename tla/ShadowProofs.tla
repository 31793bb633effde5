---------------------------- MODULE ShadowProofs ----------------------------
(***************************************************************************)
(* Proofs about Shadow, for any tasks, retries, faults and histories of    *)
(* the application.                                                        *)
(***************************************************************************)
EXTENDS Shadow, TLAPS

\* The decision the receive thread still has to take rests on settings it stored
CauseInv == RestartHasCause /\ (hand = "restart" => written)

LEMMA CauseStep == CauseInv /\ [Next]_vars => CauseInv'
<1> SUFFICES ASSUME CauseInv, [Next]_vars PROVE CauseInv'
  OBVIOUS
<1> USE DEF CauseInv, RestartHasCause
<1>1. ASSUME Boot PROVE CauseInv'
  BY <1>1 DEF Boot
<1>2. CASE Device
  <2>1. CASE Connect \/ Get \/ SetGetFlag \/ Success \/ IgnoreError
    BY <2>1 DEF Connect, Get, SetGetFlag, Success, IgnoreError, eeprom, flags
  <2>2. CASE ShadowIsEmpty
    BY <2>2 DEF ShadowIsEmpty, eeprom
  <2>3. CASE Control
    BY <2>3 DEF Control, flags
  <2>4. CASE GetReply
    BY <2>4 DEF GetReply
  <2>5. CASE Decide
    BY <2>5 DEF Decide, eeprom
  <2> QED BY <1>2, <2>1, <2>2, <2>3, <2>4, <2>5 DEF Device
<1>3. ASSUME NEW t \in Tasks, Update(t) PROVE CauseInv'
  <2>1. CASE Delay(t) \/ Report(t) \/ ReportFails(t)
    BY <2>1 DEF Delay, Report, ReportFails, eeprom
  <2>2. CASE Reported(t) \/ NotReported(t) \/ Leave(t)
    BY <2>2 DEF Reported, NotReported, Leave, eeprom, flags
  <2>3. CASE RestartMcu(t)
    BY <1>1, <2>3 DEF RestartMcu
  <2> QED BY <1>3, <2>1, <2>2, <2>3 DEF Update
<1>4. CASE CloudGet \/ CloudUpdate \/ AppSets \/ LinkLost
  BY <1>4 DEF CloudGet, CloudUpdate, AppSets, LinkLost, eeprom, flags
<1>5. CASE PowerLost
  BY <1>1, <1>5 DEF PowerLost
<1>6. CASE UNCHANGED vars
  BY <1>6 DEF vars, eeprom, flags
<1> QED BY <1>2, <1>3, <1>4, <1>5, <1>6 DEF Next

\* The device is restarted by the shadow only for settings it stored since it
\* booted (update_shadow_restart_flag, aliyun_shadow.c:274).
THEOREM RestartsHaveCause == Spec => []RestartHasCause
<1>1. Init => CauseInv
  BY DEF Init, CauseInv, RestartHasCause
<1>2. CauseInv => RestartHasCause
  BY DEF CauseInv
<1> QED BY <1>1, <1>2, CauseStep, PTL DEF Spec
-----------------------------------------------------------------------------
(* Type correctness: the queues' bounds and the attempts of a task.        *)

Version == 0..MaxDesired
Requests == [kind : {"get", "update"}, value : Version]
Stages == {"none", "delay", "report", "wait", "end"}

CloudOK == /\ desired \in Version /\ reported \in Version \cup {NoReport}
           /\ newer \in BOOLEAN /\ sameSecond \in BOOLEAN
UpOK == up \in Seq(Requests) /\ Len(up) <= MaxNet
DownOK == down \in Seq(Messages) /\ Len(down) <= MaxNet
DeviceOK == /\ stored \in Version /\ running \in Version /\ written \in BOOLEAN
            /\ conn \in {"boot", "online", "sent", "done"}
            /\ getFlag \in BOOLEAN /\ restartFlag \in BOOLEAN /\ reportRes \in BOOLEAN
            /\ hand \in {"nothing", "restart", "report"}
TasksOK == pc \in [Tasks -> Stages] /\ try \in [Tasks -> 1..Tries]
FaultsOK == faults \in 0..MaxFaults

LEMMA TypeParts == TypeOK <=> CloudOK /\ UpOK /\ DownOK /\ DeviceOK /\ TasksOK /\ FaultsOK
  BY DEF TypeOK, CloudOK, UpOK, DownOK, DeviceOK, TasksOK, FaultsOK, Version, Requests, Stages

LEMMA TypeNext ==
  ASSUME CloudOK', UpOK', DownOK', DeviceOK', TasksOK', FaultsOK' PROVE TypeOK'
  BY DEF TypeOK, CloudOK, UpOK, DownOK, DeviceOK, TasksOK, FaultsOK, Version, Requests, Stages

LEMMA FaultsBounded ==
  ASSUME FaultsOK, NoFault \/ \E k \in Kinds : Fault(k) PROVE FaultsOK'
  BY ShadowAssumption DEF FaultsOK, NoFault, Fault

LEMMA Dequeued ==
  ASSUME NEW S, NEW q \in Seq(S), NEW n \in Nat, Len(q) <= n
  PROVE  /\ q # <<>> => Head(q) \in S /\ Tail(q) \in Seq(S) /\ Len(Tail(q)) <= n
         /\ <<>> \in Seq(S) /\ Len(<<>>) <= n
         /\ \A m \in S : Len(q) < n => Append(q, m) \in Seq(S) /\ Len(Append(q, m)) <= n
  OBVIOUS

LEMMA Sent ==
  ASSUME UpOK, NEW m \in Requests, Len(up) < MaxNet, up' = Append(up, m) PROVE UpOK'
  BY ShadowAssumption DEF UpOK

LEMMA Delivered ==
  ASSUME DownOK, NEW m \in Messages, Len(down) < MaxNet, down' = Append(down, m) PROVE DownOK'
  BY ShadowAssumption DEF DownOK

LEMMA BootTypes == ASSUME TypeOK, Boot, FaultsOK' PROVE TypeOK'
<1>1. UNCHANGED <<cloud, up>>
  BY DEF Boot
<1>2. DownOK'
  BY ShadowAssumption, Dequeued DEF Boot, DownOK
<1>3. DeviceOK'
  BY TypeParts DEF Boot, DeviceOK
<1>4. TasksOK'
  <2>1. 1 \in 1..Tries
    BY ShadowAssumption
  <2> QED BY <2>1 DEF Boot, TasksOK, Stages
<1>5. CloudOK' /\ UpOK'
  BY <1>1, TypeParts DEF CloudOK, UpOK, cloud
<1> QED BY <1>2, <1>3, <1>4, <1>5, TypeNext

LEMMA DeviceTypes == ASSUME TypeOK, Device PROVE TypeOK'
<1> USE ShadowAssumption
<1>0. CloudOK /\ UpOK /\ DownOK /\ DeviceOK /\ TasksOK /\ FaultsOK
  BY TypeParts
<1>1. CASE Connect
  <2>1. UpOK' /\ DownOK'
    BY <1>1, Dequeued DEF Connect, UpOK, DownOK
  <2> QED BY <1>0, <1>1, <2>1, TypeNext
          DEF Connect, CloudOK, DeviceOK, TasksOK, FaultsOK, cloud, eeprom, flags
<1>2. CASE Get
  <2>1. UpOK'
    <3>1. [kind |-> "get", value |-> 0] \in Requests
      BY DEF Requests, Version
    <3> QED BY <1>0, <1>2, <3>1, Sent DEF Get, UpOK
  <2>2. FaultsOK'
    BY <1>0, <1>2, FaultsBounded DEF Get, Kinds
  <2> QED BY <1>0, <1>2, <2>1, <2>2, TypeNext
          DEF Get, CloudOK, DownOK, DeviceOK, TasksOK, cloud, eeprom, flags
<1>3. CASE SetGetFlag
  BY <1>0, <1>3, TypeNext
     DEF SetGetFlag, CloudOK, UpOK, DownOK, DeviceOK, TasksOK, FaultsOK, cloud, eeprom
<1>4. ASSUME NEW k, Receive(k) PROVE DownOK' /\ Head(down) \in Messages
  BY <1>0, <1>4, Dequeued DEF Receive, DownOK
<1>5. ASSUME CreateTask PROVE TasksOK' /\ FaultsOK'
  <2>1. FaultsOK'
    BY <1>0, <1>5, FaultsBounded DEF CreateTask, Kinds
  <2>2. TasksOK'
    <3>1. 1 \in 1..Tries
      OBVIOUS
    <3> QED BY <1>0, <1>5, <3>1 DEF CreateTask, TasksOK, Stages
  <2> QED BY <2>1, <2>2
<1>6. CASE Success \/ IgnoreError
  <2>1. DownOK'
    BY <1>4, <1>6 DEF Success, IgnoreError
  <2>2. DeviceOK'
    BY <1>0, <1>6 DEF Success, IgnoreError, DeviceOK, eeprom, flags
  <2>3. CloudOK' /\ UpOK' /\ TasksOK' /\ FaultsOK'
    BY <1>0, <1>6 DEF Success, IgnoreError, CloudOK, UpOK, TasksOK, FaultsOK, cloud
  <2> QED BY <2>1, <2>2, <2>3, TypeNext
<1>7. CASE ShadowIsEmpty
  <2>1. DownOK' /\ TasksOK' /\ FaultsOK'
    BY <1>4, <1>5, <1>7 DEF ShadowIsEmpty
  <2> QED BY <1>0, <1>7, <2>1, TypeNext
          DEF ShadowIsEmpty, CloudOK, UpOK, DeviceOK, cloud, eeprom
<1>8. CASE Control \/ GetReply
  <2>1. DownOK' /\ Head(down).value \in Version
    BY <1>4, <1>8 DEF Control, GetReply, Messages, Version
  <2>2. FaultsOK'
    BY <1>0, <1>8, FaultsBounded DEF Control, GetReply, Kinds
  <2>3. DeviceOK'
    BY <1>0, <1>8, <2>1 DEF Control, GetReply, DeviceOK, flags
  <2> QED BY <1>0, <1>8, <2>1, <2>2, <2>3, TypeNext
          DEF Control, GetReply, CloudOK, UpOK, TasksOK, cloud
<1>9. CASE Decide
  <2>1. TasksOK' /\ FaultsOK'
    BY <1>5, <1>9 DEF Decide
  <2> QED BY <1>0, <1>9, <2>1, TypeNext
          DEF Decide, CloudOK, UpOK, DownOK, DeviceOK, cloud, eeprom
<1> QED BY <1>1, <1>2, <1>3, <1>6, <1>7, <1>8, <1>9 DEF Device

LEMMA UpdateTypes == ASSUME TypeOK, NEW t \in Tasks, Update(t) PROVE TypeOK'
<1> USE ShadowAssumption
<1>0. CloudOK /\ UpOK /\ DownOK /\ DeviceOK /\ TasksOK /\ FaultsOK
  BY TypeParts
<1>1. CASE Delay(t) \/ Reported(t) \/ Leave(t)
  <2>1. TasksOK'
    BY <1>0, <1>1 DEF Delay, Reported, Leave, Step, TasksOK, Stages
  <2>2. DeviceOK' /\ CloudOK'
    BY <1>0, <1>1 DEF Delay, Reported, Leave, CloudOK, DeviceOK, cloud, eeprom, flags
  <2>3. UpOK' /\ DownOK' /\ FaultsOK'
    BY <1>0, <1>1 DEF Delay, Reported, Leave, UpOK, DownOK, FaultsOK
  <2> QED BY <2>1, <2>2, <2>3, TypeNext
<1>2. CASE Report(t)
  <2>1. TasksOK'
    BY <1>0, <1>2 DEF Report, Step, TasksOK, Stages
  <2>2. UpOK'
    <3>1. [kind |-> "update", value |-> stored] \in Requests
      BY <1>0 DEF Requests, DeviceOK
    <3> QED BY <1>0, <1>2, <3>1, Sent DEF Report, UpOK
  <2> QED BY <1>0, <1>2, <2>1, <2>2, TypeNext
          DEF Report, CloudOK, DownOK, DeviceOK, FaultsOK, cloud, eeprom
<1>3. CASE ReportFails(t) \/ NotReported(t)
  <2>1. NextTry(t)
    BY <1>3 DEF ReportFails, NotReported
  <2>2. TasksOK'
    <3>1. CASE try[t] < Tries
      <4>1. pc' = [pc EXCEPT ![t] = "delay"] /\ try' = [try EXCEPT ![t] = @ + 1]
        BY <2>1, <3>1 DEF NextTry
      <4>2. try[t] + 1 \in 1..Tries
        BY <1>0, <3>1 DEF TasksOK
      <4> QED BY <1>0, <4>1, <4>2 DEF TasksOK, Stages
    <3>2. CASE ~(try[t] < Tries)
      BY <1>0, <2>1, <3>2 DEF NextTry, TasksOK, Stages
    <3> QED BY <3>1, <3>2
  <2>3. FaultsOK'
    BY <1>0, <1>3, FaultsBounded DEF ReportFails, NotReported, Kinds
  <2> QED BY <1>0, <1>3, <2>2, <2>3, TypeNext
          DEF ReportFails, NotReported, CloudOK, UpOK, DownOK, DeviceOK, cloud, eeprom, flags
<1>4. CASE RestartMcu(t)
  <2>1. FaultsOK'
    BY <1>0, <1>4, FaultsBounded DEF RestartMcu
  <2> QED BY <1>4, <2>1, BootTypes DEF RestartMcu
<1> QED BY <1>1, <1>2, <1>3, <1>4 DEF Update

LEMMA CloudTypes ==
  ASSUME TypeOK, CloudGet \/ CloudUpdate \/ AppSets \/ LinkLost
  PROVE  TypeOK'
<1> USE ShadowAssumption
<1>0. CloudOK /\ UpOK /\ DownOK /\ DeviceOK /\ TasksOK /\ FaultsOK
  BY TypeParts
<1>1. ASSUME NEW k \in {"getReply", "success", "error"}, Answer(k), Len(down) < MaxNet PROVE DownOK'
  <2>1. [kind |-> k, value |-> desired, fresh |-> Fresh] \in Messages
    BY <1>0 DEF CloudOK, Messages, Version, Fresh
  <2> QED BY <1>0, <1>1, <2>1, Delivered DEF Answer, DownOK
<1>2. ASSUME up # <<>>, up' = Tail(up) PROVE UpOK' /\ Head(up) \in Requests
  BY <1>0, <1>2, Dequeued DEF UpOK
<1>3. CASE CloudGet
  <2>1. UpOK' /\ DownOK'
    BY <1>1, <1>2, <1>3 DEF CloudGet
  <2> QED BY <1>0, <1>3, <2>1, TypeNext
          DEF CloudGet, CloudOK, DeviceOK, TasksOK, FaultsOK, cloud, eeprom, flags
<1>4. CASE CloudUpdate
  <2>1. UpOK' /\ DownOK' /\ Head(up).value \in Version
    BY <1>1, <1>2, <1>4 DEF CloudUpdate, Requests
  <2>2. FaultsOK'
    BY <1>0, <1>4, FaultsBounded DEF CloudUpdate, Kinds
  <2>3. CloudOK'
    BY <1>0, <1>4, <2>1 DEF CloudUpdate, CloudOK
  <2> QED BY <1>0, <1>4, <2>1, <2>2, <2>3, TypeNext
          DEF CloudUpdate, DeviceOK, TasksOK, eeprom, flags
<1>5. CASE AppSets
  <2>1. desired + 1 \in Version
    BY <1>0, <1>5 DEF AppSets, CloudOK, Version
  <2>2. DownOK'
    <3>1. [kind |-> "control", value |-> desired + 1, fresh |-> TRUE] \in Messages
      BY <2>1 DEF Messages, Version
    <3> QED BY <1>0, <1>5, <3>1, Delivered DEF AppSets, DownOK
  <2> QED BY <1>0, <1>5, <2>1, <2>2, TypeNext
          DEF AppSets, CloudOK, UpOK, DeviceOK, TasksOK, FaultsOK, eeprom, flags
<1>6. CASE LinkLost
  <2>1. UpOK' /\ DownOK'
    BY <1>6, Dequeued DEF LinkLost, UpOK, DownOK
  <2>2. FaultsOK'
    BY <1>0, <1>6, FaultsBounded DEF LinkLost, Kinds
  <2> QED BY <1>0, <1>6, <2>1, <2>2, TypeNext
          DEF LinkLost, CloudOK, DeviceOK, TasksOK, cloud, eeprom, flags
<1> QED BY <1>3, <1>4, <1>5, <1>6

\* For any number of tasks, tries, faults and messages under way the shadow's state
\* keeps its types; no task attempts more reports than it may (aliyun_shadow.c).
THEOREM ShadowTypeCorrect == Spec => []TypeOK
<1> USE ShadowAssumption
<1>1. Init => TypeOK
  <2> SUFFICES ASSUME Init PROVE TypeOK
    OBVIOUS
  <2>1. UpOK /\ DownOK
    BY Dequeued DEF Init, UpOK, DownOK
  <2>2. CloudOK /\ DeviceOK /\ FaultsOK
    <3>1. 0 \in Version /\ 0 \in 0..MaxFaults
      BY DEF Version
    <3> QED BY <3>1 DEF Init, CloudOK, DeviceOK, FaultsOK
  <2>3. TasksOK
    <3>1. 1 \in 1..Tries
      OBVIOUS
    <3> QED BY <3>1 DEF Init, TasksOK, Stages
  <2> QED BY <2>1, <2>2, <2>3, TypeParts
<1>2. TypeOK /\ [Next]_vars => TypeOK'
  <2> SUFFICES ASSUME TypeOK, [Next]_vars PROVE TypeOK'
    OBVIOUS
  <2>1. CASE PowerLost
    <3>1. FaultsOK'
      BY <2>1, TypeParts, FaultsBounded DEF PowerLost, Kinds
    <3> QED BY <2>1, <3>1, BootTypes DEF PowerLost
  <2>2. CASE UNCHANGED vars
    BY <2>2 DEF vars, cloud, eeprom, flags, TypeOK
  <2> QED BY <2>1, <2>2, DeviceTypes, UpdateTypes, CloudTypes DEF Next
<1> QED BY <1>1, <1>2, PTL DEF Spec

-----------------------------------------------------------------------------
(* How a restart that settings wait for is forgotten.                      *)

\* an update task stays alive, or the device restarts
StillFollows == /\ UNCHANGED <<written, restartFlag, hand>>
                /\ \A t \in Tasks : pc[t] # "none" => pc'[t] # "none"

LEMMA StillThere == ASSUME RestartFollows, StillFollows PROVE RestartFollows'
BY DEF RestartFollows, StillFollows

LEMMA CreatedAlive ==
  ASSUME TasksOK, FaultsOK, CreateTask
  PROVE  /\ \A t \in Tasks : pc[t] # "none" => pc'[t] # "none"
         /\ (\E t \in Tasks : pc'[t] # "none") \/ faults' > faults
<1>1. CASE Fault("create") /\ UNCHANGED <<pc, try>>
  BY <1>1 DEF Fault, FaultsOK
<1>2. CASE NoFault /\ ~(\E t \in Tasks : pc[t] = "none") /\ UNCHANGED <<pc, try>>
  BY <1>2, ShadowAssumption
<1>3. ASSUME NEW t \in Tasks, pc[t] = "none", pc' = [pc EXCEPT ![t] = "delay"]
      PROVE  /\ \A u \in Tasks : pc[u] # "none" => pc'[u] # "none"
             /\ \E u \in Tasks : pc'[u] # "none"
  BY <1>3 DEF TasksOK
<1> QED BY <1>1, <1>2, <1>3 DEF CreateTask

LEMMA DeviceForgets ==
  ASSUME TypeOK, RestartFollows, Device
  PROVE  RestartFollows' \/ Forgets
<1>0. TasksOK /\ FaultsOK /\ DeviceOK
  BY TypeParts
<1>1. CASE Connect \/ Get \/ SetGetFlag \/ Success \/ IgnoreError
  <2>1. StillFollows
    BY <1>1 DEF Connect, Get, SetGetFlag, Success, IgnoreError, eeprom, flags, StillFollows
  <2> QED BY <2>1, StillThere
<1>2. CASE ShadowIsEmpty
  BY <1>2 DEF ShadowIsEmpty, Receive, Forgets
<1>3. CASE Control \/ GetReply
  <2>1. hand = "nothing" /\ UNCHANGED <<restartFlag, pc>>
    BY <1>3 DEF Control, GetReply, Receive, flags
  <2>2. hand' = "restart" \/ written' = written
    BY <1>3 DEF Control, GetReply
  <2> QED BY <2>1, <2>2 DEF RestartFollows
<1>4. CASE Decide
  <2>1. /\ hand \in {"restart", "report"} /\ hand' = "nothing" /\ CreateTask
        /\ restartFlag' = (hand = "restart")
    BY <1>0, <1>4 DEF Decide, DeviceOK
  <2>2. CASE hand = "report"
    BY <2>1, <2>2 DEF Forgets
  <2>3. CASE hand = "restart"
    <3>1. restartFlag'
      BY <2>1, <2>3, Zenon
    <3> QED BY <1>0, <2>1, <2>3, <3>1, CreatedAlive DEF RestartFollows, Forgets
  <2> QED BY <2>1, <2>2, <2>3
<1> QED BY <1>1, <1>2, <1>3, <1>4 DEF Device

LEMMA UpdateForgetsNothing ==
  ASSUME TypeOK, RestartFollows, NEW t \in Tasks, Update(t)
  PROVE  RestartFollows'
<1>0. TasksOK
  BY TypeParts
<1>1. ASSUME NEW next \in Stages \ {"none"}, pc' = [pc EXCEPT ![t] = next],
             UNCHANGED <<written, restartFlag, hand>>
      PROVE  RestartFollows'
  <2>1. StillFollows
    BY <1>0, <1>1 DEF StillFollows, TasksOK
  <2> QED BY <2>1, StillThere
<1>2. {"delay", "report", "wait", "end"} = Stages \ {"none"}
  BY DEF Stages
<1>3. CASE Delay(t) \/ Report(t) \/ Reported(t)
  BY <1>1, <1>2, <1>3 DEF Delay, Report, Reported, Step, eeprom, flags
<1>4. CASE ReportFails(t) \/ NotReported(t)
  BY <1>1, <1>2, <1>4 DEF ReportFails, NotReported, NextTry, eeprom, flags
<1>5. CASE Leave(t)
  BY <1>5 DEF Leave, eeprom, flags, RestartFollows
<1>6. CASE RestartMcu(t)
  BY <1>6 DEF RestartMcu, Boot, RestartFollows
<1> QED BY <1>3, <1>4, <1>5, <1>6 DEF Update

\* For any number of update tasks, changes, messages and faults of every kind: the
\* restart that stored settings wait for is forgotten only by an error taken for the
\* answer to GET, by an answer to GET without news, or for want of memory
\* (aliyun_shadow.c:305, 366, 338).
THEOREM NewsForgottenOnlySo == Spec => ForgottenOnlySo
<1>1. TypeOK /\ [Next]_vars => [RestartFollows /\ ~RestartFollows' => Forgets]_vars
  <2> SUFFICES ASSUME TypeOK, RestartFollows, [Next]_vars PROVE RestartFollows' \/ Forgets
    OBVIOUS
  <2>1. CASE CloudGet \/ CloudUpdate \/ AppSets \/ LinkLost \/ UNCHANGED vars
    <3>1. StillFollows
      BY <2>1 DEF CloudGet, CloudUpdate, AppSets, LinkLost, vars, eeprom, flags, StillFollows
    <3> QED BY <3>1, StillThere
  <2>2. CASE PowerLost
    BY <2>2 DEF PowerLost, Boot, RestartFollows
  <2> QED BY <2>1, <2>2, DeviceForgets, UpdateForgetsNothing DEF Next
<1> QED BY <1>1, ShadowTypeCorrect, PTL DEF Spec, ForgottenOnlySo
=============================================================================
