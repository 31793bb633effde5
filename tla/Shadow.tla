------------------------------- MODULE Shadow -------------------------------
(***************************************************************************)
(* The device shadow (aliyun_shadow.c): the application sets the desired   *)
(* GNSS settings in the cloud; the device learns of them from a CONTROL    *)
(* message while it is online, or from the answer to the GET it sends      *)
(* after connecting (aliyun_protocol.c); it stores them in the EEPROM,     *)
(* reports what it holds and restarts, because gnss_init reads them only   *)
(* at boot.                                                                *)
(*                                                                         *)
(* Three kinds of threads share the flags of the file without a lock: the  *)
(* connection task, the receive thread and the update tasks.  Settings are *)
(* version numbers; of the two timestamps the cloud attaches only their    *)
(* order matters, which a message carries as "fresh".                      *)
(***************************************************************************)
EXTENDS Naturals, Sequences, FiniteSets

CONSTANTS Tasks,      \* the update tasks the heap has room for
          Tries,      \* 3: reports a task attempts
          Faults,     \* the kinds of fault that may happen
          MaxFaults,  \* how many of them
          MaxDesired, \* changes the application makes
          MaxNet,     \* messages under way in each direction
          NoReport    \* the cloud has no reported section

Kinds == {"send",    \* a publication fails in the device
          "reject",  \* the cloud answers a report with an error
          "eeprom",  \* the settings are not written
          "create",  \* xTaskCreate finds no memory
          "late",    \* the answer to a report takes more than five seconds
          "link",    \* a reconnection loses what is under way
          "power",   \* a reset that the shadow did not ask for
          "race",    \* the answer to GET is handled before get_shadow_flag is set
          "early"}   \* the application changes the settings between MQTT's
                     \* connection and the GET

ASSUME ShadowAssumption ==
    /\ Tasks # {} /\ Tries \in Nat \ {0} /\ Faults \subseteq Kinds
    /\ MaxFaults \in Nat /\ MaxDesired \in Nat /\ MaxNet \in Nat \ {0}
    /\ NoReport \notin Nat

VARIABLES desired,    \* the settings the application wants (0: the factory's)
          reported,   \* the settings the device reported
          newer,      \* desired's timestamp is not older than reported's
          sameSecond, \* the last change of desired was made in this second
          up, down,   \* messages under way
          faults,     \* faults so far
          stored,     \* the settings in the EEPROM
          running,    \* the settings gnss_init read at boot
          written,    \* the receive thread stored settings since the boot
          conn,       \* where the connection task is
          getFlag, restartFlag, reportRes,  \* get_shadow_flag, update_shadow_restart_flag,
                                            \* shadow_report_res
          hand,       \* what the receive thread has to decide on, or "nothing"
          pc, try     \* of the update tasks

cloud == <<desired, reported, newer, sameSecond>>
flags == <<getFlag, restartFlag, reportRes>>
eeprom == <<stored, running, written>>
vars == <<cloud, up, down, faults, eeprom, conn, flags, hand, pc, try>>

Fault(k) == k \in Faults /\ faults < MaxFaults /\ faults' = faults + 1
NoFault == UNCHANGED faults
Fresh == desired # 0 /\ (reported = NoReport \/ newer)

Init == /\ desired = 0 /\ reported = NoReport /\ newer = FALSE /\ sameSecond = FALSE
        /\ up = <<>> /\ down = <<>> /\ faults = 0
        /\ stored = 0 /\ running = 0 /\ written = FALSE
        /\ conn = "boot"
        /\ getFlag = FALSE /\ restartFlag = FALSE /\ reportRes = FALSE
        /\ hand = "nothing"
        /\ pc = [t \in Tasks |-> "none"] /\ try = [t \in Tasks |-> 1]

\* mcu_restart: what was sent may still reach the cloud
Boot == /\ running' = stored /\ written' = FALSE
        /\ conn' = "boot" /\ down' = <<>>
        /\ getFlag' = FALSE /\ restartFlag' = FALSE /\ reportRes' = FALSE
        /\ hand' = "nothing"
        /\ pc' = [t \in Tasks |-> "none"] /\ try' = [t \in Tasks |-> 1]
        /\ UNCHANGED <<cloud, up, stored>>

-----------------------------------------------------------------------------
(* The connection task: aliyun_iot_connect and demo_get_shadow.            *)

\* a new MQTT session: nothing of the former one is delivered any more
Connect == /\ conn = "boot"
           /\ conn' = "online"
           /\ up' = <<>> /\ down' = <<>>
           /\ UNCHANGED <<cloud, faults, eeprom, flags, hand, pc, try>>

Get == /\ conn = "online"
       /\ \/ /\ Len(up) < MaxNet
             /\ up' = Append(up, [kind |-> "get", value |-> 0])
             /\ conn' = "sent"
             /\ NoFault
          \/ /\ Fault("send")
             /\ conn' = "done"
             /\ UNCHANGED up
       /\ UNCHANGED <<cloud, down, eeprom, flags, hand, pc, try>>

SetGetFlag == /\ conn = "sent"
              /\ conn' = "done"
              /\ getFlag' = TRUE
              /\ UNCHANGED <<cloud, up, down, faults, eeprom, restartFlag, reportRes,
                             hand, pc, try>>

-----------------------------------------------------------------------------
(* The receive thread: demo_shadow_recv_handler.                           *)

CreateTask == \/ /\ NoFault
                 /\ IF \E t \in Tasks : pc[t] = "none"
                    THEN \E t \in Tasks :
                            /\ pc[t] = "none"
                            /\ pc' = [pc EXCEPT ![t] = "delay"]
                            /\ try' = [try EXCEPT ![t] = 1]
                    ELSE UNCHANGED <<pc, try>>
              \/ Fault("create") /\ UNCHANGED <<pc, try>>

Receive(k) == /\ hand = "nothing" /\ down # <<>>
              /\ Head(down).kind = k
              /\ conn = "sent" => "race" \in Faults
              /\ down' = Tail(down)

Success == /\ Receive("success")
           /\ reportRes' = TRUE
           /\ UNCHANGED <<cloud, up, faults, eeprom, conn, getFlag, restartFlag,
                          hand, pc, try>>

\* an error is taken for the answer to GET while get_shadow_flag is set
ShadowIsEmpty == /\ Receive("error") /\ getFlag
                 /\ getFlag' = FALSE /\ restartFlag' = FALSE
                 /\ CreateTask
                 /\ UNCHANGED <<cloud, up, eeprom, conn, reportRes, hand>>

IgnoreError == /\ Receive("error") /\ ~getFlag
               /\ UNCHANGED <<cloud, up, faults, eeprom, conn, flags, hand, pc, try>>

\* shadow_recv_payload_write_flash of a CONTROL message
Control == /\ Receive("control")
           /\ \/ /\ Head(down).fresh
                 /\ stored' = Head(down).value /\ written' = TRUE
                 /\ hand' = "restart"
                 /\ NoFault
              \/ /\ IF Head(down).fresh THEN Fault("eeprom") ELSE NoFault
                 /\ UNCHANGED <<stored, written, hand>>
           /\ UNCHANGED <<cloud, up, running, conn, flags, pc, try>>

\* and of the answer to GET
GetReply == /\ Receive("getReply")
            /\ getFlag' = FALSE
            /\ \/ /\ Head(down).fresh
                  /\ stored' = Head(down).value /\ written' = TRUE
                  /\ hand' = "restart"
                  /\ NoFault
               \/ /\ IF Head(down).fresh THEN Fault("eeprom") ELSE NoFault
                  /\ hand' = "report"
                  /\ UNCHANGED <<stored, written>>
            /\ UNCHANGED <<cloud, up, running, conn, restartFlag, reportRes, pc, try>>

\* Mutant of Decide: every message restarts the device
DecideRestart == /\ hand # "nothing"
                 /\ restartFlag' = TRUE
                 /\ CreateTask
                 /\ hand' = "nothing"
                 /\ UNCHANGED <<cloud, up, down, eeprom, conn, getFlag, reportRes>>

\* update_shadow_restart_flag and the update task
Decide == /\ hand # "nothing"
          /\ restartFlag' = (hand = "restart")
          /\ CreateTask
          /\ hand' = "nothing"
          /\ UNCHANGED <<cloud, up, down, eeprom, conn, getFlag, reportRes>>

-----------------------------------------------------------------------------
(* update_shadow_task.                                                     *)

Step(t, p, q) == pc[t] = p /\ pc' = [pc EXCEPT ![t] = q]
\* Mutants of NextTry: the attempts are not limited; one attempt too many
RetryAlways(t) == pc' = [pc EXCEPT ![t] = "delay"] /\ UNCHANGED try
RetryOnceMore(t) == IF try[t] <= Tries
                    THEN /\ pc' = [pc EXCEPT ![t] = "delay"]
                         /\ try' = [try EXCEPT ![t] = @ + 1]
                    ELSE pc' = [pc EXCEPT ![t] = "end"] /\ UNCHANGED try
NextTry(t) == IF try[t] < Tries
              THEN /\ pc' = [pc EXCEPT ![t] = "delay"]
                   /\ try' = [try EXCEPT ![t] = @ + 1]
              ELSE pc' = [pc EXCEPT ![t] = "end"] /\ UNCHANGED try

Delay(t) == /\ Step(t, "delay", "report")
            /\ reportRes' = FALSE
            /\ sameSecond' = FALSE
            /\ UNCHANGED <<desired, reported, newer, up, down, faults, eeprom, conn,
                           getFlag, restartFlag, hand, try>>

\* update_shadow
Report(t) == /\ Step(t, "report", "wait")
             /\ reportRes' = FALSE
             /\ Len(up) < MaxNet
             /\ up' = Append(up, [kind |-> "update", value |-> stored])
             /\ UNCHANGED <<cloud, down, faults, eeprom, conn, getFlag, restartFlag,
                            hand, try>>

ReportFails(t) == /\ pc[t] = "report"
                  /\ IF Len(up) < MaxNet THEN Fault("send") ELSE NoFault
                  /\ reportRes' = FALSE
                  /\ NextTry(t)
                  /\ UNCHANGED <<cloud, up, down, eeprom, conn, getFlag, restartFlag, hand>>

\* the five seconds have passed
Reported(t) == /\ reportRes
               /\ Step(t, "wait", "end")
               /\ sameSecond' = FALSE
               /\ UNCHANGED <<desired, reported, newer, up, down, faults, eeprom, conn,
                              flags, hand, try>>

Awaited == \/ \E i \in DOMAIN up : up[i].kind = "update"
           \/ \E i \in DOMAIN down : down[i].kind = "success"

NotReported(t) == /\ pc[t] = "wait" /\ ~reportRes
                  /\ IF Awaited THEN Fault("late") ELSE NoFault
                  /\ NextTry(t)
                  /\ sameSecond' = FALSE
                  /\ UNCHANGED <<desired, reported, newer, up, down, eeprom, conn,
                                 flags, hand>>

\* Mutant of Leave: a report that was taken makes the restart unnecessary
LeaveReported(t) == /\ ~restartFlag \/ reportRes
                    /\ Step(t, "end", "none")
                    /\ UNCHANGED <<cloud, up, down, faults, eeprom, conn, flags, hand, try>>

Leave(t) == /\ ~restartFlag
            /\ Step(t, "end", "none")
            /\ UNCHANGED <<cloud, up, down, faults, eeprom, conn, flags, hand, try>>

RestartMcu(t) == pc[t] = "end" /\ restartFlag /\ Boot /\ NoFault

-----------------------------------------------------------------------------
(* The cloud and the application.                                          *)

\* what is published while the device has no session is lost
Answer(k) == IF conn = "boot" THEN UNCHANGED down
             ELSE down' = Append(down, [kind |-> k, value |-> desired, fresh |-> Fresh])

CloudGet == /\ up # <<>> /\ Head(up).kind = "get" /\ Len(down) < MaxNet
            /\ up' = Tail(up)
            /\ IF desired = 0 /\ reported = NoReport THEN Answer("error")
                                                     ELSE Answer("getReply")
            /\ UNCHANGED <<cloud, faults, eeprom, conn, flags, hand, pc, try>>

CloudUpdate == /\ up # <<>> /\ Head(up).kind = "update" /\ Len(down) < MaxNet
               /\ up' = Tail(up)
               /\ \/ /\ reported' = Head(up).value
                     /\ newer' = (newer /\ sameSecond)
                     /\ Answer("success")
                     /\ NoFault
                  \/ /\ Fault("reject")
                     /\ Answer("error")
                     /\ UNCHANGED <<reported, newer>>
               /\ UNCHANGED <<desired, sameSecond, eeprom, conn, flags, hand, pc, try>>

\* the application changes the settings; a device that is online is told
AppSets == /\ desired < MaxDesired
           /\ desired' = desired + 1
           /\ newer' = TRUE /\ sameSecond' = TRUE
           /\ \/ conn = "boot" /\ UNCHANGED down
              \/ /\ conn # "boot" /\ Len(down) < MaxNet
                 /\ conn = "online" => "early" \in Faults
                 /\ down' = Append(down, [kind |-> "control", value |-> desired + 1,
                                          fresh |-> TRUE])
           /\ UNCHANGED <<reported, up, faults, eeprom, conn, flags, hand, pc, try>>

LinkLost == /\ conn # "boot" /\ Fault("link")
            /\ up' = <<>> /\ down' = <<>>
            /\ UNCHANGED <<cloud, eeprom, conn, flags, hand, pc, try>>

PowerLost == Fault("power") /\ Boot

Device == \/ Connect \/ Get \/ SetGetFlag
          \/ Success \/ ShadowIsEmpty \/ IgnoreError \/ Control \/ GetReply \/ Decide

Update(t) == \/ Delay(t) \/ Report(t) \/ ReportFails(t) \/ Reported(t) \/ NotReported(t)
             \/ Leave(t) \/ RestartMcu(t)

Next == \/ Device
        \/ \E t \in Tasks : Update(t)
        \/ CloudGet \/ CloudUpdate \/ AppSets \/ LinkLost \/ PowerLost

Spec == Init /\ [][Next]_vars

\* every thread is scheduled, and the cloud answers within the five seconds a
\* task waits unless a fault is spent on it
Fairness == /\ WF_vars(Device) /\ WF_vars(CloudGet) /\ WF_vars(CloudUpdate)
            /\ \A t \in Tasks : WF_vars(Update(t))
FairSpec == Spec /\ Fairness

-----------------------------------------------------------------------------
(* Properties.                                                             *)

Messages == [kind : {"control", "getReply", "success", "error"},
             value : 0..MaxDesired, fresh : BOOLEAN]

\* Type invariant of the shadow's state (aliyun_shadow.c).
TypeOK == /\ desired \in 0..MaxDesired /\ reported \in 0..MaxDesired \cup {NoReport}
          /\ newer \in BOOLEAN /\ sameSecond \in BOOLEAN
          /\ up \in Seq([kind : {"get", "update"}, value : 0..MaxDesired])
          /\ down \in Seq(Messages) /\ Len(up) <= MaxNet /\ Len(down) <= MaxNet
          /\ faults \in 0..MaxFaults
          /\ stored \in 0..MaxDesired /\ running \in 0..MaxDesired
          /\ written \in BOOLEAN
          /\ conn \in {"boot", "online", "sent", "done"}
          /\ getFlag \in BOOLEAN /\ restartFlag \in BOOLEAN /\ reportRes \in BOOLEAN
          /\ hand \in {"nothing", "restart", "report"}
          /\ pc \in [Tasks -> {"none", "delay", "report", "wait", "end"}]
          /\ try \in [Tasks -> 1..Tries]

\* Settings that were taken from the shadow take effect: until the restart they
\* need, either the receive thread is about to ask for it or an update task is
\* alive that will carry it out (aliyun_shadow.c:335, 362).  The code breaks it, in the ways
\* of ForgottenOnlySo.
RestartFollows == written => \/ hand = "restart"
                             \/ restartFlag /\ \E t \in Tasks : pc[t] # "none"

\* Whatever fails, a restart that settings wait for is forgotten in three ways only: an
\* error is taken for the answer to GET while get_shadow_flag is set (aliyun_shadow.c:305),
\* an answer to GET without news is decided on after a message with news (:366), or no
\* update task can be created and no other is alive (:338).
Forgets == \/ /\ getFlag /\ ~getFlag'
              /\ down # <<>> /\ Head(down).kind = "error"
           \/ hand = "report" /\ hand' = "nothing"
           \/ /\ hand = "restart" /\ hand' = "nothing" /\ faults' > faults
              /\ \A t \in Tasks : pc'[t] = "none"
ForgottenOnlySo == [][RestartFollows /\ ~RestartFollows' => Forgets]_vars

\* The device is only restarted for settings it stored since it booted, whatever
\* fails: a flag raised without cause would restart it for ever.
RestartHasCause == restartFlag => written

\* An update task ends, by leaving or by the restart, whatever fails: each holds
\* eight kilobytes of the heap.
TasksEnd == \A t \in Tasks : pc[t] # "none" ~> pc[t] = "none"
=============================================================================
