------------------------------ MODULE AtChannel ------------------------------
(***************************************************************************)
(* The AT command channel (aiot_at_api.c): the tasks that call             *)
(* core_at_commands_send_sync contend for cmd_mutex; the holder transmits  *)
(* the commands of its list one by one and, for each, polls the response   *)
(* ring rsp_rb until a handler or the default rule decides, or until the   *)
(* command's timeout; the UART interrupt writes each received line into    *)
(* rsp_rb while cmd_content is not NULL and throws it away otherwise.      *)
(* The modem is external: it answers the commands it received in order,    *)
(* with a burst of lines, and may refuse, lose or delay any of them.       *)
(*                                                                         *)
(* Data is abstracted to what decides: a line is a kind and whether it     *)
(* answers the command in hand (its first or a repeated transmission).     *)
(* A poll reads the whole ring and the decision only asks which kinds      *)
(* occur, so rsp_rb and the local buffer rsp are sets of lines.            *)
(***************************************************************************)
EXTENDS Naturals, Sequences, FiniteSets

CONSTANTS Tasks,         \* tasks that use the modem (gnss, conn, iot_send, recv ...)
          NoTask,        \* the NULL of cmd_mutex's holder and of cmd_content
          Lists,         \* the command lists a task may send, sequences of kinds
          CmdRetryTime,  \* AIOT_AT_CMD_RETRY_TIME, 3 in aiot_at_api.h
          LateAnswers,   \* TRUE: a timeout may expire although the answer is on its way
          MaxPending,    \* commands the modem queues before it drops one
          MaxWire        \* lines in flight on the UART

Kinds == {"plain", "signal", "state", "location"}

ASSUME ChannelAssumption ==
    /\ NoTask \notin Tasks
    /\ Lists \subseteq Seq(Kinds) \ {<<>>}
    /\ CmdRetryTime \in Nat \ {0}
    /\ LateAnswers \in BOOLEAN
    /\ MaxPending \in Nat \ {0} /\ MaxWire \in Nat

VARIABLES mutex,    \* holder of at_handle.cmd_mutex
          cmd,      \* at_handle.cmd_content: the task whose command it points at
          rspRb,    \* at_handle.rsp_rb
          pc,       \* pc[t]: where t is inside core_at_commands_send_sync
          list,     \* list[t]: cmd_list, <<>> outside a call
          pos,      \* pos[t]: the loop index i, from 1
          retry,    \* retry[t]: retry_cnt
          rsp,      \* rsp[t]: the local buffer of core_at_wait_resp
          verdict,  \* verdict[t]: what core_at_wait_resp decided
          result,   \* result[t]: the value the last call returned
          modem,    \* commands received by the modem and not answered
          wire      \* lines sent by the modem and not yet handled by the interrupt

taskVars == <<pc, list, pos, retry, rsp, verdict, result>>
modemVars == <<modem, wire>>
vars == <<mutex, cmd, rspRb, taskVars, modemVars>>

LineKinds == {"blank", "body", "weak", "ok", "error", "urc"}
Lines == [kind : LineKinds, mine : BOOLEAN]
Commands == [kind : Kinds, mine : BOOLEAN]
PCs == {"idle", "lock", "reset", "send", "wait", "judged", "unlock"}

(* "plain": no handler, the default rule alone.  "signal": at_csq_handler. *)
(* "state": the handlers that return AT_RSP_SUCCESS for any text, such as  *)
(* gnss_state_rsp_handler.  "location": gnss_rsp_handler.                  *)
AnyHas(k, buf) == \E l \in buf : l.kind = k

\* core_at_rsp_process_default: the expected text first, then the error prefix
DefaultRule(buf) == IF AnyHas("ok", buf) THEN "success"
                    ELSE IF AnyHas("error", buf) THEN "failed" ELSE "waiting"

\* One iteration of core_at_wait_resp: the handler, and when it says WAITING
\* (or there is none) the default rule
Verdict(k, buf) ==
    CASE k = "plain"    -> DefaultRule(buf)
      [] k = "signal"   -> IF AnyHas("body", buf) THEN "success"
                           ELSE IF AnyHas("weak", buf) THEN "failed" ELSE DefaultRule(buf)
      [] k = "state"    -> "success"
      [] k = "location" -> IF AnyHas("body", buf) THEN "success" ELSE "failed"

\* The bursts of lines the modem may answer a command with
Answers(k) ==
    {<<"blank", "error">>} \cup
    CASE k = "plain"  -> {<<"blank", "ok">>}
      [] k = "signal" -> {<<"blank", "body", "ok">>, <<"blank", "weak", "ok">>}
      [] OTHER        -> {<<"blank", "body", "ok">>}

Current(t) == list[t][pos[t]]
Old(l) == [kind |-> l.kind, mine |-> FALSE]
Aged(s) == [i \in DOMAIN s |-> Old(s[i])]
AgedSet(S) == {Old(l) : l \in S}
Outstanding == \/ \E i \in DOMAIN modem : modem[i].mine
               \/ \E i \in DOMAIN wire : wire[i].mine
               \/ \E l \in rspRb : l.mine

Init == /\ mutex = NoTask /\ cmd = NoTask /\ rspRb = {}
        /\ pc = [t \in Tasks |-> "idle"]
        /\ list = [t \in Tasks |-> <<>>]
        /\ pos = [t \in Tasks |-> 1]
        /\ retry = [t \in Tasks |-> CmdRetryTime]
        /\ rsp = [t \in Tasks |-> {}]
        /\ verdict = [t \in Tasks |-> "none"]
        /\ result = [t \in Tasks |-> "none"]
        /\ modem = <<>> /\ wire = <<>>

-----------------------------------------------------------------------------
(* The calling task.                                                       *)

Call(t) == /\ pc[t] = "idle"
           /\ \E l \in Lists : list' = [list EXCEPT ![t] = l]
           /\ result' = [result EXCEPT ![t] = "none"]
           /\ pc' = [pc EXCEPT ![t] = "lock"]
           /\ UNCHANGED <<mutex, cmd, rspRb, pos, retry, rsp, verdict, modemVars>>

\* Mutant of Lock: cmd_mutex is not taken
LockIgnored(t) == /\ pc[t] = "lock"
                  /\ mutex' = t
                  /\ pc' = [pc EXCEPT ![t] = "reset"]
                  /\ UNCHANGED <<cmd, rspRb, list, pos, retry, rsp, verdict, result, modemVars>>

Lock(t) == /\ pc[t] = "lock"
           /\ mutex = NoTask
           /\ mutex' = t
           /\ pc' = [pc EXCEPT ![t] = "reset"]
           /\ UNCHANGED <<cmd, rspRb, list, pos, retry, rsp, verdict, result, modemVars>>

\* core_ringbuf_reset, once per call and not once per command
Reset(t) == /\ pc[t] = "reset"
            /\ rspRb' = {}
            /\ pc' = [pc EXCEPT ![t] = "send"]
            /\ UNCHANGED <<mutex, cmd, list, pos, retry, rsp, verdict, result, modemVars>>

\* cmd_content = &cmd_list[i] and the transmission.  With the first transmission
\* of a command every line still in flight or in the ring becomes an old one.
Transmit(t) ==
    LET first == retry[t] = CmdRetryTime
        kept(s) == IF first THEN Aged(s) ELSE s
    IN /\ pc[t] = "send"
       /\ cmd' = t
       /\ rspRb' = IF first THEN AgedSet(rspRb) ELSE rspRb
       /\ wire' = kept(wire)
       /\ rsp' = [rsp EXCEPT ![t] = {}]
       /\ modem' = IF Len(modem) < MaxPending
                   THEN Append(kept(modem), [kind |-> Current(t), mine |-> TRUE])
                   ELSE kept(modem)
       /\ pc' = [pc EXCEPT ![t] = "wait"]
       /\ UNCHANGED <<mutex, list, pos, retry, verdict, result>>

\* at_uart_send returns 0: the loop is left at once and cmd_content stays
TransmitFails(t) == /\ pc[t] = "send"
                    /\ cmd' = t
                    /\ result' = [result EXCEPT ![t] = "failed"]
                    /\ pc' = [pc EXCEPT ![t] = "unlock"]
                    /\ UNCHANGED <<mutex, rspRb, list, pos, retry, rsp, verdict, modemVars>>

\* Mutant of Poll: cmd_content is cleared when the first chunk is read
PollClearsCmd(t) == /\ pc[t] = "wait" /\ rspRb # {}
                    /\ rsp' = [rsp EXCEPT ![t] = @ \cup rspRb]
                    /\ rspRb' = {} /\ cmd' = NoTask
                    /\ LET v == Verdict(Current(t), rsp'[t])
                       IN IF v = "waiting" THEN UNCHANGED <<pc, verdict>>
                          ELSE /\ verdict' = [verdict EXCEPT ![t] = v]
                               /\ pc' = [pc EXCEPT ![t] = "judged"]
                    /\ UNCHANGED <<mutex, list, pos, retry, result, modemVars>>

\* core_at_wait_resp finds the ring non-empty, reads all of it and decides
Poll(t) == /\ pc[t] = "wait"
           /\ rspRb # {}
           /\ rsp' = [rsp EXCEPT ![t] = @ \cup rspRb]
           /\ rspRb' = {}
           /\ LET v == Verdict(Current(t), rsp'[t])
              IN IF v = "waiting"
                 THEN UNCHANGED <<pc, verdict>>
                 ELSE /\ verdict' = [verdict EXCEPT ![t] = v]
                      /\ pc' = [pc EXCEPT ![t] = "judged"]
           /\ UNCHANGED <<mutex, cmd, list, pos, retry, result, modemVars>>

\* the command's timeout_ms has passed without a decision
Timeout(t) == /\ pc[t] = "wait"
              /\ LateAnswers \/ ~Outstanding
              /\ verdict' = [verdict EXCEPT ![t] = "timeout"]
              /\ pc' = [pc EXCEPT ![t] = "judged"]
              /\ UNCHANGED <<mutex, cmd, rspRb, list, pos, retry, rsp, result, modemVars>>

\* res >= 0: cmd_content = NULL, retry_cnt is restored, the loop goes on
Advance(t) == /\ pc[t] = "judged"
              /\ verdict[t] = "success"
              /\ cmd' = NoTask
              /\ retry' = [retry EXCEPT ![t] = CmdRetryTime]
              /\ pos' = [pos EXCEPT ![t] = @ + 1]
              /\ IF pos[t] = Len(list[t])
                 THEN /\ result' = [result EXCEPT ![t] = "ok"]
                      /\ pc' = [pc EXCEPT ![t] = "unlock"]
                 ELSE /\ pc' = [pc EXCEPT ![t] = "send"]
                      /\ UNCHANGED result
              /\ verdict' = [verdict EXCEPT ![t] = "none"]
              /\ rsp' = [rsp EXCEPT ![t] = {}]
              /\ UNCHANGED <<mutex, rspRb, list, modemVars>>

\* Mutants of Retry: the counter is not decremented; it may fall below zero; a
\* call that is given up reports success
RetryWith(t, left, mayRepeat, outcome) ==
    /\ pc[t] = "judged" /\ verdict[t] \in {"failed", "timeout"}
    /\ retry' = [retry EXCEPT ![t] = left]
    /\ IF mayRepeat THEN pc' = [pc EXCEPT ![t] = "send"] /\ UNCHANGED result
       ELSE /\ result' = [result EXCEPT ![t] = outcome]
            /\ pc' = [pc EXCEPT ![t] = "unlock"]
    /\ verdict' = [verdict EXCEPT ![t] = "none"]
    /\ rsp' = [rsp EXCEPT ![t] = {}]
    /\ UNCHANGED <<mutex, cmd, rspRb, list, pos, modemVars>>
RetryForEver(t) == RetryWith(t, retry[t], TRUE, "failed")
RetryBelowZero(t) == RetryWith(t, retry[t] - 1, retry[t] >= 0, "failed")
RetryReportsOk(t) == RetryWith(t, retry[t] - 1, retry[t] > 1, "ok")

\* res < 0: --retry_cnt; the same command again, or the call is given up with
\* cmd_content left as it is.  The ring is not emptied before the repetition.
Retry(t) == /\ pc[t] = "judged"
            /\ verdict[t] \in {"failed", "timeout"}
            /\ retry' = [retry EXCEPT ![t] = @ - 1]
            /\ IF retry[t] - 1 > 0
               THEN /\ pc' = [pc EXCEPT ![t] = "send"]
                    /\ UNCHANGED result
               ELSE /\ result' = [result EXCEPT ![t] = "failed"]
                    /\ pc' = [pc EXCEPT ![t] = "unlock"]
            /\ verdict' = [verdict EXCEPT ![t] = "none"]
            /\ rsp' = [rsp EXCEPT ![t] = {}]
            /\ UNCHANGED <<mutex, cmd, rspRb, list, pos, modemVars>>

\* mutex_unlock and return: the loop's locals are gone, the result stays
Unlock(t) == /\ pc[t] = "unlock"
             /\ mutex' = NoTask
             /\ pc' = [pc EXCEPT ![t] = "idle"]
             /\ list' = [list EXCEPT ![t] = <<>>]
             /\ pos' = [pos EXCEPT ![t] = 1]
             /\ retry' = [retry EXCEPT ![t] = CmdRetryTime]
             /\ UNCHANGED <<cmd, rspRb, rsp, verdict, result, modemVars>>

-----------------------------------------------------------------------------
(* The modem and the receive interrupt.                                    *)

Labelled(a, m) == [i \in DOMAIN a |-> [kind |-> a[i], mine |-> m]]

ModemAnswers == /\ modem # <<>>
                /\ \E a \in Answers(Head(modem).kind) :
                      /\ Len(wire) + Len(a) <= MaxWire
                      /\ wire' = wire \o Labelled(a, Head(modem).mine)
                /\ modem' = Tail(modem)
                /\ UNCHANGED <<mutex, cmd, rspRb, taskVars>>

ModemLoses == /\ modem # <<>>
              /\ modem' = Tail(modem)
              /\ UNCHANGED <<mutex, cmd, rspRb, taskVars, wire>>

\* an unsolicited line, +QIURC "closed" for one
ModemReports == /\ Len(wire) < MaxWire
                /\ wire' = Append(wire, [kind |-> "urc", mine |-> FALSE])
                /\ UNCHANGED <<mutex, cmd, rspRb, taskVars, modem>>

\* core_at_process_line on the next line the interrupt has completed
Receive == /\ wire # <<>>
           /\ rspRb' = IF cmd # NoTask THEN rspRb \cup {Head(wire)} ELSE rspRb
           /\ wire' = Tail(wire)
           /\ UNCHANGED <<mutex, cmd, taskVars, modem>>

-----------------------------------------------------------------------------
Step(t) == \/ Reset(t) \/ Transmit(t) \/ TransmitFails(t) \/ Poll(t) \/ Timeout(t)
           \/ Advance(t) \/ Retry(t) \/ Unlock(t)
Environment == ModemAnswers \/ ModemLoses \/ ModemReports \/ Receive

Next == \/ \E t \in Tasks : Call(t) \/ Lock(t) \/ Step(t)
        \/ Environment

Spec == Init /\ [][Next]_vars

(* A task inside the call is scheduled (preemption is on, the holder       *)
(* inherits the priority of whoever waits), its clock advances while it    *)
(* polls, and FreeRTOS wakes equal-priority waiters of a mutex in FIFO     *)
(* order, hence strong fairness of Lock.  Nothing is assumed of the modem, *)
(* of the interrupt or of whether a task ever calls.                       *)
Fairness == \A t \in Tasks : /\ SF_vars(Lock(t))
                             /\ WF_vars(Timeout(t))
                             /\ WF_vars(Step(t))
FairSpec == Spec /\ Fairness

-----------------------------------------------------------------------------
TypeOK ==
    /\ mutex \in Tasks \cup {NoTask}
    /\ cmd \in Tasks \cup {NoTask}
    /\ rspRb \in SUBSET Lines
    /\ pc \in [Tasks -> PCs]
    /\ list \in [Tasks -> Lists \cup {<<>>}]
    /\ pos \in [Tasks -> Nat \ {0}]
    /\ retry \in [Tasks -> 0..CmdRetryTime]
    /\ rsp \in [Tasks -> SUBSET Lines]
    /\ verdict \in [Tasks -> {"none", "success", "failed", "timeout"}]
    /\ result \in [Tasks -> {"none", "ok", "failed"}]
    /\ modem \in Seq(Commands)
    /\ wire \in Seq(Lines)

\* Between mutex_lock and mutex_unlock of core_at_commands_send_sync
InExchange(t) == pc[t] \in {"reset", "send", "wait", "judged", "unlock"}

\* At most one task at a time resets the ring, transmits, polls or concludes:
\* two interleaved exchanges would read each other's lines.
OneExchange == \A t, u \in Tasks : InExchange(t) /\ InExchange(u) => t = u

\* While a task waits for a response, cmd_content points at its own command, so
\* the interrupt keeps the lines of the answer instead of dropping them.
AnswerIsKept == \A t \in Tasks : pc[t] \in {"wait", "judged"} => cmd = t

\* A command counts as executed (AT_RSP_SUCCESS, aiot_at_api.h:84) only on its own
\* answer: the lines that answer it would have been enough without the leftovers of
\* earlier commands.  The code breaks it: the ring is emptied once per call and a
\* line does not say what it answers, so a late OK decides the next command.
SuccessIsOwn ==
    \A t \in Tasks : verdict[t] = "success" =>
        Verdict(Current(t), {l \in rsp[t] : l.mine}) = "success"
            /\ \E l \in rsp[t] : l.mine

\* A failure is the timeout or a refusal (AT_RSP_FAILED, aiot_at_api.h:86): when it
\* is not the timeout the modem said ERROR, or reported too weak a signal.  The code
\* breaks it: gnss_rsp_handler judges the lines of a good answer that came first.
FailureIsRefusal ==
    \A t \in Tasks : verdict[t] = "failed" => AnyHas("error", rsp[t]) \/ AnyHas("weak", rsp[t])

\* A call whose mutex is requested comes back, whatever the modem does.
CallReturns == \A t \in Tasks : pc[t] = "lock" ~> pc[t] = "idle"

\* The strengthening that makes the two lock invariants inductive, and that fixes
\* what each program location means for the locals of the call.
Armed(t) == pc[t] \in {"lock", "reset", "send", "wait", "judged"}
ExchangeInv ==
    \A t \in Tasks :
        /\ InExchange(t) <=> mutex = t
        /\ Armed(t) => /\ list[t] \in Lists /\ pos[t] <= Len(list[t])
                       /\ retry[t] > 0 /\ result[t] = "none"
        /\ pc[t] \in {"lock", "reset"} => pos[t] = 1 /\ retry[t] = CmdRetryTime
        /\ pc[t] = "idle" => list[t] = <<>> /\ pos[t] = 1 /\ retry[t] = CmdRetryTime
        /\ pc[t] = "unlock" => list[t] \in Lists /\ result[t] # "none"
        /\ pc[t] \in {"wait", "judged"} => cmd = t
        /\ verdict[t] # "none" <=> pc[t] = "judged"

\* What the channel implements: one request at a time, accepted in list order.
Service == INSTANCE AtService WITH
    ask <- list,
    serving <- mutex,
    accepted <- [t \in Tasks |-> pos[t] - 1],
    result <- result
ImplementsService == Service!Spec
==============================================================================
