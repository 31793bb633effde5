-------------------------------- MODULE Ota --------------------------------
(***************************************************************************)
(* The firmware upgrade over MQTT.  A FOTA push erases the alternate flash *)
(* bank, opens a download session (g_dl_handle) and creates the OTA task   *)
(* (aliyun_ota.c); the session asks the server for the image block by      *)
(* block (aiot_mqtt_download_api.c); every accepted block is written at    *)
(* write_address (iap.c, flash.c); when the session reports success the    *)
(* banks are swapped (boot.c), which reboots.                              *)
(*                                                                         *)
(* aiot_mqtt_recv is called by the receive thread and by the OTA task, and *)
(* hands a message to its handler after recv_mutex is released: both may   *)
(* be inside the handlers at once.  The receive thread has the idle        *)
(* priority, the OTA task priority 3: the former steps only while the      *)
(* latter is blocked.                                                      *)
(***************************************************************************)
EXTENDS Naturals, Sequences, FiniteSets

CONSTANTS Recv,         \* aliyun_mqtt_recv_thread
          Workers,      \* the OTA tasks the heap has room for
          Blocks,       \* blocks of OTA_RECV_BUFFER_SIZE the image consists of
          FaultyBlocks, \* blocks whose programming may fail
          Md5,          \* the push carries an MD5 digest
          Overlap,      \* two threads may be inside a message handler at once
          PushInWindow, \* a push may be handled between the success and the swap
          MaxFailed,    \* 3: repetitions of a request before the session fails
          MaxAsks,      \* requests on their way to the server
          MaxNet        \* messages on their way to the device

Threads == {Recv} \cup Workers

ASSUME OtaAssumption ==
    /\ Recv \notin Workers /\ IsFiniteSet(Workers)
    /\ Blocks \in Nat \ {0}
    /\ FaultyBlocks \subseteq 1..Blocks
    /\ Md5 \in BOOLEAN /\ Overlap \in BOOLEAN /\ PushInWindow \in BOOLEAN
    /\ MaxFailed \in Nat /\ MaxAsks \in Nat /\ MaxNet \in Nat

VARIABLES net,       \* messages to the device: a block number, Push or Corrupt
          asks,      \* block numbers asked of the server
          status,    \* of the session; "null" while g_dl_handle is NULL, "empty"
                     \* for INIT when the session can never begin
          fetched,   \* size_fetched, in blocks
          digest,    \* blocks the MD5 context was fed with
          failed,    \* failed_counter
          writeAddr, \* write_address: 0, or 1 + the slot's offset from APP2_FLASH_ADDRESS
          unlocked,  \* the flash control register is unlocked
          bank,      \* the alternate bank: the block in each slot
          running,   \* what the current bank holds
          pc,        \* pc[t]: where the thread is
          msg,       \* msg[t]: the message the thread handles
          addr       \* addr[t]: flash_write's addr, then its result

session == <<status, fetched, digest, failed>>
flash == <<writeAddr, unlocked, bank, running>>
links == <<net, asks>>
vars == <<links, session, flash, pc, msg, addr>>

Push == Blocks + 2      \* a FOTA message
Corrupt == Blocks + 3   \* a reply that fails a length, CRC or code check
Erased == 0
Torn == Blocks + 1      \* a slot whose programming failed, or older contents
Slots == 1..(Blocks + Cardinality(Threads))
Image == [s \in Slots |-> IF s <= Blocks THEN s ELSE Erased]

Statuses == {"null", "empty", "init", "ing", "finished", "success",
             "timeout", "recverror", "mismatch"}
\* aiot_mqtt_download_process may fail to begin and leave these statuses as they are
Unstartable == {"empty"} \cup {s \in {"init"} : Md5}
InData == {"fetch", "digest", "write", "burn", "assign", "tail"}
InHandler == {"got", "opened", "fetch", "digest", "write", "burn", "assign", "tail"}
PCs == {"none", "loop", "process", "close", "report", "fail"} \cup InHandler

Rest(t) == IF t = Recv THEN "loop" ELSE "process"
OthersHandle(t) == \E u \in Threads \ {t} : pc[u] \in InHandler
MayRun(t) == t = Recv => \A w \in Workers : pc[w] \notin InHandler
Goto(t, p) == pc' = [pc EXCEPT ![t] = p]
Ask(n) == asks' = IF Len(asks) < MaxAsks THEN Append(asks, n) ELSE asks

Idle == [t \in Threads |-> IF t = Recv THEN "loop" ELSE "none"]

Init == /\ net = <<>> /\ asks = <<>>
        /\ status = "null" /\ fetched = 0 /\ digest = <<>> /\ failed = 0
        /\ writeAddr = 0 /\ unlocked = FALSE
        /\ bank = [s \in Slots |-> Torn] /\ running = "complete"
        /\ pc = Idle
        /\ msg = [t \in Threads |-> Push]
        /\ addr = [t \in Threads |-> 0]

\* every RAM variable after a reset; the receive thread is running again
PowerUp == /\ net' = <<>> /\ asks' = <<>>
           /\ status' = "null" /\ fetched' = 0 /\ digest' = <<>> /\ failed' = 0
           /\ writeAddr' = 0 /\ unlocked' = FALSE
           /\ pc' = Idle
           /\ msg' = [t \in Threads |-> Push]
           /\ addr' = [t \in Threads |-> 0]

Reset == PowerUp /\ UNCHANGED <<bank, running>>

-----------------------------------------------------------------------------
(* Receiving.  The OTA task's loop is delay, aiot_mqtt_recv, process.      *)

Take(t) == /\ pc[t] = "loop" /\ MayRun(t)
           /\ net # <<>>
           /\ Overlap \/ ~OthersHandle(t)
           /\ msg' = [msg EXCEPT ![t] = Head(net)]
           /\ net' = Tail(net)
           /\ Goto(t, "got")
           /\ UNCHANGED <<asks, session, flash, addr>>

\* nothing was received within the OTA task's aiot_mqtt_recv
NothingReceived(w) == /\ pc[w] = "loop"
                      /\ Goto(w, "process")
                      /\ UNCHANGED <<links, session, flash, msg, addr>>

-----------------------------------------------------------------------------
(* user_ota_recv_handler.                                                  *)

\* g_dl_handle is not NULL: a task is at work, the push is ignored
RefusePush(t) == /\ pc[t] = "got" /\ MayRun(t)
                 /\ msg[t] = Push /\ status # "null"
                 /\ Goto(t, Rest(t))
                 /\ UNCHANGED <<links, session, flash, msg, addr>>

\* iap_init: write_address = APP2_FLASH_ADDRESS and the mass erase
IapInit(t) == /\ pc[t] = "got" /\ MayRun(t)
              /\ msg[t] = Push /\ status = "null"
              /\ PushInWindow \/ \A w \in Workers : pc[w] # "report"
              /\ writeAddr' = 1
              /\ bank' = [s \in Slots |-> Erased]
              /\ unlocked' = FALSE
              /\ Goto(t, "opened")
              /\ UNCHANGED <<links, session, running, msg, addr>>

\* the erase, aiot_mqtt_download_init or an option fails: iap_deinit
OpenFails(t) == /\ pc[t] = "opened" /\ MayRun(t)
                /\ writeAddr' = 0
                /\ Goto(t, Rest(t))
                /\ UNCHANGED <<links, session, unlocked, bank, running, msg, addr>>

\* g_dl_handle = md_handler and the OTA task is created; the file pushed may be empty,
\* or the start-up of the MQTT client fails meanwhile and stops it
Open(t) == /\ pc[t] = "opened" /\ MayRun(t)
           /\ \E w \in Workers :
                 /\ pc[w] = "none"
                 /\ pc' = [pc EXCEPT ![t] = Rest(t), ![w] = "loop"]
           /\ status' \in {"init", "empty"} /\ fetched' = 0 /\ digest' = <<>> /\ failed' = 0
           /\ UNCHANGED <<links, flash, msg, addr>>

-----------------------------------------------------------------------------
(* _md_recv_data_reply_handler and user_download_recv_handler.             *)

\* Mutant of Resend: the request is repeated whatever the count
ResendUncounted == /\ failed' = failed + 1
                   /\ Ask(fetched + 1)
                   /\ UNCHANGED <<status, fetched, digest>>

\* _md_resend_request
Resend == /\ failed' = failed + 1
          /\ IF failed + 1 > MaxFailed
             THEN status' = "timeout" /\ UNCHANGED asks
             ELSE Ask(fetched + 1) /\ UNCHANGED status
          /\ UNCHANGED <<fetched, digest>>

\* the session is not downloading, or the offset is not the one asked for.  A thread
\* that Close overtakes reads the status of a freed session here: the memory still
\* holds INIT
RefuseReply(t) == /\ pc[t] = "got" /\ MayRun(t)
                  /\ msg[t] # Push
                  /\ status # "ing" \/ msg[t] \notin {fetched + 1, Corrupt}
                  /\ Goto(t, Rest(t))
                  /\ UNCHANGED <<links, session, flash, msg, addr>>

BadReply(t) == /\ pc[t] = "got" /\ MayRun(t)
               /\ msg[t] = Corrupt /\ status = "ing"
               /\ Resend
               /\ Goto(t, Rest(t))
               /\ UNCHANGED <<net, flash, msg, addr>>

\* Mutant of GoodReply: the offset of the reply is not compared
AnyReply(t) == /\ pc[t] = "got" /\ MayRun(t)
               /\ msg[t] \in 1..Blocks /\ status = "ing"
               /\ Goto(t, "fetch")
               /\ UNCHANGED <<links, session, flash, msg, addr>>

GoodReply(t) == /\ pc[t] = "got" /\ MayRun(t)
                /\ msg[t] \in 1..Blocks
                /\ msg[t] = fetched + 1 /\ status = "ing"
                /\ Goto(t, "fetch")
                /\ UNCHANGED <<links, session, flash, msg, addr>>

\* size_fetched += data_len
Fetch(t) == /\ pc[t] = "fetch" /\ MayRun(t)
            /\ fetched' = fetched + 1
            /\ Goto(t, "digest")
            /\ UNCHANGED <<links, status, digest, failed, flash, msg, addr>>

\* the digest and failed_counter = 0
Digest(t) == /\ pc[t] = "digest" /\ MayRun(t)
             /\ digest' = IF Md5 THEN Append(digest, msg[t]) ELSE digest
             /\ failed' = 0
             /\ Goto(t, "write")
             /\ UNCHANGED <<links, status, fetched, flash, msg, addr>>

\* iap_write finds write_address 0: iap_deinit and restart
WriteRefused(t) == /\ pc[t] = "write" /\ MayRun(t)
                   /\ writeAddr = 0
                   /\ Reset

\* iap_write passes write_address to flash_write, which unlocks the flash
IapWrite(t) == /\ pc[t] = "write" /\ MayRun(t)
               /\ writeAddr # 0
               /\ addr' = [addr EXCEPT ![t] = writeAddr]
               /\ unlocked' = TRUE
               /\ Goto(t, "burn")
               /\ UNCHANGED <<links, session, writeAddr, bank, running, msg>>

\* the flash controller refuses a slot that is not erased, and everything while
\* it is locked
Writable(slot) == unlocked /\ bank[slot] = Erased

\* the programming loop of flash_write, HAL_FLASH_Lock and its return value
FlashWrite(t) == /\ pc[t] = "burn" /\ MayRun(t)
                 /\ \/ /\ Writable(addr[t])
                       /\ bank' = [bank EXCEPT ![addr[t]] = msg[t]]
                       /\ addr' = [addr EXCEPT ![t] = @ + 1]
                    \/ /\ Writable(addr[t]) /\ msg[t] \in FaultyBlocks
                       /\ bank' = [bank EXCEPT ![addr[t]] = Torn]
                       /\ addr' = [addr EXCEPT ![t] = 0]
                    \/ /\ ~Writable(addr[t])
                       /\ addr' = [addr EXCEPT ![t] = 0]
                       /\ UNCHANGED bank
                 /\ unlocked' = FALSE
                 /\ Goto(t, "assign")
                 /\ UNCHANGED <<links, session, writeAddr, running, msg>>

\* Mutant of Assign: a failed flash_write leaves write_address as it was
AssignUnlessFailed(t) == /\ pc[t] = "assign" /\ MayRun(t)
                         /\ writeAddr' = IF addr[t] = 0 THEN writeAddr ELSE addr[t]
                         /\ Goto(t, "tail")
                         /\ UNCHANGED <<links, session, unlocked, bank, running, msg, addr>>

\* write_address = flash_write(..); iap_write returns OK whatever it was
Assign(t) == /\ pc[t] = "assign" /\ MayRun(t)
             /\ writeAddr' = addr[t]
             /\ Goto(t, "tail")
             /\ UNCHANGED <<links, session, unlocked, bank, running, msg, addr>>

\* the rest of _md_recv_data_reply_handler
Finish(t) == /\ pc[t] = "tail" /\ MayRun(t)
             /\ IF fetched < Blocks
                THEN Ask(fetched + 1) /\ UNCHANGED status
                ELSE /\ status' = IF fetched = Blocks THEN "finished" ELSE "recverror"
                     /\ UNCHANGED asks
             /\ Goto(t, Rest(t))
             /\ UNCHANGED <<net, fetched, digest, failed, flash, msg, addr>>

-----------------------------------------------------------------------------
(* aiot_mqtt_download_process in the OTA task, and what the task does with *)
(* its result.                                                             *)

Process(w, s, p) == pc[w] = "process" /\ status = s /\ Goto(w, p)

\* STATE_MQTT_DOWNLOAD_TASK_DEINIT, STATE_MQTT_DOWNLOAD_FILESIZE_ERROR or no memory for
\* the MD5 context: the session stays in INIT, and the task's loop ends on none of them
BeginFails(w) == /\ \E s \in Unstartable : Process(w, s, "loop")
                 /\ UNCHANGED <<links, session, flash, msg, addr>>

Begin(w) == /\ Process(w, "init", "loop")
            /\ Ask(1)
            /\ status' = "ing"
            /\ UNCHANGED <<net, fetched, digest, failed, flash, msg, addr>>

Wait(w) == /\ Process(w, "ing", "loop")
           /\ UNCHANGED <<links, session, flash, msg, addr>>

\* MQTT_DOWNLOAD_DEFAULT_RECV_TIMEOUT has passed since the last request
Timeout(w) == /\ Process(w, "ing", "loop")
              /\ Resend
              /\ UNCHANGED <<net, flash, msg, addr>>

Verify(w) == /\ Process(w, "finished", "loop")
             /\ status' = IF Md5 /\ digest # [i \in 1..Blocks |-> i]
                          THEN "mismatch" ELSE "success"
             /\ UNCHANGED <<links, fetched, digest, failed, flash, msg, addr>>

\* _md_reset_handle; the task leaves its loop
Succeed(w) == /\ Process(w, "success", "close")
              /\ status' = "init" /\ fetched' = 0 /\ failed' = 0
              /\ UNCHANGED <<links, digest, flash, msg, addr>>

GiveUp(w) == /\ \E s \in {"mismatch", "timeout", "recverror"} : Process(w, s, "fail")
             /\ status' = "init" /\ fetched' = 0 /\ failed' = 0
             /\ UNCHANGED <<links, digest, flash, msg, addr>>

\* aiot_mqtt_download_deinit, g_dl_handle = NULL, iap_deinit
Close(w) == /\ pc[w] = "close"
            /\ status' = "null"
            /\ writeAddr' = 0
            /\ Goto(w, "report")
            /\ UNCHANGED <<links, fetched, digest, failed, unlocked, bank, running, msg, addr>>

\* report_version blocks on the network, then boot_swap_bank: the option bytes
\* are loaded, which resets the device into the other bank
SwapBank(w) == /\ pc[w] = "report"
               /\ PowerUp
               /\ running' = IF bank = Image THEN "complete" ELSE "broken"
               /\ bank' = [s \in Slots |-> Torn]

\* the option bytes could not be programmed, or the download failed: iap_deinit
\* and ota_mcu_restart
Restart(w) == pc[w] \in {"report", "fail"} /\ Reset

-----------------------------------------------------------------------------
(* The server, and a reset from outside (watchdog, power, another task).   *)

ServerPushes == /\ Len(net) < MaxNet
                /\ net' = Append(net, Push)
                /\ UNCHANGED <<asks, session, flash, pc, msg, addr>>

\* a request past the end of the file is answered with an error
ServerReplies == /\ asks # <<>> /\ Len(net) < MaxNet
                 /\ \E r \in {Head(asks), Corrupt} :
                       /\ r \in 1..Blocks \cup {Corrupt}
                       /\ net' = Append(net, r)
                 /\ asks' = Tail(asks)
                 /\ UNCHANGED <<session, flash, pc, msg, addr>>

RequestLost == /\ asks # <<>>
               /\ asks' = Tail(asks)
               /\ UNCHANGED <<net, session, flash, pc, msg, addr>>

PowerLost == Reset

Handle(t) == \/ RefusePush(t) \/ IapInit(t) \/ OpenFails(t) \/ Open(t)
             \/ RefuseReply(t) \/ BadReply(t) \/ GoodReply(t)
             \/ Fetch(t) \/ Digest(t) \/ WriteRefused(t) \/ IapWrite(t)
             \/ FlashWrite(t) \/ Assign(t) \/ Finish(t)

Work(w) == \/ NothingReceived(w) \/ BeginFails(w) \/ Begin(w) \/ Wait(w) \/ Timeout(w) \/ Verify(w)
           \/ Succeed(w) \/ GiveUp(w) \/ Close(w) \/ SwapBank(w) \/ Restart(w)

Environment == ServerPushes \/ ServerReplies \/ RequestLost \/ PowerLost

Next == \/ \E t \in Threads : Take(t) \/ Handle(t)
        \/ \E w \in Workers : Work(w)
        \/ Environment

Spec == Init /\ [][Next]_vars

\* the OTA task is scheduled and its clock advances
Fairness == \A w \in Workers : /\ WF_vars(Take(w) \/ Handle(w) \/ Work(w))
                               /\ SF_vars(Timeout(w))
FairSpec == Spec /\ Fairness

-----------------------------------------------------------------------------
(* Properties.                                                             *)

\* Type invariant: the session's counters stay within the retry limit and the
\* bank's slots, whatever two threads do to them (aiot_mqtt_download_api.c).
TypeOK == /\ net \in Seq(1..Corrupt) /\ Len(net) <= MaxNet
          /\ asks \in Seq(1..(Blocks + Cardinality(Threads) + 1)) /\ Len(asks) <= MaxAsks
          /\ status \in Statuses
          /\ fetched \in 0..(Blocks + Cardinality(Threads))
          /\ digest \in Seq(1..Blocks)
          /\ failed \in 0..(MaxFailed + 1)
          /\ writeAddr \in Nat /\ unlocked \in BOOLEAN
          /\ bank \in [Slots -> Erased..Torn]
          /\ running \in {"complete", "broken"}
          /\ pc \in [Threads -> PCs]
          /\ msg \in [Threads -> 1..Corrupt]
          /\ addr \in [Threads -> Nat]

\* The device never boots an image that was not completely written: whatever is
\* lost, repeated or interrupted, boot_swap_bank (aliyun_ota.c) is only reached
\* with every block of the file in its slot of the alternate bank.
RunningIsComplete == running = "complete"

\* Between two blocks, what the session counts as received (size_fetched) is what the
\* alternate bank holds, in its place, with write_address after it, whatever was lost,
\* repeated or refused; or write_address is 0, and the next block restarts the device
\* (user_download_recv_handler).  The two counters are kept in files that do not know
\* of each other.
CountedIsWritten ==
    (status = "ing" /\ \A t \in Threads : pc[t] \notin InData) =>
        \/ writeAddr = 0
        \/ /\ writeAddr = fetched + 1
           /\ \A s \in Slots : bank[s] = IF s <= fetched THEN s ELSE Erased


\* Every upgrade ends, as the comments of aliyun_ota_task say ("wait for the download
\* result", line 208, "the upgrade has ended, normally or abnormally", line 258): the
\* code breaks it, a session that cannot begin is asked for its result for ever.
EveryUpgradeEnds == (\E w \in Workers : pc[w] # "none")
                        ~> (\A w \in Workers : pc[w] = "none")
=============================================================================
