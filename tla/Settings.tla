------------------------------ MODULE Settings ------------------------------
(***************************************************************************)
(* The settings in the EEPROM (storage.c, at24c64.c, device_info.c,        *)
(* gnss_settings.c) and the tasks that use them: app_main initialises the  *)
(* storage, the configuration port's task executes commands, iot_connect's *)
(* task registers the device and the recv thread stores what the shadow    *)
(* asks for.  They share the bus without a mutex (Tick), and the power may *)
(* be cut between any two pages.                                           *)
(*                                                                         *)
(* A page is written whole or not at all.  Cells, in the order of their    *)
(* addresses: metadata (its end shares a page with the name, and says      *)
(* nothing), the device's name, its secret and the GNSS settings.  The     *)
(* secret has 64 bytes of which the second page is taken to stay zero.     *)
(***************************************************************************)
EXTENDS Tick, Sequences

CONSTANTS Imei,      \* the name of a device that was not given one
          OtherName, \* one that the configuration port gives it
          Choices,   \* GNSS settings
          Cleared,   \* zeroes
          Old,       \* data of another layout, or of a factory-new EEPROM
          MaxCuts,   \* bound: power cuts
          MaxSets    \* bound: SET commands and changes of the shadow

Valid == "valid"  \* STORAGE_DEVICE_INIT_FLAG and STORAGE_METADATA_VERSION
Names == {Imei, OtherName}

ASSUME SettingsAssumption ==
    /\ Tasks = {"main", "config", "conn", "recv"}
    /\ Imei # OtherName /\ Cleared # Old
    /\ {Cleared, Old} \cap (Names \cup Choices) = {}
    /\ {Valid, "read"} \cap (Names \cup Choices \cup {Cleared, Old}) = {}
    /\ MaxCuts \in Nat /\ MaxSets \in Nat

VARIABLES cell,    \* what the EEPROM holds
          todo,    \* pages the task's access still has to write or read
          place,   \* where the task is
          name,    \* device_name of get_device_name, Cleared while there is none
          last,    \* of each record: what was written whole last
          torn,    \* records of which a write was cut short
          cuts, sets

store == <<cell, last, torn, cuts, sets>>
vars == <<tick, todo, place, name, store>>

Cells == {"meta", "name", "secret", "gnss"}
Pages == [device |-> <<"name", "secret">>, gnss |-> <<"gnss">>]
Records == {"device", "gnss"}

Start == /\ place = [t \in Tasks |-> "start"]
         /\ todo = [t \in Tasks |-> <<>>]
         /\ name = Cleared

Init == /\ TickInit("main") /\ Start
        /\ \/ /\ cell = [c \in Cells |-> Old]
              /\ last = [r \in Records |-> Cleared]
           \/ \E d \in Names \cup {Cleared}, g \in Choices \cup {Cleared} :
                /\ cell = [meta |-> Valid, name |-> d, secret |-> d, gnss |-> g]
                /\ last = [device |-> d, gnss |-> g]
        /\ torn = {} /\ cuts = 0 /\ sets = 0

-----------------------------------------------------------------------------
(* Accesses.                                                               *)

Write(c, v) == [cell |-> c, value |-> v]
Read(c) == [cell |-> c, value |-> "read"]

\* eeprom_write: page after page
WriteRecord(r, v) == [i \in 1..Len(Pages[r]) |-> Write(Pages[r][i], v)]
ReadRecord(r) == [i \in 1..Len(Pages[r]) |-> Read(Pages[r][i])]

RecordOf(c) == IF c = "gnss" THEN "gnss" ELSE "device"

\* the task has the processor and is in no access
Runs(t, where) == cpu = t /\ todo[t] = <<>> /\ place[t] = where
Starts(t, pages, next) == /\ todo' = [todo EXCEPT ![t] = pages]
                          /\ place' = [place EXCEPT ![t] = next]
GoesTo(t, next) == place' = [place EXCEPT ![t] = next] /\ UNCHANGED todo

Begin(t) == /\ todo[t] # <<>>
            /\ Access(t)
            /\ UNCHANGED <<todo, place, name, store>>

\* a page is written or read; with the last one the access is over
Page(t) == /\ cpu = t /\ t \in begun
           /\ LET page == Head(todo[t])
                  over == Len(todo[t]) = 1 IN
              /\ todo' = [todo EXCEPT ![t] = Tail(@)]
              /\ begun' = IF over THEN begun \ {t} ELSE begun
              /\ IF page.value = "read" THEN UNCHANGED <<cell, last, torn>>
                 ELSE /\ cell' = [cell EXCEPT ![page.cell] = page.value]
                      /\ IF over /\ page.cell # "meta"
                         THEN /\ last' = [last EXCEPT ![RecordOf(page.cell)] = page.value]
                              /\ torn' = torn \ {RecordOf(page.cell)}
                         ELSE UNCHANGED <<last, torn>>
           /\ UNCHANGED <<cpu, mode, left, ticking, place, name, cuts, sets>>

-----------------------------------------------------------------------------
(* app_main.                                                               *)

\* Mutant of Erase: the metadata is rewritten at once
EraseMarked == << Write("meta", Valid), Write("name", Cleared), Write("secret", Cleared),
                  Write("gnss", Cleared), Read("meta") >>

\* storage_install_interface: everything is erased from the first page on, the
\* metadata says so last
Erase == << Write("meta", Cleared), Write("name", Cleared), Write("secret", Cleared),
            Write("gnss", Cleared), Write("meta", Valid) >>

Install == /\ Runs("main", "start")
           /\ Starts("main", IF cell["meta"] = Valid THEN <<Read("meta")>> ELSE Erase, "created")
           /\ UNCHANGED <<tick, name, store>>

CreateTasks == /\ Runs("main", "created")
               /\ Leave("main", "absent", {"config", "conn"})
               /\ UNCHANGED <<todo, place, name, store>>

-----------------------------------------------------------------------------
(* The configuration port.                                                 *)

Set(r, v) == sets < MaxSets /\ sets' = sets + 1 /\ Starts("config", WriteRecord(r, v), "start")

\* uart_config_task has a line: a command on a record, RESTART is below
Command == /\ Runs("config", "line")
           /\ \/ \E r \in Records : Starts("config", ReadRecord(r), "start") /\ UNCHANGED sets
              \/ \E d \in {OtherName, Cleared} : Set("device", d)
              \/ \E g \in Choices : Set("gnss", g)
              \/ GoesTo("config", "start") /\ UNCHANGED sets
           /\ UNCHANGED <<tick, name, cell, last, torn, cuts>>

\* xStreamBufferReceive
WaitForLine == /\ Runs("config", "start")
               /\ GoesTo("config", "line")
               /\ Leave("config", "waiting", {})
               /\ UNCHANGED <<name, store>>

\* while a download runs (g_app_upgrade_flag) the task only sleeps
BackOff == /\ Runs("config", "start")
           /\ \E n \in 2..MaxSleep : Sleep("config", n)
           /\ UNCHANGED <<todo, place, name, store>>

Line == /\ WakeFromISR("config")
        /\ UNCHANGED <<todo, place, name, store>>

-----------------------------------------------------------------------------
(* Registration.                                                           *)

Registered == cell["secret"] \notin {Cleared, Old}

\* aliyun_iot_connect: the device's name, which is the modem's IMEI, if it tells it,
\* when none was given, and whether there is a secret
Look == /\ Runs("conn", "start")
        /\ Starts("conn", ReadRecord("device"), "decide")
        /\ name' \in IF name # Cleared THEN {name}
                     ELSE IF cell["name"] \in {Cleared, Old} THEN {Imei, Cleared}
                     ELSE {cell["name"]}
        /\ UNCHANGED <<tick, store>>

Decide == /\ Runs("conn", "decide")
          /\ IF Registered
             THEN Leave("conn", "absent", {"recv"}) /\ GoesTo("conn", "online")
             ELSE /\ GoesTo("conn", "answer")
                  /\ \E n \in 2..MaxSleep : Sleep("conn", n)
          /\ UNCHANGED <<name, store>>

\* dynreg_mq_recv_handler stores the secret under the device's name; a device without
\* one gets no secret
Answer == /\ Runs("conn", "answer")
          /\ \/ name # Cleared /\ Starts("conn", WriteRecord("device", name), "restart")
             \/ GoesTo("conn", "restart")
          /\ UNCHANGED <<tick, name, store>>

-----------------------------------------------------------------------------
(* The recv thread.                                                        *)

\* core_recv_handler of the shadow writes new settings, else the thread sleeps
Shadow == /\ Runs("recv", "start")
          /\ sets < MaxSets /\ sets' = sets + 1
          /\ \E g \in Choices : Starts("recv", WriteRecord("gnss", g), "stored")
          /\ UNCHANGED <<tick, name, cell, last, torn, cuts>>

Pause == /\ \/ Runs("recv", "start") /\ UNCHANGED <<todo, place>>
            \/ Runs("recv", "stored") /\ GoesTo("recv", "start")
         /\ \E n \in 2..MaxSleep : Sleep("recv", n)
         /\ UNCHANGED <<name, store>>

-----------------------------------------------------------------------------
(* Restarts.                                                               *)

Reset == /\ TickReset("main")
         /\ place' = [t \in Tasks |-> "start"]
         /\ todo' = [t \in Tasks |-> <<>>]
         /\ name' = Cleared

\* RESTART, SWAPBANK and UPGRADE, and the end of a registration, whatever other
\* tasks are doing
Restart == /\ Runs("config", "line") \/ Runs("conn", "restart")
           /\ Reset
           /\ UNCHANGED store

Writing(t, r) == /\ t \in begun
                 /\ Head(todo[t]).value # "read" /\ RecordOf(Head(todo[t]).cell) = r
                 /\ t # "main"

PowerCut == /\ cuts < MaxCuts /\ cuts' = cuts + 1
            /\ torn' = torn \cup {r \in Records : \E t \in Tasks : Writing(t, r)}
            /\ Reset
            /\ UNCHANGED <<cell, last, sets>>

-----------------------------------------------------------------------------

Step(t) == \/ Begin(t) \/ Page(t)
           \/ t = "main" /\ (Install \/ CreateTasks)
           \/ t = "config" /\ (Command \/ WaitForLine \/ BackOff)
           \/ t = "conn" /\ (Look \/ Decide \/ Answer)
           \/ t = "recv" /\ (Shadow \/ Pause)

Timer == (TickInterrupt \/ Suppress) /\ UNCHANGED <<todo, place, name, store>>

Next == (\E t \in Tasks : Step(t)) \/ Timer \/ Line \/ Restart \/ PowerCut

\* A task on the processor goes on until it gives it up; between two lines of the
\* port the idle task runs and a tick passes.
Spec == /\ Init /\ [][Next]_vars
        /\ \A t \in Tasks : WF_vars(Step(t))
        /\ WF_vars(Runs("conn", "restart") /\ Restart)
        /\ SF_vars(Suppress /\ Timer) /\ SF_vars(TickInterrupt /\ Timer)

-----------------------------------------------------------------------------
(* Properties.                                                             *)

\* once the storage counts as initialised it holds nothing from before
NoOldData == cell["meta"] = Valid => \A c \in Cells : cell[c] # Old

\* what was acknowledged is what is read, over restarts whatever they interrupt
LastSetKept == cell["meta"] = Valid =>
    \A r \in Records \ torn :
        (\A t \in Tasks : ~Writing(t, r))
          => \A i \in 1..Len(Pages[r]) : cell[Pages[r][i]] = last[r]

\* a device that takes itself for registered has the name its secret belongs to
RegistrationWhole == Registered /\ cell["meta"] = Valid =>
    \/ cell["name"] = cell["secret"]
    \/ "device" \in torn /\ last["device"] # Cleared
    \/ \E t \in Tasks : Writing(t, "device")

\* The EEPROM holds what was stored: a power cut during the first initialisation
\* leaves nothing of an earlier layout behind (storage.c:55-64), a record that was
\* written and acknowledged is kept whole, by every restart and by power cuts
\* outside its own write, and a cut during the first registration leaves a device
\* that registers again; only cutting the write over a registration may not.
StoredWhole == NoOldData /\ LastSetKept /\ RegistrationWhole
=============================================================================
