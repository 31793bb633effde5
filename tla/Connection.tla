----------------------------- MODULE Connection -----------------------------
(***************************************************************************)
(* The connection to the cloud: iot_connect brings it up (iot_helper.c,    *)
(* aliyun_protocol.c), the process and recv threads and the tasks that     *)
(* publish share one session (aiot_mqtt_api.c), whose socket breaks, is    *)
(* closed by whoever notices and opened again by the recv thread.          *)
(*                                                                         *)
(* A call of the session's API is a sequence of stages.  A stage takes its *)
(* mutexes one by one, acts and releases them.  exec_enabled is read       *)
(* before the call is counted.  One start of the device is modelled after  *)
(* the other; the session's memory after aiot_mqtt_deinit is taken to keep *)
(* its contents, one of the outcomes of using it.                          *)
(***************************************************************************)
EXTENDS Naturals, Sequences, FiniteSets

CONSTANTS Senders,     \* tasks that publish once the device is on line
          MaxLost,     \* CORE_MQTT_DEFAULT_HEARTBEAT_MAX_LOST_TIMES
          RetryCount,  \* RETRY_COUNT
          MaxRegister, \* attempts of dynamic_register
          Faults,      \* what may go wrong, see below
          MaxHarm      \* bound: faults in one start, refused connections apart

ASSUME ConnectionAssumption ==
    /\ MaxLost \in Nat /\ RetryCount \in Nat \ {0} /\ MaxRegister \in Nat \ {0}
    /\ MaxHarm \in Nat
    /\ Senders \cap {"main", "process", "recv", "nobody"} = {} /\ IsFiniteSet(Senders)
    /\ Faults \subseteq {"break",    \* sending on the socket fails from now on
                         "silence",  \* what is sent gets lost, nothing comes
                         "refuse",   \* a connection or a registration fails
                         "torn",     \* a packet is cut short or makes no sense
                         "memory"}   \* a thread, a client, a subscription cannot be created

Threads == {"main", "process", "recv"} \cup Senders
Mutexes == {"data", "send", "recv"}

VARIABLES main,       \* where iot_connect is
          tries,      \* attempts to connect or to register
          registered, \* there is a device secret in the EEPROM
          alive,      \* threads that exist
          running,    \* g_mqtt_process_thread_running, g_mqtt_recv_thread_running
          plan,       \* stages the thread's call still has
          wants,      \* mutexes the first of them has still to take
          owner,      \* of each mutex
          result,     \* what the thread's last call returned
          enabled,    \* exec_enabled
          count,      \* exec_count
          dropped,    \* disconnect_api_called
          freed,      \* aiot_mqtt_deinit has freed the session
          leaked,     \* history: calls that were counted and never will be taken off again
          net,        \* network_handle and how its socket does
          lostTimes,  \* heartbeat_params.lost_times
          answer,     \* something from the server has come
          recent,     \* there was an attempt to reconnect, perhaps within the interval
          up,         \* FALSE: mcu_restart was called
          harm        \* faults since the start

session == <<enabled, count, dropped, freed, leaked, lostTimes>>
link == <<net, answer, harm>>
calls == <<plan, wants, owner, result>>
start == <<main, tries, registered, alive, running, up>>
vars == <<start, calls, session, link, recent>>

Init == /\ main = "boot" /\ tries = 0 /\ registered \in BOOLEAN
        /\ alive = {"main"} /\ running = FALSE /\ up = TRUE
        /\ plan = [t \in Threads |-> <<>>] /\ wants = [t \in Threads |-> <<>>]
        /\ owner = [m \in Mutexes |-> "nobody"] /\ result = [t \in Threads |-> "ok"]
        /\ enabled = TRUE /\ count = 0 /\ dropped = FALSE /\ freed = FALSE
        /\ leaked = 0 /\ lostTimes = 0
        /\ net = "none" /\ answer = FALSE /\ harm = 0
        /\ recent = FALSE

-----------------------------------------------------------------------------
(* Calls.                                                                  *)

\* Mutant of Needs: the socket is closed under the mutexes in the other order
NeedsSwapped(stage) ==
    CASE stage \in {"send", "beat"} -> <<"send">>
      [] stage = "read" -> <<"recv">>
      [] stage = "connect" -> <<"send", "recv">>
      [] stage = "close" -> <<"recv", "send">>
      [] stage = "reconnect" -> <<"data", "send", "recv">>
      [] OTHER -> <<>>

\* Mutant of Needs: a socket is closed while the recv thread may read from it
NeedsLess(stage) ==
    CASE stage \in {"send", "beat", "close"} -> <<"send">>
      [] stage = "read" -> <<"recv">>
      [] stage = "connect" -> <<"send", "recv">>
      [] stage = "reconnect" -> <<"data", "send", "recv">>
      [] OTHER -> <<>>

\* the mutexes a stage holds for more than an assignment, in the order it takes them
Needs(stage) ==
    CASE stage \in {"send", "beat"} -> <<"send">>
      [] stage = "read" -> <<"recv">>
      [] stage \in {"connect", "close"} -> <<"send", "recv">>
      [] stage = "reconnect" -> <<"data", "send", "recv">>
      [] OTHER -> <<>>

Fault(kind) == kind \in Faults /\ harm < MaxHarm

Ready(t) == plan[t] # <<>> /\ wants[t] = <<>>
At(t, stage) == Ready(t) /\ Head(plan[t]) = stage
Free(t) == up /\ t \in alive /\ plan[t] = <<>>

Follow(t, stages) == /\ plan' = [plan EXCEPT ![t] = stages]
                     /\ wants' = [wants EXCEPT ![t] = IF stages = <<>> THEN <<>>
                                                      ELSE Needs(Head(stages))]

\* a call begins with the look at exec_enabled
Call(t, stages) ==
    IF enabled THEN Follow(t, <<"enter">> \o stages) /\ result' = [result EXCEPT ![t] = "ok"]
               ELSE result' = [result EXCEPT ![t] = "disabled"] /\ UNCHANGED <<plan, wants>>

Acquire(t) == /\ up /\ wants[t] # <<>>
              /\ owner[Head(wants[t])] = "nobody"
              /\ owner' = [owner EXCEPT ![Head(wants[t])] = t]
              /\ wants' = [wants EXCEPT ![t] = Tail(@)]
              /\ UNCHANGED <<plan, result, start, session, link, recent>>

\* the stage is over: its mutexes are released and the stages go on
Release(t) == owner' = [m \in Mutexes |-> IF owner[m] = t THEN "nobody" ELSE owner[m]]
Done(t) == Release(t) /\ Follow(t, Tail(plan[t])) /\ UNCHANGED result
\* an error only matters to the two threads that look at it
DoneWith(t, stages, res) ==
    /\ Release(t) /\ Follow(t, stages)
    /\ result' = IF t \in {"main", "recv"} THEN [result EXCEPT ![t] = res] ELSE result

\* _core_mqtt_exec_inc, _core_mqtt_exec_dec: data_mutex for one assignment
Enter(t) == /\ At(t, "enter") /\ up
            /\ owner["data"] = "nobody"
            /\ count' = count + 1
            /\ Done(t)
            /\ UNCHANGED <<start, enabled, dropped, freed, leaked, lostTimes, link, recent>>

Leave(t) == /\ At(t, "leave") /\ up
            /\ owner["data"] = "nobody"
            /\ count' = count - 1
            /\ Done(t)
            /\ UNCHANGED <<start, enabled, dropped, freed, leaked, lostTimes, link, recent>>

\* _core_mqtt_write, under send_mutex, which an error leaves before it comes back
\* with both mutexes to close the socket
Write(t) == /\ up /\ (At(t, "send") \/ At(t, "beat"))
            /\ IF net \in {"none", "broken"}
               THEN DoneWith(t, <<"close">> \o Tail(plan[t]), "error") /\ UNCHANGED answer
               ELSE Done(t) /\ answer' \in {answer, net = "open"}
            /\ UNCHANGED <<start, session, net, harm, recent>>

\* Mutant of CountBeat: a heartbeat is not counted as unanswered
CountNoBeat == /\ At("process", "count") /\ up
               /\ Done("process")
               /\ UNCHANGED <<start, session, link, recent>>

\* every heartbeat counts as unanswered until something comes; more than
\* MaxLost + 1 are not told apart
CountBeat == /\ At("process", "count") /\ up
             /\ lostTimes' = IF lostTimes <= MaxLost THEN lostTimes + 1 ELSE lostTimes
             /\ Done("process")
             /\ UNCHANGED <<start, enabled, count, dropped, freed, leaked, link, recent>>

Close(t) == /\ At(t, "close") /\ up
            /\ net' = "none" /\ answer' = FALSE
            /\ Done(t)
            /\ UNCHANGED <<start, session, harm, recent>>

\* _core_mqtt_connect closes an open socket before it opens another, and leaves one
\* open on which the server's answer was missing, cut short or not understood
Opens(ok) == /\ ok \/ "refuse" \in Faults
             /\ net' \in IF ok THEN {"open"} ELSE {"none", "silent", "broken"}
             /\ answer' = FALSE
             /\ harm' = IF ok THEN harm ELSE harm + 1

\* aiot_mqtt_connect, and aiot_mqtt_recv when heartbeats stay unanswered
Connect(t, ok) ==
    /\ At(t, "connect") /\ up
    /\ Opens(ok)
    /\ lostTimes' = IF ok /\ t = "recv" THEN 0 ELSE lostTimes
    /\ IF ok THEN Done(t) ELSE DoneWith(t, <<"leave">>, "error")
    /\ UNCHANGED <<start, enabled, count, dropped, freed, leaked, recent>>

-----------------------------------------------------------------------------
(* aiot_mqtt_recv.                                                         *)

\* network_handle is looked at without a mutex
LookForSocket == /\ At("recv", "look") /\ up
                 /\ LET rest == Tail(plan["recv"]) IN
                    Follow("recv", IF net = "none" /\ ~dropped THEN <<"reconnect">> \o rest
                                                              ELSE rest)
                 /\ UNCHANGED <<owner, result, start, session, link, recent>>

\* _core_mqtt_reconnect: too early is an error like a failure
Reconnect(ok) ==
    /\ At("recv", "reconnect") /\ up
    /\ Opens(ok) \/ (recent /\ ~ok /\ UNCHANGED link)
    /\ recent' = TRUE
    /\ lostTimes' = IF ok THEN 0 ELSE lostTimes
    /\ IF ok THEN Done("recv") ELSE DoneWith("recv", <<"leave">>, "error")
    /\ UNCHANGED <<start, enabled, count, dropped, freed, leaked>>

LookForBeats == /\ At("recv", "beats") /\ up
                /\ LET rest == Tail(plan["recv"]) IN
                   Follow("recv", IF lostTimes > MaxLost /\ ~dropped THEN <<"connect">> \o rest
                                                                     ELSE rest)
                /\ UNCHANGED <<owner, result, start, session, link, recent>>

\* Mutant of ReadNothing: a timeout is an error
ReadTimeout == /\ At("recv", "read") /\ up
               /\ ~answer
               /\ DoneWith("recv", <<"leave", "close">>, "error")
               /\ UNCHANGED <<start, session, link, recent>>

\* Mutant of ReadNothing: the call is taken off exec_count twice
ReadLeavesTwice == /\ At("recv", "read") /\ up
                   /\ ~answer
                   /\ IF net = "none" THEN DoneWith("recv", <<"leave", "close", "leave">>, "error")
                                      ELSE Done("recv")
                   /\ UNCHANGED <<start, session, link, recent>>

\* without a packet the call succeeds, without a socket it fails: then it is over
\* for exec_count before the socket is closed
ReadNothing == /\ At("recv", "read") /\ up
               /\ ~answer
               /\ IF net = "none" THEN DoneWith("recv", <<"leave", "close">>, "error")
                                  ELSE Done("recv")
               /\ UNCHANGED <<start, session, link, recent>>

\* any packet that arrives whole shows that the connection lives, also one of an
\* unknown type or one its handler refuses, which like a torn one closes the socket
ReadPacket(how) == /\ At("recv", "read") /\ up
                   /\ answer
                   /\ how = "whole" \/ Fault("torn")
                   /\ answer' = FALSE
                   /\ harm' = IF how = "whole" THEN harm ELSE harm + 1
                   /\ lostTimes' = IF how = "torn" THEN lostTimes ELSE 0
                   /\ IF how = "whole" THEN Done("recv")
                                       ELSE DoneWith("recv", <<"close", "leave">>, "error")
                   /\ UNCHANGED <<start, enabled, count, dropped, freed, leaked, net, recent>>

Stage(t) == \/ Enter(t) \/ Leave(t) \/ Write(t) \/ Close(t)
            \/ \E ok \in BOOLEAN : Connect(t, ok)
            \/ /\ t = "process"
               /\ CountBeat
            \/ /\ t = "recv"
               /\ \/ LookForSocket \/ LookForBeats \/ ReadNothing
                  \/ \E ok \in BOOLEAN : Reconnect(ok)
                  \/ \E how \in {"whole", "torn", "refused"} : ReadPacket(how)

-----------------------------------------------------------------------------
(* The threads.                                                            *)

\* aliyun_mqtt_process_thread: a heartbeat when it is due.  Nothing is repeated, the
\* firmware publishes with QoS 0.
Process(beat) ==
    /\ Free("process")
    /\ IF running /\ result["process"] # "disabled"
       THEN /\ Call("process", (IF beat THEN <<"beat", "count">> ELSE <<>>) \o <<"leave">>)
            /\ UNCHANGED alive
       ELSE /\ alive' = alive \ {"process"}
            /\ UNCHANGED <<plan, wants, result>>
    /\ UNCHANGED <<main, tries, registered, running, up, owner, session, link, recent>>

RecvCall == <<"look", "beats", "read", "leave">>

\* aliyun_mqtt_recv_thread: any error but the session's end restarts the device,
\* after an attempt to report it
Recv == /\ Free("recv")
        /\ CASE result["recv"] = "error" /\ enabled ->
                  /\ Call("recv", <<"send", "leave", "restart">>)
                  /\ UNCHANGED <<alive, up>>
             [] result["recv"] = "error" /\ ~enabled ->
                  /\ up' = FALSE
                  /\ UNCHANGED <<plan, wants, result, alive>>
             [] result["recv"] # "error" /\ running /\ result["recv"] # "disabled" ->
                  /\ Call("recv", RecvCall)
                  /\ UNCHANGED <<alive, up>>
             [] OTHER -> /\ alive' = alive \ {"recv"}
                         /\ UNCHANGED <<plan, wants, result, up>>
        /\ UNCHANGED <<main, tries, registered, running, owner, session, link, recent>>

RecvRestarts == /\ At("recv", "restart") /\ up
                /\ up' = FALSE
                /\ UNCHANGED <<main, tries, registered, alive, running, calls, session, link, recent>>

\* iot_send_task and the tasks that report: nothing before iot_connect is through
Publish(s) == /\ s \in Senders /\ Free(s)
              /\ Call(s, <<"send", "leave">>)
              /\ UNCHANGED <<owner, start, session, link, recent>>

-----------------------------------------------------------------------------
(* iot_connect's task.                                                     *)

MainAt(place) == main = place /\ Free("main")
GoTo(place) == main' = place
NoCall == UNCHANGED <<calls, session, link, recent>>

\* a device without a secret registers; a session that cannot be created leaves
\* the device off line
Boot == /\ MainAt("boot")
        /\ \/ GoTo(IF registered THEN "connect" ELSE "register") /\ UNCHANGED harm
           \/ Fault("memory") /\ registered /\ GoTo("offline") /\ harm' = harm + 1
        /\ UNCHANGED <<tries, registered, alive, running, up, calls, session, net, answer, recent>>

\* attempts at dynamic_register, and a restart whatever came of them
Register(ok) == /\ MainAt("register")
                /\ ok \/ "refuse" \in Faults
                /\ registered' = ok
                /\ tries' = tries + 1
                /\ up' = ~(ok \/ tries' = MaxRegister)
                /\ UNCHANGED <<main, alive, running>> /\ NoCall

StartConnect == /\ MainAt("connect")
                /\ GoTo("connecting")
                /\ Call("main", <<"connect", "leave">>)
                /\ UNCHANGED <<tries, registered, alive, running, up, owner, session, link, recent>>

Connected == /\ MainAt("connecting")
             /\ IF result["main"] = "ok" THEN GoTo("process") /\ tries' = 0 /\ UNCHANGED up
                ELSE /\ GoTo("connect")
                     /\ tries' = tries + 1
                     /\ up' = (tries' < RetryCount)
             /\ UNCHANGED <<registered, alive, running>> /\ NoCall

\* xTaskCreate fails: deinit, which the restart outruns, and restart
Create(t, next) == /\ MainAt(t)
                   /\ \/ /\ alive' = alive \cup {t} /\ running' = TRUE
                         /\ GoTo(next) /\ UNCHANGED <<up, harm>>
                      \/ /\ Fault("memory")
                         /\ up' = FALSE /\ harm' = harm + 1
                         /\ UNCHANGED <<main, alive, running>>
                   /\ UNCHANGED <<tries, registered, calls, session, net, answer, recent>>

\* the subscription, whose result nobody looks at
Subscribe == /\ MainAt("subscribe")
             /\ GoTo("ntp")
             /\ Call("main", <<"insert", "send", "leave">>)
             /\ UNCHANGED <<tries, registered, alive, running, up, owner, session, link, recent>>

\* _core_mqtt_sub returns without _core_mqtt_exec_dec when the list has no memory
Insert == /\ At("main", "insert") /\ up
          /\ \/ Done("main") /\ UNCHANGED <<leaked, harm>>
             \/ /\ Fault("memory") /\ harm' = harm + 1
                /\ leaked' = leaked + 1
                /\ DoneWith("main", <<>>, "error")
          /\ UNCHANGED <<start, enabled, count, dropped, freed, lostTimes, net, answer, recent>>

\* NTP request, GET of the shadow
Send(place, next) == /\ MainAt(place)
                     /\ GoTo(next)
                     /\ Call("main", <<"send", "leave">>)
                     /\ UNCHANGED <<tries, registered, alive, running, up, owner, session, link, recent>>

\* aliyun_mqtt_stop when the NTP request was not sent or a client not created
Stops == /\ running' = FALSE /\ GoTo("stopped")
         /\ Call("main", <<"drop", "send", "close", "leave">>)
Clients == /\ MainAt("clients")
           /\ \/ /\ result["main"] = "ok" /\ GoTo("get")
                 /\ UNCHANGED <<running, plan, wants, result, harm>>
              \/ result["main"] # "ok" /\ Stops /\ UNCHANGED harm
              \/ Fault("memory") /\ Stops /\ harm' = harm + 1
           /\ UNCHANGED <<tries, registered, alive, up, owner, session, net, answer, recent>>

Drop == /\ At("main", "drop") /\ up
        /\ dropped' = TRUE
        /\ Done("main")
        /\ UNCHANGED <<start, enabled, count, freed, leaked, lostTimes, link, recent>>

Deinit == /\ MainAt("stopped")
          /\ GoTo("waiting")
          /\ enabled' = FALSE
          /\ UNCHANGED <<tries, registered, alive, running, up, calls,
                         count, dropped, freed, leaked, lostTimes, link, recent>>

\* the session is freed when no call is counted, else left after two seconds
Wait == /\ MainAt("waiting")
        /\ GoTo("offline")
        /\ freed' = (count = 0)
        /\ net' = IF count = 0 THEN "none" ELSE net
        /\ UNCHANGED <<tries, registered, alive, running, up, calls,
                       enabled, count, dropped, leaked, lostTimes, answer, harm, recent>>

Online == /\ MainAt("got")
          /\ GoTo("online")
          /\ alive' = (alive \ {"main"}) \cup Senders
          /\ result' = [result EXCEPT !["main"] = "ok"]
          /\ UNCHANGED <<tries, registered, running, up, plan, wants, owner, session, link, recent>>

Main == \/ Boot \/ StartConnect \/ Connected
        \/ \E ok \in BOOLEAN : Register(ok)
        \/ Create("process", "recv") \/ Create("recv", "subscribe")
        \/ Subscribe \/ Insert \/ Send("ntp", "clients")
        \/ Clients \/ Send("get", "got") \/ Online
        \/ Drop \/ Deinit \/ Wait

-----------------------------------------------------------------------------
(* Surroundings.                                                           *)

LinkFails(how) == /\ net = "open" /\ up
                  /\ net' = how /\ harm' = harm + 1
                  /\ answer' = (answer /\ how = "broken")
                  /\ UNCHANGED <<start, calls, session, recent>>

Reboot == /\ ~up
          /\ main' = "boot" /\ tries' = 0 /\ UNCHANGED registered
          /\ alive' = {"main"} /\ running' = FALSE /\ up' = TRUE
          /\ plan' = [t \in Threads |-> <<>>] /\ wants' = [t \in Threads |-> <<>>]
          /\ owner' = [m \in Mutexes |-> "nobody"] /\ result' = [t \in Threads |-> "ok"]
          /\ enabled' = TRUE /\ count' = 0 /\ dropped' = FALSE /\ freed' = FALSE
          /\ leaked' = 0 /\ lostTimes' = 0
          /\ net' = "none" /\ answer' = FALSE /\ harm' = 0
          /\ recent' = FALSE

ThreadStep(t) == \/ Stage(t)
                 \/ t = "process" /\ \E beat \in BOOLEAN : Process(beat)
                 \/ t = "recv" /\ (Recv \/ RecvRestarts)
                 \/ t = "main" /\ Main

Next == \/ \E t \in Threads : Acquire(t) \/ ThreadStep(t)
        \/ \E s \in Senders : Publish(s)
        \/ Fault("break") /\ LinkFails("broken")
        \/ Fault("silence") /\ LinkFails("silent")
        \/ Reboot

\* A mutex that is released again and again is got in the end: the recv thread
\* sleeps between its calls, the tasks of higher priority for seconds.
Spec == /\ Init /\ [][Next]_vars
        /\ \A t \in Threads \ {"main"} : /\ WF_vars(ThreadStep(t))
                                        /\ SF_vars(Acquire(t) \/ Enter(t) \/ Leave(t))
        /\ SF_vars(Process(TRUE))

-----------------------------------------------------------------------------
(* Properties.                                                             *)

\* Type invariant, and exec_count counts the calls between their two stages, and for
\* good each subscription that found no memory (aiot_mqtt_api.c:2311).
TypeOK == /\ main \in {"boot", "register", "connect", "connecting", "process", "recv",
                       "subscribe", "ntp", "clients", "get", "got", "online",
                       "stopped", "waiting", "offline"}
          /\ tries \in 0..(RetryCount + MaxRegister)
          /\ {registered, running, enabled, dropped, freed, answer,
              recent, up} \subseteq BOOLEAN
          /\ alive \subseteq Threads
          /\ owner \in [Mutexes -> Threads \cup {"nobody"}]
          /\ result \in [Threads -> {"ok", "error", "disabled"}]
          /\ net \in {"none", "open", "silent", "broken"}
          /\ lostTimes \in 0..(MaxLost + 1)
          /\ harm \in Nat
          /\ count = leaked + Cardinality({t \in Threads : \E i \in 1..Len(plan[t]) :
                /\ plan[t][i] = "leave" /\ plan[t][1] # "enter"})

\* The socket and its receive ring are opened and freed by one thread while no
\* other sends on it, reads from it or opens it: nwk_connect and nwk_close, which
\* lock nothing themselves (aiot_at_api.c:504, 645), rely on the session's mutexes.
UsesSocket(t) == Ready(t) /\ Head(plan[t]) \in {"send", "beat", "read", "connect", "close", "reconnect"}
NetExclusive == \A t, u \in Threads :
    t # u /\ UsesSocket(t) /\ UsesSocket(u)
      => /\ Head(plan[t]) \in {"send", "beat", "read"} /\ Head(plan[u]) \in {"send", "beat", "read"}
         /\ ~(Head(plan[t]) = "read" /\ Head(plan[u]) = "read")

\* A device whose connection suffered no fault does not restart: neither a read
\* that finds nothing, nor threads that meet on the socket, look like a failure
\* (aliyun_protocol.c:166-182 restarts on any error of aiot_mqtt_recv).
RestartHasCause == ~up => harm > 0 \/ main = "register"

\* The threads never wait for one another in a circle for the session's mutexes.
Waits(t, others) == wants[t] # <<>> /\ owner[Head(wants[t])] \in others
NoCircle == \A ts \in (SUBSET Threads) \ {{}} : \E t \in ts : ~Waits(t, ts)

\* A connection that no longer carries anything is noticed, by a failing send or by
\* unanswered heartbeats, and replaced, or the device restarts, or it was just
\* being stopped.
LossHandled == (main = "online" /\ net # "open") ~> (net = "open" \/ ~up)
=============================================================================
