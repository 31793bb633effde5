-------------------------------- MODULE Tick --------------------------------
(***************************************************************************)
(* The scheduler's tick and the busy delays of the EEPROM driver.          *)
(*                                                                         *)
(* delay_us (mcu.c) counts with SysTick, which is the scheduler's tick     *)
(* timer too, and leaves it switched off.  From then on no tick interrupt  *)
(* takes the processor from a task, and no sleep gets shorter, until the   *)
(* idle task suppresses the tick for two ticks or more (tasks.c, port.c):  *)
(* that programs the timer anew.                                           *)
(*                                                                         *)
(* Everything is measured in ticks; a suppressed period is one tick after  *)
(* the other.  A task's steps are in the module that extends this one.     *)
(***************************************************************************)
EXTENDS Naturals, FiniteSets

CONSTANTS Tasks,
          Prio,     \* of each task, 0 is the idle task's own
          MaxSleep  \* bound: ticks a task sleeps

ASSUME TickAssumption == /\ IsFiniteSet(Tasks) /\ "idle" \notin Tasks
                         /\ Prio \in [Tasks -> Nat]
                         /\ MaxSleep \in Nat \ {0, 1}

VARIABLES cpu,      \* the task that runs
          mode,     \* what each task waits for
          left,     \* ticks until it wakes
          ticking,  \* SysTick runs with its interrupt
          begun     \* tasks inside an access to the EEPROM

tick == <<cpu, mode, left, ticking, begun>>

Modes == {"absent", "ready", "asleep", "waiting"}
Ready(m) == {t \in Tasks : m[t] = "ready"}
Asleep(m) == {t \in Tasks : m[t] = "asleep"}

\* The scheduler takes one of the ready tasks of the highest priority.
Choose(m) == IF Ready(m) = {} THEN {"idle"}
             ELSE {t \in Ready(m) : \A u \in Ready(m) : Prio[u] <= Prio[t]}

\* ec800m_init has called delay_ms before any other task exists
TickInit(first) == /\ cpu = first
                   /\ mode = [t \in Tasks |-> IF t = first THEN "ready" ELSE "absent"]
                   /\ left = [t \in Tasks |-> 0]
                   /\ ticking = FALSE
                   /\ begun = {}

\* a restart brings back
TickReset(first) == /\ cpu' = first
                    /\ mode' = [t \in Tasks |-> IF t = first THEN "ready" ELSE "absent"]
                    /\ left' = [t \in Tasks |-> 0]
                    /\ ticking' = FALSE
                    /\ begun' = {}

-----------------------------------------------------------------------------
(* A task that has the processor gives it up.                              *)

\* vTaskDelay
Sleep(t, n) == /\ cpu = t
               /\ mode' = [mode EXCEPT ![t] = "asleep"]
               /\ left' = [left EXCEPT ![t] = n]
               /\ cpu' \in Choose(mode')
               /\ UNCHANGED <<ticking, begun>>

\* becomes anything else, and the tasks it creates are ready
Leave(t, how, created) ==
    /\ cpu = t
    /\ mode' = [u \in Tasks |-> IF u = t THEN how
                                ELSE IF u \in created THEN "ready" ELSE mode[u]]
    /\ cpu' \in Choose(mode')
    /\ UNCHANGED <<left, ticking, begun>>

-----------------------------------------------------------------------------
(* The timer.                                                              *)

\* Mutant of Delay: the timer is put back as it was
DelayRestores(on) == on

\* SysTick->CTRL = 4
Delay(on) == FALSE

\* the first delay of an access
Access(t) == /\ cpu = t /\ t \notin begun
             /\ begun' = begun \cup {t}
             /\ ticking' = Delay(ticking)
             /\ UNCHANGED <<cpu, mode, left>>

\* xTaskIncrementTick, and the switch it asks for: also between equals
TickInterrupt == /\ ticking
                 /\ left' = [t \in Tasks |-> IF mode[t] = "asleep" THEN left[t] - 1 ELSE 0]
                 /\ mode' = [t \in Tasks |-> IF mode[t] = "asleep" /\ left'[t] = 0
                                             THEN "ready" ELSE mode[t]]
                 /\ cpu' \in Choose(mode')
                 /\ UNCHANGED <<ticking, begun>>

\* Mutant of LongIdle: configEXPECTED_IDLE_TIME_BEFORE_SLEEP is three
LongerIdle == Ready(mode) = {} /\ \A t \in Asleep(mode) : left[t] > 2

\* prvGetExpectedIdleTime is two ticks or more
LongIdle == Ready(mode) = {} /\ \A t \in Asleep(mode) : left[t] > 1

\* vPortSuppressTicksAndSleep
Suppress == /\ cpu = "idle" /\ ~ticking
            /\ LongIdle
            /\ ticking' = TRUE
            /\ UNCHANGED <<cpu, mode, left, begun>>

\* An interrupt makes a task ready and leaves the switch to the next tick.  Only
\* while the idle task has suspended the scheduler, to suppress the tick, is the
\* task run at once.
WakeFromISR(t) == /\ mode[t] = "waiting"
                  /\ mode' = [mode EXCEPT ![t] = "ready"]
                  /\ cpu' \in IF cpu = "idle" /\ LongIdle THEN {cpu, t} ELSE {cpu}
                  /\ UNCHANGED <<left, ticking, begun>>

-----------------------------------------------------------------------------
(* Properties.                                                             *)

\* No task reads or writes the EEPROM while another is in the middle of an access,
\* although no mutex guards the bus: while delay_us keeps the tick off nothing
\* takes the processor from a task that does not give it up (storage_iic.c).
RecordsApart == Cardinality(begun) <= 1

\* the tick is off and the idle task will not start it
TickLost == cpu = "idle" /\ ~ticking
            /\ (Ready(mode) # {} \/ \E t \in Tasks : mode[t] = "asleep" /\ left[t] = 1)

\* A task that sleeps wakes up, although every access to the EEPROM stops the clock,
\* unless the processor became idle with a wake-up due in the very next tick or
\* with a task made ready by an interrupt meanwhile: nothing but a reset helps then.
SleepsEnd == \A t \in Tasks :
    mode[t] = "asleep" ~> (mode[t] # "asleep" \/ TickLost)
=============================================================================
