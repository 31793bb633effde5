-------------------------------- MODULE Gnss --------------------------------
(***************************************************************************)
(* The receiver from the start of the device on: gnss_init (gnss.c) brings *)
(* the modem's options to the stored settings, switches the receiver on    *)
(* and creates gnss_task, whose policy is SendPolicy.                      *)
(*                                                                         *)
(* Two memories meet here.  The modem keeps its options over a restart,    *)
(* and some take effect only then; the firmware keeps what it read of them *)
(* in statics, where a failed or empty answer leaves the old value and a   *)
(* late answer to another command leaves that command's.                   *)
(***************************************************************************)
EXTENDS SendPolicy, Sequences

CONSTANTS Options,   \* the options in the order gnss_init visits them
          Delayed,   \* those that take effect when the modem restarts
          AutoGps,   \* the one that switches the receiver on at that moment
          MaxRetry,  \* GNSS_MAX_RETRY
          MaxCuts    \* bound: restarts while gnss_init is at work

ASSUME GnssAssumption == /\ Options \in Seq(STRING \ {"on", "mode"}) /\ Options # <<>>
                         /\ \A i, j \in 1..Len(Options) : Options[i] = Options[j] => i = j
                         /\ Delayed \subseteq {Options[i] : i \in 1..Len(Options)}
                         /\ MaxRetry \in Nat /\ MaxCuts \in Nat

Option == {Options[i] : i \in 1..Len(Options)}
Settings == [Option -> {0, 1}]
Numbers == 0..2 \* what %hhd may bring, 2 standing for any larger number

VARIABLES want,     \* the settings in the EEPROM
          stored,   \* the modem's options
          inUse,    \* those of Delayed as they were when the modem started
          modeSet,  \* the modem has the settings' gnssconfig
          on,       \* the receiver runs
          known,    \* the statics of the query functions
          misread,  \* what took an answer that was not its own, or as an option none
          at,       \* where gnss_init is
          opt,      \* index of the option it is at
          retry,
          misses,   \* attempts that ended in continue
          created,  \* FALSE: xTaskCreate failed
          settled,  \* the last start met the same settings and read them all
          cuts

modem == <<stored, inUse, modeSet, on>>
startup == <<want, modem, known, misread, at, opt, retry, misses, created, settled, cuts>>

Unread == [o \in Option \cup {"on"} |-> 0]
\* AUTOGPS in use switches the receiver on when the modem starts
OnByItself(options) == AutoGps \in Delayed /\ options[AutoGps] = 1

\* app_main resets the modem before it creates the task of gnss_init
GnssInit == /\ Init
            /\ want \in Settings /\ stored \in Settings
            /\ inUse = [o \in Delayed |-> stored[o]] /\ on = OnByItself(stored)
            /\ modeSet \in BOOLEAN
            /\ known = Unread /\ misread = {}
            /\ at = "load" /\ opt = 1 /\ retry = MaxRetry /\ misses = 0
            /\ created = TRUE /\ settled = FALSE /\ cuts = 0

-----------------------------------------------------------------------------
(* gnss_init.                                                              *)

\* read_gnss_settings.  When it fails gnss_init, the function of a task, returns: the port
\* answers with prvTaskExitError, which stops everything until the watchdog bites.
\* (eeprom_read, the storage installed, never fails; the interface lets another.)
LoadSettings(possible) ==
    /\ at = "load"
    /\ at' = IF possible THEN "query" ELSE "hung"
    /\ UNCHANGED <<want, modem, known, misread, opt, retry, misses, created, settled, cuts>>

\* Mutants of NextAttempt: while (--retry); no count
NextAttemptEarly == /\ misses' = misses + 1
                    /\ UNCHANGED created
                    /\ IF retry <= 1 THEN at' = "failed" /\ UNCHANGED <<opt, retry>>
                                     ELSE at' = "query" /\ opt' = 1 /\ retry' = retry - 1
NextAttemptEndless == /\ UNCHANGED misses
                      /\ at' = "query" /\ opt' = 1 /\ UNCHANGED <<retry, created>>

\* continue: while (retry--), and after the last attempt the task deletes itself
NextAttempt == /\ misses' = misses + 1
               /\ UNCHANGED created
               /\ IF retry = 0 THEN at' = "failed" /\ UNCHANGED <<opt, retry>>
                               ELSE at' = "query" /\ opt' = 1 /\ retry' = retry - 1

GoTo(place, index) == /\ at' = place /\ opt' = index
                      /\ UNCHANGED <<retry, misses, created>>
Proceed == IF opt < Len(Options) THEN GoTo("query", opt + 1) ELSE GoTo("mode", opt)

\* what a query brings: the value; the number in a late answer to an earlier command, for the
\* handlers look for the first one after ":" or "," (at_gnss_apflash.c:69); success with the
\* static's old value, when only the leading empty line has come; or a failure
Answers == {"own", "other", "stale", "failed"}
Reads(name, actual, how) ==
    \E number \in IF how = "other" THEN Numbers ELSE {actual} :
        known' = IF how \in {"own", "other"} THEN [known EXCEPT ![name] = number] ELSE known

QueryOption(how) == LET o == Options[opt] IN
    /\ at = "query"
    /\ Reads(o, stored[o], how)
    /\ misread' = IF how = "own" THEN misread \ {o} ELSE misread \cup {o}
    /\ IF how # "failed" /\ known'[o] # want[o] THEN GoTo("switch", opt) ELSE Proceed
    /\ UNCHANGED <<want, modem, settled, cuts>>

\* a command is done and acknowledged, done without an answer, refused, or refused with the
\* late OK of an earlier command taken for its own
Outcomes == {"done", "unanswered", "refused", "mistaken"}
TakesEffect(outcome) == outcome \in {"done", "unanswered"}
Succeeds(outcome) == outcome \in {"done", "mistaken"}

\* Mutant of SwitchOption: the option is always switched on
EnableOption(outcome) == LET o == Options[opt] IN
    /\ at = "switch"
    /\ stored' = IF TakesEffect(outcome) THEN [stored EXCEPT ![o] = 1] ELSE stored
    /\ misread' = IF outcome = "mistaken" THEN misread \cup {o} ELSE misread
    /\ IF Succeeds(outcome) THEN Proceed ELSE NextAttempt
    /\ UNCHANGED <<want, inUse, modeSet, on, known, settled, cuts>>

SwitchOption(outcome) == LET o == Options[opt] IN
    /\ at = "switch"
    /\ stored' = IF TakesEffect(outcome)
                 THEN [stored EXCEPT ![o] = IF known[o] = 0 THEN 1 ELSE 0] ELSE stored
    /\ misread' = IF outcome = "mistaken" THEN misread \cup {o} ELSE misread
    /\ IF Succeeds(outcome) THEN Proceed ELSE NextAttempt
    /\ UNCHANGED <<want, inUse, modeSet, on, known, settled, cuts>>

\* a command that was acknowledged settles its name, another's OK leaves it open
Trusts(name, outcome) == misread' = CASE outcome = "mistaken" -> misread \cup {name}
                                      [] outcome = "done" -> misread \ {name}
                                      [] OTHER -> misread

ConfigMode(outcome) ==
    /\ at = "mode"
    /\ modeSet' = (modeSet \/ TakesEffect(outcome))
    /\ Trusts("mode", outcome)
    /\ IF Succeeds(outcome) THEN GoTo("state", opt) ELSE NextAttempt
    /\ UNCHANGED <<want, stored, inUse, on, known, settled, cuts>>

QueryOn(how) ==
    /\ at = "state"
    /\ Reads("on", IF on THEN 1 ELSE 0, how)
    /\ misread' = CASE how = "other" -> misread \cup {"on"}
                     [] how = "own" -> misread \ {"on"}
                     [] OTHER -> misread
    /\ GoTo(IF how # "failed" /\ known'["on"] = 1 THEN "create" ELSE "open", opt)
    /\ UNCHANGED <<want, modem, settled, cuts>>

\* the modem refuses to open what is open
OpenReceiver(outcome) ==
    /\ at = "open"
    /\ on => ~TakesEffect(outcome)
    /\ on' = (on \/ TakesEffect(outcome))
    /\ Trusts("on", outcome)
    /\ IF Succeeds(outcome) THEN GoTo("create", opt) ELSE NextAttempt
    /\ UNCHANGED <<want, stored, inUse, modeSet, known, settled, cuts>>

\* only gnss_init reads the statics: with gnss_task they count as what the next restart
\* makes of them
CreateTask(possible) ==
    /\ at = "create"
    /\ at' = IF possible THEN "task" ELSE "failed"
    /\ created' = possible
    /\ known' = IF possible THEN Unread ELSE known
    /\ UNCHANGED <<want, modem, misread, opt, retry, misses, settled, cuts>>

StartUp == \/ \E how \in Answers : QueryOption(how) \/ QueryOn(how)
           \/ \E outcome \in Outcomes :
                \/ SwitchOption(outcome) \/ ConfigMode(outcome) \/ OpenReceiver(outcome)
           \/ \E possible \in BOOLEAN : LoadSettings(possible) \/ CreateTask(possible)

-----------------------------------------------------------------------------
(* gnss_task and restarts.                                                 *)

Started == at \in {"task", "failed", "hung"}

\* the variables of gnss_task and gnss_init begin anew
Afresh(settings) ==
    /\ Started \/ cuts < MaxCuts
    /\ count' = 0 /\ sendNum' = 0 /\ underNum' = 0 /\ speedIndex' = 0
    /\ error50' = 0 /\ restarting' = FALSE
    /\ sent' = TRUE /\ gap' = 0 /\ sinceLost' = 0 /\ lost' = 0
    /\ want' = settings
    /\ known' = Unread /\ misread' = {}
    /\ at' = "load" /\ opt' = 1 /\ retry' = MaxRetry /\ misses' = 0 /\ created' = TRUE
    /\ settled' = (at = "task" /\ misread = {} /\ settings = want)
    /\ cuts' = IF Started THEN cuts ELSE cuts + 1
    /\ modeSet' \in IF settings = want THEN {modeSet} ELSE BOOLEAN

\* Mutant of Restart: the modem keeps running
RestartMcuOnly(settings) == Afresh(settings) /\ UNCHANGED <<stored, inUse, on>>

\* mcu_restart, the watchdog or the power, with the settings as they are then;
\* ec800m_init resets the modem at every start
Restart(settings) == /\ Afresh(settings)
                     /\ inUse' = [o \in Delayed |-> stored[o]]
                     /\ on' = OnByItself(stored)
                     /\ UNCHANGED stored

GnssNext == \/ StartUp /\ UNCHANGED vars
            \/ at = "task" /\ Next /\ UNCHANGED startup
            \/ \E settings \in Settings : Restart(settings)

GnssSpec == /\ GnssInit /\ [][GnssNext]_<<vars, startup>>
            /\ WF_<<vars, startup>>(StartUp /\ UNCHANGED vars)

-----------------------------------------------------------------------------
(* Properties.                                                             *)

\* Type invariant of gnss_init's state, the modem's and gnss_task's.  Once it has its
\* settings gnss_init gives up, and the device has no position until it is restarted,
\* only after MaxRetry + 1 attempts or when there is no memory for the task; what it could
\* not load it has not begun to set.
GnssTypeOK == /\ TypeOK
              /\ {want, stored} \subseteq Settings
              /\ inUse \in [Delayed -> {0, 1}]
              /\ {modeSet, on, created, settled} \subseteq BOOLEAN
              /\ known \in [Option \cup {"on"} -> Numbers]
              /\ misread \subseteq Option \cup {"on", "mode"}
              /\ at \in {"load", "query", "switch", "mode", "state", "open", "create", "task",
                         "failed", "hung"}
              /\ opt \in 1..Len(Options)
              /\ retry \in 0..MaxRetry /\ misses \in 0..(MaxRetry + 1)
              /\ cuts \in 0..MaxCuts
              /\ at = "failed" => misses = MaxRetry + 1 \/ ~created
              /\ at \in {"load", "hung"} => misses = 0 /\ known = Unread

\* When gnss_task runs the receiver is on, it has the settings' mode and every option has
\* the settings' value, except what took the late answer to another command for its own or,
\* as an option, got none; whichever commands were refused or done unanswered in earlier
\* attempts (gnss.c:776-881: the statics outlive the attempt that filled them, a wrong
\* number in them included).
Configured == at = "task" => /\ on \/ "on" \in misread
                             /\ modeSet \/ "mode" \in misread
                             /\ \A o \in Option \ misread : stored[o] = want[o]

\* AGPS and AUTOGPS "take effect after a restart" (gnss.c:773, 801) of the modem,
\* which ec800m_init brings about at every start: once a start has read all
\* options, from the next on they are in use as the settings say.
InEffect == at = "task" /\ settled => \A o \in Delayed : inUse[o] = want[o]

\* gnss_init ends, with the task or without, when it is not cut off again and again
\* (gnss.c:893: every continue is counted).
StartUpEnds == at = "load" ~> Started
=============================================================================
