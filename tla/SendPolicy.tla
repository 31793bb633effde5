----------------------------- MODULE SendPolicy -----------------------------
(***************************************************************************)
(* Which positions gnss_task (gnss.c) passes on.  Every three seconds it   *)
(* asks the modem for the position.  The policy at gnss.c:606-611 wants:   *)
(*   1. the first N points after a start or after a failure are sent;      *)
(*   2. after N slow points in a row, slow points are withheld;            *)
(*   3. at least one point in M is sent all the same.                      *)
(* Speeds are "slow" (at most T), "fast", or "unparsed".                   *)
(***************************************************************************)
EXTENDS Naturals

CONSTANTS N,         \* SEND_IOT_GPS_N, 10
          M,         \* SEND_IOT_GPS_M, 200
          CountMod,  \* 2^16: count is an uint16_t
          Span,      \* SPEED_NUM, 100
          MaxError50 \* GNSS_ERROR_50_CONTINUE_TIME_MAX / GNSS_INTERVAL_TIME, 60

ASSUME PolicyAssumption ==
    /\ N \in Nat /\ M \in Nat \ {0} /\ CountMod \in Nat \ {0}
    /\ Span \in Nat \ {0} /\ MaxError50 \in Nat \ {0}

VARIABLES count,      \* points received, modulo CountMod
          sendNum,    \* send_iot_num
          underNum,   \* send_iot_under_T_num
          speedIndex, \* gnss_speed_index
          error50,    \* gnss_error_50_num
          restarting, \* ec800m_poweroff_and_mcu_restart was called
          sent,       \* the last point was passed on
          gap,        \* points withheld in a row
          sinceLost,  \* points since the start or the last lost location, up to N + 1
          lost        \* locations in a row answered with error 50, up to MaxError50

counters == <<count, sendNum, underNum, speedIndex>>
history == <<sent, gap, sinceLost, lost>>
vars == <<counters, error50, restarting, history>>

Init == /\ count = 0 /\ sendNum = 0 /\ underNum = 0 /\ speedIndex = 0
        /\ error50 = 0 /\ restarting = FALSE
        /\ sent = TRUE /\ gap = 0 /\ sinceLost = 0 /\ lost = 0

\* both counters stop one past N, far below the end of an uint8_t
Saturate(n) == IF n <= N THEN n + 1 ELSE n

\* Mutant of Due: point M + 1 instead of point M
DueLate(num, under) == num <= N \/ under <= N \/ count % (M + 1) = 0
Due(num, under) == num <= N \/ under <= N \/ count % M = 0

SpeedIndex(speed) == IF speed = "unparsed" \/ speedIndex + 1 >= Span THEN 0
                                                               ELSE speedIndex + 1

\* A point: a text without +QGPSLOC counts as fast (data.spkm is 1000)
Point(speed) ==
    LET under == IF speed = "slow" THEN Saturate(underNum) ELSE 0
        num == Saturate(sendNum)
    IN  /\ ~restarting
        /\ speedIndex' = SpeedIndex(speed)
        /\ underNum' = under /\ sendNum' = num
        /\ sent' = Due(num, under)
        /\ gap' = IF Due(num, under) THEN 0 ELSE gap + 1
        /\ error50' = 0
        /\ count' = (count + 1) % CountMod
        /\ sinceLost' = Saturate(sinceLost)
        /\ lost' = 0
        /\ UNCHANGED restarting

Lost(code) == IF code # 50 THEN 0 ELSE IF lost < MaxError50 THEN lost + 1 ELSE lost

\* ec800m_at_gnss_location fails: gnss_rsp_handler accepts nothing but a position
LocationFails(code) ==
    /\ ~restarting
    /\ sinceLost' = 0 /\ lost' = Lost(code)
    /\ UNCHANGED <<counters, error50, restarting, sent, gap>>

\* The task itself sees an error only when a late error answer precedes the
\* position in what the handler was given
GnssError(code) ==
    /\ ~restarting
    /\ speedIndex' = 0 /\ underNum' = 0 /\ sendNum' = 0
    /\ error50' = IF code = 50 THEN error50 + 1 ELSE error50
    /\ restarting' = (error50' >= MaxError50)
    /\ sinceLost' = 0 /\ lost' = Lost(code)
    /\ UNCHANGED <<count, sent, gap>>

Next == \/ \E speed \in {"slow", "fast", "unparsed"} : Point(speed)
        \/ \E code \in {50, 516} : LocationFails(code) \/ GnssError(code)

Spec == Init /\ [][Next]_vars

-----------------------------------------------------------------------------
(* Properties.                                                             *)

\* Type invariant of gnss_task's counters: the speeds stay inside their buffer
\* and the saturating counters below N + 2 (gnss.c:618-737).
TypeOK == /\ count \in 0..(CountMod - 1)
          /\ sendNum \in 0..(N + 1) /\ underNum \in 0..(N + 1)
          /\ speedIndex \in 0..(Span - 1) /\ error50 \in 0..MaxError50
          /\ restarting \in BOOLEAN /\ sent \in BOOLEAN /\ gap \in Nat
          /\ sinceLost \in 0..(N + 1) /\ lost \in 0..MaxError50

\* Claim 3: fewer than M points in a row are withheld, also when the 16-bit
\* count wraps, M need not divide 2^16 (gnss.c:610, 684).
OneInM == gap < M

\* Claim 1, the comment at gnss.c:608: the first N points after the start or after a
\* location that failed, whoever saw it fail, are sent.
FirstPointsSent == sinceLost \in 1..N => sent

\* The comment at gnss.c:722: when every location fails for some time the
\* system is restarted.
LostRestarts == lost = MaxError50 => restarting
=============================================================================
