-------------------------- MODULE SendPolicyProofs --------------------------
(***************************************************************************)
(* Proofs about SendPolicy, for every N, M and width of count, and about   *)
(* Gnss, which puts the start of the receiver before it, for any options   *)
(* and any number of attempts and restarts.                                *)
(***************************************************************************)
EXTENDS Gnss, Integers, TLAPS

LEMMA Multiple ==
  ASSUME NEW m \in Nat \ {0}, NEW p \in Int, NEW q \in Int, p < q
  PROVE  m * q >= m * p + m
<1>1. q >= p + 1 /\ m * q >= m * (p + 1)
  OBVIOUS
<1>2. m * (p + 1) = m * p + m
  OBVIOUS
<1> QED BY <1>1, <1>2

LEMMA Unique ==
  ASSUME NEW m \in Nat \ {0}, NEW q \in Int, NEW s \in 0..(m - 1), NEW x \in Nat,
         x = m * q + s
  PROVE  x % m = s
<1> DEFINE p == x \div m
           t == x % m
<1>1. x = m * p + t /\ t \in 0..(m - 1) /\ p \in Int
  OBVIOUS
<1> HIDE DEF p, t
<1>2. m * q \in Int /\ m * p \in Int
  BY <1>1
<1>3. ~(p < q) /\ ~(q < p)
  BY <1>1, <1>2, Multiple
<1>4. p = q
  BY <1>1, <1>3
<1>5. t = s
  BY <1>1, <1>2, <1>4
<1> QED BY <1>5 DEF t

\* One step of a remainder: it grows by one or starts again at zero
LEMMA NextRemainder ==
  ASSUME NEW c \in Nat, NEW m \in Nat \ {0}
  PROVE  /\ c % m \in 0..(m - 1)
         /\ (c + 1) % m = (c % m) + 1 \/ ((c + 1) % m = 0 /\ c % m = m - 1)
<1> DEFINE q == c \div m
           r == c % m
<1>1. c = m * q + r /\ r \in 0..(m - 1) /\ q \in Int
  OBVIOUS
<1> HIDE DEF q, r
<1>2. m * q \in Int /\ m * (q + 1) = m * q + m
  BY <1>1
<1>3. CASE r + 1 < m
  <2>1. c + 1 = m * q + (r + 1) /\ r + 1 \in 0..(m - 1)
    BY <1>1, <1>2, <1>3
  <2>2. (c + 1) % m = r + 1
    BY <1>1, <2>1, Unique
  <2> QED BY <1>1, <2>2 DEF r
<1>4. CASE r + 1 = m
  <2>1. c + 1 = m * (q + 1) + 0
    BY <1>1, <1>2, <1>4
  <2>2. (c + 1) % m = 0
    BY <1>1, <2>1, Unique
  <2> QED BY <1>1, <1>4, <2>2 DEF r
<1> QED BY <1>1, <1>3, <1>4

\* count % M points at most were withheld since a point was sent for claim 3; when
\* count wraps that number shrinks, and the points withheld are still fewer than M.
PolicyInv == /\ TypeOK
             /\ gap < M
             /\ count % M # 0 => gap < count % M
             /\ ~restarting => error50 < MaxError50

LEMMA Saturated == ASSUME NEW n \in 0..(N + 1) PROVE Saturate(n) \in 0..(N + 1)
  BY PolicyAssumption DEF Saturate

LEMMA PointKeeps ==
  ASSUME PolicyInv, NEW speed \in {"slow", "fast", "unparsed"}, Point(speed)
  PROVE  PolicyInv'
<1> DEFINE under == IF speed = "slow" THEN Saturate(underNum) ELSE 0
           num == Saturate(sendNum)
<1> USE PolicyAssumption
<1>1. /\ underNum' = under /\ sendNum' = num /\ sent' = Due(num, under)
      /\ gap' = IF Due(num, under) THEN 0 ELSE gap + 1
      /\ count' = (count + 1) % CountMod
  BY DEF Point
<1>2. under \in 0..(N + 1) /\ num \in 0..(N + 1)
  BY Saturated DEF PolicyInv, TypeOK
<1>3. Due(num, under) \in BOOLEAN /\ (~Due(num, under) => count % M # 0)
  BY DEF Due
<1>4. /\ count \in Nat /\ gap \in Nat /\ count % M \in 0..(M - 1)
      /\ (count + 1) % M = (count % M) + 1 \/ ((count + 1) % M = 0 /\ count % M = M - 1)
      /\ count + 1 = count' \/ count' = 0
  <2>1. count \in 0..(CountMod - 1) /\ gap \in Nat
    BY DEF PolicyInv, TypeOK
  <2>0. count \in Nat /\ M \in Nat \ {0} /\ CountMod \in Nat \ {0}
    BY <2>1
  <2>2. count % CountMod = count
    <3>1. count = CountMod * 0 + count /\ count \in Nat
      BY <2>1
    <3> QED BY <2>1, <3>1, Unique
  <2>3. /\ count % M \in 0..(M - 1)
        /\ (count + 1) % M = (count % M) + 1 \/ ((count + 1) % M = 0 /\ count % M = M - 1)
    BY <2>0, NextRemainder, Zenon
  <2>4. (count + 1) % CountMod = (count % CountMod) + 1
        \/ ((count + 1) % CountMod = 0 /\ count % CountMod = CountMod - 1)
    BY <2>0, NextRemainder, Zenon
  <2>5. count + 1 = count' \/ count' = 0
    <3>1. count' = (count % CountMod) + 1 \/ count' = 0
      BY <1>1, <2>4, Zenon
    <3> QED BY <2>2, <3>1, Zenon
  <2> QED BY <2>0, <2>1, <2>3, <2>5
<1>5. gap' \in Nat /\ gap' < M /\ (gap' = 0 \/ gap' <= count % M)
  BY <1>1, <1>3, <1>4 DEF PolicyInv
<1>6. count' % M # 0 => gap' < count' % M
  <2>1. CASE count' = count + 1
    <3>1. CASE Due(num, under)
      BY <1>1, <1>4, <2>1, <3>1
    <3>2. CASE ~Due(num, under)
      BY <1>1, <1>3, <1>4, <2>1, <3>2 DEF PolicyInv
    <3> QED BY <3>1, <3>2
  <2>2. CASE count' = 0
    <3>1. 0 % M = 0
      BY Unique
    <3> QED BY <2>2, <3>1
  <2> QED BY <1>4, <2>1, <2>2
<1>7. TypeOK'
  <2>1. count' \in 0..(CountMod - 1)
    BY <1>1, <1>4, NextRemainder
  <2>2. speedIndex' \in 0..(Span - 1) /\ error50' = 0 /\ restarting' = restarting
    BY DEF PolicyInv, TypeOK, Point, SpeedIndex
  <2>3. sent' \in BOOLEAN
    BY <1>1, <1>3
  <2>4. sinceLost' \in 0..(N + 1) /\ lost' = 0
    BY Saturated DEF PolicyInv, TypeOK, Point
  <2> QED BY <1>1, <1>2, <1>5, <2>1, <2>2, <2>3, <2>4 DEF PolicyInv, TypeOK
<1>8. error50' < MaxError50
  BY DEF Point
<1> QED BY <1>5, <1>6, <1>7, <1>8 DEF PolicyInv

LEMMA FailureKeeps ==
  ASSUME PolicyInv, NEW code \in {50, 516}, LocationFails(code) \/ GnssError(code)
  PROVE  PolicyInv'
<1> USE PolicyAssumption
<1>1. lost' \in 0..MaxError50
  BY DEF PolicyInv, TypeOK, LocationFails, GnssError, Lost
<1>2. CASE LocationFails(code)
  BY <1>1, <1>2 DEF PolicyInv, TypeOK, LocationFails, counters
<1>3. CASE GnssError(code)
  <2>1. /\ UNCHANGED <<count, sent, gap>> /\ speedIndex' = 0 /\ underNum' = 0
        /\ sendNum' = 0 /\ sinceLost' = 0
    BY <1>3 DEF GnssError
  <2>2. /\ error50 \in Nat /\ error50 < MaxError50 /\ error50' \in {error50, error50 + 1}
        /\ restarting' = (error50' >= MaxError50)
    BY <1>3 DEF PolicyInv, TypeOK, GnssError
  <2>3. /\ error50' \in 0..MaxError50 /\ restarting' \in BOOLEAN
        /\ ~restarting' => error50' < MaxError50
    <3>1. error50' \in 0..MaxError50
      BY <2>2
    <3>2. (error50' >= MaxError50) \in BOOLEAN
      BY <3>1
    <3>3. ~(error50' >= MaxError50) => error50' < MaxError50
      BY <3>1
    <3> QED BY <2>2, <3>1, <3>2, <3>3
  <2>4. TypeOK'
    BY <1>1, <2>1, <2>3 DEF PolicyInv, TypeOK
  <2>5. gap' < M /\ (count' % M # 0 => gap' < count' % M)
    BY <2>1 DEF PolicyInv
  <2> QED BY <2>1, <2>3, <2>4, <2>5 DEF PolicyInv
<1> QED BY <1>2, <1>3

LEMMA PolicyStarts == Init => PolicyInv
<1>1. 0 % M = 0
  <2>1. 0 = M * 0 + 0 /\ 0 \in 0..(M - 1)
    BY PolicyAssumption
  <2> QED BY <2>1, PolicyAssumption, Unique
<1>2. 0 \in 0..(CountMod - 1) /\ 0 \in 0..(N + 1) /\ 0 \in 0..(Span - 1) /\ 0 \in 0..MaxError50
  BY PolicyAssumption
<1>3. ASSUME Init PROVE TypeOK
  <2>1. restarting \in BOOLEAN /\ sent \in BOOLEAN /\ gap \in Nat
    BY <1>3 DEF Init
  <2>2. /\ count = 0 /\ sendNum = 0 /\ underNum = 0 /\ speedIndex = 0
        /\ error50 = 0 /\ sinceLost = 0 /\ lost = 0
    BY <1>3 DEF Init
  <2> QED BY <1>2, <2>1, <2>2, PolicyAssumption DEF TypeOK
<1>4. ASSUME Init PROVE PolicyInv
  <2>1. count % M = 0 /\ gap = 0 /\ error50 = 0
    BY <1>1, <1>4 DEF Init
  <2>2. gap < M /\ error50 < MaxError50
    BY <2>1, PolicyAssumption
  <2> QED BY <1>3, <1>4, <2>1, <2>2 DEF PolicyInv
<1> QED BY <1>4

LEMMA PolicySteps == PolicyInv /\ [Next]_vars => PolicyInv'
<1>1. ASSUME PolicyInv, UNCHANGED vars PROVE PolicyInv'
  BY <1>1 DEF PolicyInv, TypeOK, vars, counters, history
<1> QED BY <1>1, PointKeeps, FailureKeeps DEF Next

LEMMA PolicyInvariant == Spec => []PolicyInv
  BY PolicyStarts, PolicySteps, PTL DEF Spec

\* The speeds stay inside their buffer and the counters below N + 2 (gnss.c:655-699).
THEOREM CountersBounded == Spec => []TypeOK
<1>1. PolicyInv => TypeOK
  BY DEF PolicyInv
<1> QED BY <1>1, PolicyInvariant, PTL

\* Claim 3 for every M and every width of count: fewer than M points in a row are
\* withheld, also when count wraps (gnss.c:610, 684).
THEOREM OneInMIsSent == Spec => []OneInM
<1>1. PolicyInv => OneInM
  BY DEF PolicyInv, OneInM
<1> QED BY <1>1, PolicyInvariant, PTL

-----------------------------------------------------------------------------
(* The start of the receiver.                                              *)

Places == {"load", "query", "switch", "mode", "state", "open", "create", "task", "failed",
           "hung"}
Ended == {"failed", "hung"}
Later == Places \ {"load", "failed", "hung"}

\* every attempt but the last leaves one retry less
StartTypeInv ==
    /\ want \in Settings /\ stored \in Settings /\ inUse \in [Delayed -> {0, 1}]
    /\ modeSet \in BOOLEAN /\ on \in BOOLEAN /\ created \in BOOLEAN /\ settled \in BOOLEAN
    /\ known \in [Option \cup {"on"} -> Numbers] /\ misread \subseteq Option \cup {"on", "mode"}
    /\ at \in Places /\ opt \in 1..Len(Options)
    /\ retry \in 0..MaxRetry /\ misses \in 0..(MaxRetry + 1) /\ cuts \in 0..MaxCuts
    /\ at # "failed" => misses + retry = MaxRetry
    /\ at = "failed" => misses = MaxRetry + 1 \/ ~created
    /\ at \in {"load", "hung"} => misses = 0 /\ known = Unread

\* options before this one are done with in this attempt
Passed == IF at \in {"load", "query", "switch"} THEN opt - 1 ELSE Len(Options)
Fits(o) == o \in misread \/ stored[o] = want[o]

\* only another command's answer makes an option's static a number that is none of its
\* values, or 1 that of a receiver that is off
StartFacts == /\ \A o \in Option : known[o] = 2 => o \in misread
              /\ known["on"] = 1 => on \/ "on" \in misread

\* what gnss_init knows at each of its places
StartInv == /\ StartFacts
            /\ \A i \in 1..Passed : at \notin Ended => Fits(Options[i])
            /\ at = "switch" => known[Options[opt]] # want[Options[opt]]
            /\ at \in {"state", "open", "create", "task"} => modeSet \/ "mode" \in misread
            /\ at \in {"create", "task"} => on \/ "on" \in misread

GnssInv == PolicyInv /\ StartTypeInv /\ StartInv
           /\ (settled => \A o \in Delayed : inUse[o] = want[o])

LEMMA OptionFacts == /\ Len(Options) \in Nat \ {0} /\ Delayed \subseteq Option
                     /\ "on" \notin Option /\ "mode" \notin Option
                     /\ \A i \in 1..Len(Options) : Options[i] \in Option
                     /\ \A i, j \in 1..Len(Options) : Options[i] = Options[j] => i = j
  BY GnssAssumption DEF Option

LEMMA AttemptTypes ==
  ASSUME StartTypeInv, at \in Later, NextAttempt \/ Proceed \/ \E p \in Later : GoTo(p, opt),
         UNCHANGED <<want, inUse, settled, cuts>>,
         stored' \in Settings, modeSet' \in BOOLEAN, on' \in BOOLEAN,
         known' \in [Option \cup {"on"} -> Numbers], misread' \subseteq Option \cup {"on", "mode"}
  PROVE  StartTypeInv'
<1> USE OptionFacts, GnssAssumption DEF StartTypeInv, Places, Later
<1>1. CASE NextAttempt
  <2>1. /\ misses' = misses + 1 /\ created' = created
        /\ \/ retry = 0 /\ at' = "failed" /\ opt' = opt /\ retry' = retry
           \/ retry # 0 /\ at' = "query" /\ opt' = 1 /\ retry' = retry - 1
    BY <1>1 DEF NextAttempt
  <2>2. /\ misses' \in 0..(MaxRetry + 1) /\ retry' \in 0..MaxRetry /\ opt' \in 1..Len(Options)
        /\ at' # "failed" => misses' + retry' = MaxRetry
        /\ at' = "failed" => misses' = MaxRetry + 1
    BY <2>1
  <2> QED BY <2>1, <2>2
<1>2. ASSUME NEW p \in Later, NEW i \in 1..Len(Options), GoTo(p, i)
      PROVE  StartTypeInv'
  BY <1>2 DEF GoTo
<1>3. CASE Proceed
  <2>1. opt \in 1..Len(Options) /\ (opt < Len(Options) => opt + 1 \in 1..Len(Options))
    OBVIOUS
  <2> QED BY <1>2, <1>3, <2>1 DEF Proceed
<1> QED BY <1>1, <1>2, <1>3

LEMMA ReadTypes ==
  ASSUME StartTypeInv, NEW name \in Option \cup {"on"}, NEW actual \in {0, 1},
         NEW how \in Answers, Reads(name, actual, how)
  PROVE  /\ known' \in [Option \cup {"on"} -> Numbers]
         /\ \A o \in (Option \cup {"on"}) \ {name} : known'[o] = known[o]
         /\ how = "own" => known'[name] = actual
         /\ how \in {"stale", "failed"} => known'[name] = known[name]
<1>1. PICK number \in Numbers :
        /\ how # "other" => number = actual
        /\ known' = IF how \in {"own", "other"} THEN [known EXCEPT ![name] = number] ELSE known
  <2>1. PICK number \in IF how = "other" THEN Numbers ELSE {actual} :
          known' = IF how \in {"own", "other"} THEN [known EXCEPT ![name] = number] ELSE known
    BY DEF Reads
  <2>2. number \in Numbers
    BY <2>1 DEF Numbers
  <2>3. how # "other" => number = actual
    BY <2>1
  <2> QED BY <2>1, <2>2, <2>3, Zenon
<1> QED BY <1>1 DEF StartTypeInv, Answers

LEMMA QueryKeeps ==
  ASSUME GnssInv, NEW how \in Answers, QueryOption(how), UNCHANGED vars
  PROVE  StartTypeInv' /\ StartInv'
<1>0. PICK o \in Option : o = Options[opt]
  BY OptionFacts DEF GnssInv, StartTypeInv
<1>1. /\ StartTypeInv /\ StartInv /\ at = "query" /\ Reads(o, stored[o], how)
      /\ misread' = IF how = "own" THEN misread \ {o} ELSE misread \cup {o}
      /\ UNCHANGED <<want, stored, inUse, modeSet, on, settled, cuts>>
  BY <1>0 DEF GnssInv, QueryOption, modem
<1>2. /\ o \in Option /\ stored[o] \in {0, 1} /\ want[o] \in {0, 1} /\ o # "on" /\ o # "mode"
      /\ opt \in 1..Len(Options)
  BY <1>0, <1>1, OptionFacts DEF StartTypeInv, Settings
<1>3. /\ known' \in [Option \cup {"on"} -> Numbers]
      /\ misread' \subseteq Option \cup {"on", "mode"}
      /\ \A p \in (Option \cup {"on"}) \ {o} : known'[p] = known[p]
      /\ \A p \in (Option \cup {"on", "mode"}) \ {o} : p \in misread' <=> p \in misread
      /\ o \in misread' \/ (how = "own" /\ known'[o] = stored[o])
  BY <1>1, <1>2, ReadTypes DEF StartTypeInv
<1>4. (how # "failed" /\ known'[o] # want[o] /\ GoTo("switch", opt))
      \/ (~(how # "failed" /\ known'[o] # want[o]) /\ Proceed)
  BY <1>0 DEF QueryOption
<1>5. StartTypeInv'
  <2>1. NextAttempt \/ Proceed \/ \E p \in Later : GoTo(p, opt)
    BY <1>4 DEF Places, Later
  <2>2. at \in Later
    BY <1>1 DEF Places, Later
  <2> QED BY <1>1, <1>3, <2>1, <2>2, AttemptTypes DEF StartTypeInv
<1>6. StartFacts'
  <2>1. known'["on"] = known["on"] /\ ("on" \in misread' <=> "on" \in misread)
    BY <1>2, <1>3
  <2>2. known'["on"] = 1 => on' \/ "on" \in misread'
    BY <1>1, <2>1, Zenon DEF StartInv, StartFacts
  <2>3. \A p \in Option : known'[p] = 2 => p \in misread'
    BY <1>1, <1>2, <1>3 DEF StartInv, StartFacts
  <2> QED BY <2>2, <2>3 DEF StartFacts
<1>7. \A i \in 1..(opt - 1) : Fits(Options[i])'
  <2>1. \A i \in 1..(opt - 1) : Fits(Options[i]) /\ Options[i] \in Option /\ Options[i] # o
    BY <1>0, <1>1, <1>2, OptionFacts DEF StartInv, Passed, Ended
  <2> QED BY <1>1, <1>2, <1>3, <2>1 DEF Fits
<1>8. CASE how # "failed" /\ known'[o] # want[o] /\ GoTo("switch", opt)
  <2>1. at' = "switch" /\ opt' = opt /\ known'[Options[opt']] # want'[Options[opt']]
    BY <1>0, <1>1, <1>8 DEF GoTo
  <2> QED BY <1>5, <1>6, <1>7, <2>1 DEF StartInv, Passed
<1>9. CASE ~(how # "failed" /\ known'[o] # want[o]) /\ Proceed
  <2>1. Fits(o)'
    BY <1>1, <1>2, <1>3, <1>9 DEF Fits
  <2>2. \A i \in 1..opt : Fits(Options[i])'
    BY <1>0, <1>2, <1>7, <2>1
  <2>3. \/ at' = "query" /\ opt' = opt + 1
        \/ at' = "mode" /\ opt = Len(Options)
    BY <1>2, <1>9 DEF Proceed, GoTo
  <2>4. \A i \in 1..Passed' : Fits(Options[i])'
    BY <1>2, <2>2, <2>3 DEF Passed
  <2> QED BY <1>5, <1>6, <2>3, <2>4 DEF StartInv
<1> QED BY <1>4, <1>5, <1>8, <1>9

\* an attempt that ends leaves nothing that would have to hold at its next place
LEMMA AttemptEnds ==
  ASSUME StartTypeInv, NextAttempt, StartFacts'
  PROVE  StartInv'
<1>1. at' = "failed" \/ (at' = "query" /\ opt' = 1)
  BY DEF NextAttempt
<1> QED BY <1>1 DEF StartInv, StartFacts, Passed, Ended

LEMMA LoadKeeps ==
  ASSUME GnssInv, NEW possible \in BOOLEAN, LoadSettings(possible), UNCHANGED vars
  PROVE  StartTypeInv' /\ StartInv'
<1>1. /\ StartTypeInv /\ StartInv /\ at = "load"
      /\ at' = (IF possible THEN "query" ELSE "hung")
      /\ UNCHANGED <<want, stored, inUse, modeSet, on, known, misread, opt, retry, misses,
                     created, settled, cuts>>
  BY DEF GnssInv, LoadSettings, modem
<1>2. StartTypeInv'
  BY <1>1 DEF StartTypeInv, Places
<1>3. StartFacts'
  BY <1>1 DEF StartInv, StartFacts
<1>4. \A i \in 1..(opt - 1) : Fits(Options[i])'
  BY <1>1 DEF StartInv, Passed, Ended, Fits
<1> QED BY <1>1, <1>2, <1>3, <1>4 DEF StartInv, Passed, Ended

LEMMA SwitchKeeps ==
  ASSUME GnssInv, NEW outcome \in Outcomes, SwitchOption(outcome), UNCHANGED vars
  PROVE  StartTypeInv' /\ StartInv'
<1>0. PICK o \in Option : o = Options[opt]
  BY OptionFacts DEF GnssInv, StartTypeInv
<1>1. /\ StartTypeInv /\ StartInv /\ at = "switch"
      /\ UNCHANGED <<want, inUse, modeSet, on, known, settled, cuts>>
      /\ stored' = IF TakesEffect(outcome)
                   THEN [stored EXCEPT ![o] = IF known[o] = 0 THEN 1 ELSE 0] ELSE stored
      /\ misread' = IF outcome = "mistaken" THEN misread \cup {o} ELSE misread
      /\ IF Succeeds(outcome) THEN Proceed ELSE NextAttempt
  BY <1>0 DEF GnssInv, SwitchOption
<1>2. /\ o \in Option /\ opt \in 1..Len(Options) /\ known[o] \in Numbers /\ want[o] \in {0, 1}
      /\ known[o] # want[o] /\ (known[o] = 2 => o \in misread)
  BY <1>0, <1>1, OptionFacts DEF StartTypeInv, StartInv, StartFacts, Settings
<1>3. stored' \in Settings /\ misread' \subseteq Option \cup {"on", "mode"}
      /\ misread \subseteq misread'
  BY <1>1, <1>2 DEF StartTypeInv, Settings
<1>4. StartTypeInv'
  <2>1. at \in Later
    BY <1>1 DEF Later, Places
  <2> QED BY <1>1, <1>3, <2>1, AttemptTypes DEF StartTypeInv
<1>5. StartFacts'
  BY <1>1, <1>3 DEF StartInv, StartFacts
<1>6. CASE Succeeds(outcome)
  <2>1. Fits(o)'
    <3>1. CASE outcome = "mistaken"
      BY <1>1, <3>1 DEF Fits
    <3>2. CASE outcome = "done"
      <4>1. stored'[o] = IF known[o] = 0 THEN 1 ELSE 0
        BY <1>1, <1>2, <3>2 DEF TakesEffect, StartTypeInv, Settings
      <4>2. known[o] \in {0, 1, 2} /\ want'[o] = want[o]
        BY <1>1, <1>2 DEF Numbers
      <4> QED BY <1>2, <1>3, <4>1, <4>2 DEF Fits
    <3> QED BY <1>6, <3>1, <3>2 DEF Succeeds
  <2>2. \A i \in 1..(opt - 1) : Fits(Options[i])'
    <3>1. \A i \in 1..(opt - 1) : Fits(Options[i]) /\ Options[i] \in Option /\ Options[i] # o
      BY <1>0, <1>1, <1>2, OptionFacts DEF StartInv, Passed, Ended
    <3>2. \A p \in Option \ {o} : stored'[p] = stored[p]
      BY <1>1, <1>2 DEF StartTypeInv, Settings
    <3> QED BY <1>1, <1>3, <3>1, <3>2 DEF Fits
  <2>3. \A i \in 1..opt : Fits(Options[i])'
    BY <1>0, <1>2, <2>1, <2>2
  <2>4. \/ at' = "query" /\ opt' = opt + 1
        \/ at' = "mode" /\ opt = Len(Options)
    BY <1>1, <1>2, <1>6 DEF Proceed, GoTo
  <2> QED BY <1>2, <1>4, <1>5, <2>3, <2>4 DEF StartInv, StartFacts, Passed
<1> QED BY <1>1, <1>4, <1>5, <1>6, AttemptEnds

LEMMA ModeKeeps ==
  ASSUME GnssInv, NEW outcome \in Outcomes, ConfigMode(outcome), UNCHANGED vars
  PROVE  StartTypeInv' /\ StartInv'
<1>1. /\ StartTypeInv /\ StartInv /\ at = "mode"
      /\ UNCHANGED <<want, stored, inUse, on, known, settled, cuts>>
      /\ modeSet' = (modeSet \/ TakesEffect(outcome)) /\ Trusts("mode", outcome)
      /\ IF Succeeds(outcome) THEN GoTo("state", opt) ELSE NextAttempt
  BY DEF GnssInv, ConfigMode
<1>2. /\ misread' \subseteq Option \cup {"on", "mode"}
      /\ \A p \in Option \cup {"on"} : p \in misread' <=> p \in misread
      /\ outcome = "mistaken" => "mode" \in misread'
  BY <1>1, OptionFacts DEF Trusts, StartTypeInv, Outcomes
<1>3. StartTypeInv'
  <2>1. modeSet' \in BOOLEAN
    BY <1>1
  <2>2. at \in Later /\ (NextAttempt \/ Proceed \/ \E p \in Later : GoTo(p, opt))
    BY <1>1 DEF Places, Later
  <2> QED BY <1>1, <1>2, <2>1, <2>2, AttemptTypes DEF StartTypeInv
<1>4. StartFacts'
  <2>1. "on" \in misread' <=> "on" \in misread
    BY <1>2
  <2>2. known'["on"] = 1 => on' \/ "on" \in misread'
    BY <1>1, <2>1, Zenon DEF StartInv, StartFacts
  <2> QED BY <1>1, <1>2, <2>2 DEF StartInv, StartFacts
<1>5. CASE Succeeds(outcome)
  <2>1. at' = "state" /\ Passed = Len(Options) /\ Passed' = Len(Options)
    BY <1>1, <1>5 DEF GoTo, Passed
  <2>2. \A i \in 1..Len(Options) : Fits(Options[i])'
    BY <1>1, <1>2, <2>1, OptionFacts DEF StartInv, Ended, Fits
  <2>3. modeSet' \/ "mode" \in misread'
    BY <1>1, <1>2, <1>5 DEF Succeeds, TakesEffect
  <2> QED BY <1>3, <1>4, <2>1, <2>2, <2>3 DEF StartInv, StartFacts
<1> QED BY <1>1, <1>3, <1>4, <1>5, AttemptEnds

LEMMA QueryOnKeeps ==
  ASSUME GnssInv, NEW how \in Answers, QueryOn(how), UNCHANGED vars
  PROVE  StartTypeInv' /\ StartInv'
<1>1. /\ StartTypeInv /\ StartInv /\ at = "state" /\ Reads("on", IF on THEN 1 ELSE 0, how)
      /\ misread' = CASE how = "other" -> misread \cup {"on"}
                      [] how = "own" -> misread \ {"on"}
                      [] OTHER -> misread
      /\ UNCHANGED <<want, stored, inUse, modeSet, on, settled, cuts>>
      /\ GoTo(IF how # "failed" /\ known'["on"] = 1 THEN "create" ELSE "open", opt)
  BY DEF GnssInv, QueryOn, modem
<1>2. /\ known' \in [Option \cup {"on"} -> Numbers]
      /\ \A p \in Option : known'[p] = known[p]
      /\ how = "own" => known'["on"] = (IF on THEN 1 ELSE 0)
      /\ how \in {"stale", "failed"} => known'["on"] = known["on"]
  <2>1. (IF on THEN 1 ELSE 0) \in {0, 1} /\ "on" \in Option \cup {"on"} /\ "on" \notin Option
    BY OptionFacts
  <2> QED BY <1>1, <2>1, ReadTypes
<1>3. /\ misread' \subseteq Option \cup {"on", "mode"}
      /\ \A p \in Option \cup {"mode"} : p \in misread' <=> p \in misread
      /\ how = "other" => "on" \in misread'
      /\ how \in {"stale", "failed"} => misread' = misread
  BY <1>1, OptionFacts DEF StartTypeInv
<1>4. StartTypeInv'
  <2>1. at \in Later /\ (NextAttempt \/ Proceed \/ \E p \in Later : GoTo(p, opt))
    BY <1>1 DEF Places, Later
  <2> QED BY <1>1, <1>2, <1>3, <2>1, AttemptTypes DEF StartTypeInv
<1>5. StartFacts'
  <2>1. known'["on"] = 1 => on' \/ "on" \in misread'
    <3>1. CASE how = "own"
      <4>1. known'["on"] = 1 => on
        BY <1>2, <3>1
      <4> QED BY <1>1, <4>1, Zenon
    <3>2. CASE how = "other"
      BY <1>3, <3>2
    <3>3. CASE how \in {"stale", "failed"}
      BY <1>1, <1>2, <1>3, <3>3, Zenon DEF StartInv, StartFacts
    <3> QED BY <3>1, <3>2, <3>3 DEF Answers
  <2> QED BY <1>1, <1>2, <1>3, <2>1 DEF StartInv, StartFacts
<1>6. \A i \in 1..Len(Options) : Fits(Options[i])'
  BY <1>1, <1>3, OptionFacts DEF StartInv, Passed, Ended, Fits
<1>7. /\ modeSet' \/ "mode" \in misread'
      /\ at' \in {"create", "open"} /\ (at' = "create" => known'["on"] = 1)
  <2>1. modeSet \/ "mode" \in misread
    BY <1>1 DEF StartInv
  <2>2. modeSet' \/ "mode" \in misread'
    BY <1>1, <1>3, <2>1
  <2> QED BY <1>1, <2>2 DEF GoTo
<1>8. at' = "create" => on' \/ "on" \in misread'
  BY <1>5, <1>7, Zenon DEF StartFacts
<1> QED BY <1>4, <1>5, <1>6, <1>7, <1>8 DEF StartInv, StartFacts, Passed

LEMMA OpenKeeps ==
  ASSUME GnssInv, NEW outcome \in Outcomes, OpenReceiver(outcome), UNCHANGED vars
  PROVE  StartTypeInv' /\ StartInv'
<1>1. /\ StartTypeInv /\ StartInv /\ at = "open"
      /\ UNCHANGED <<want, stored, inUse, modeSet, known, settled, cuts>>
      /\ on' = (on \/ TakesEffect(outcome)) /\ Trusts("on", outcome)
      /\ IF Succeeds(outcome) THEN GoTo("create", opt) ELSE NextAttempt
  BY DEF GnssInv, OpenReceiver
<1>2. /\ misread' \subseteq Option \cup {"on", "mode"}
      /\ \A p \in Option \cup {"mode"} : p \in misread' <=> p \in misread
      /\ outcome = "mistaken" => "on" \in misread'
      /\ "on" \in misread => "on" \in misread' \/ outcome = "done"
  BY <1>1, OptionFacts DEF Trusts, StartTypeInv, Outcomes
<1>3. StartTypeInv'
  <2>1. on' \in BOOLEAN
    BY <1>1
  <2>2. at \in Later /\ (NextAttempt \/ Proceed \/ \E p \in Later : GoTo(p, opt))
    BY <1>1 DEF Places, Later
  <2> QED BY <1>1, <1>2, <2>1, <2>2, AttemptTypes DEF StartTypeInv
<1>4. (on => on') /\ (outcome = "done" => on')
  BY <1>1 DEF TakesEffect
<1>5. StartFacts'
  <2>1. known'["on"] = 1 => on \/ "on" \in misread
    BY <1>1, Zenon DEF StartInv, StartFacts
  <2>2. known'["on"] = 1 => on' \/ "on" \in misread'
    BY <1>2, <1>4, <2>1, Zenon
  <2> QED BY <1>1, <1>2, <2>2 DEF StartInv, StartFacts
<1>6. CASE Succeeds(outcome)
  <2>1. at' = "create" /\ Passed = Len(Options) /\ Passed' = Len(Options)
    BY <1>1, <1>6 DEF GoTo, Passed
  <2>2. \A i \in 1..Len(Options) : Fits(Options[i])'
    BY <1>1, <1>2, <2>1, OptionFacts DEF StartInv, Ended, Fits
  <2>3. modeSet' \/ "mode" \in misread'
    BY <1>1, <1>2 DEF StartInv
  <2>4. on' \/ "on" \in misread'
    BY <1>2, <1>4, <1>6, Zenon DEF Succeeds
  <2> QED BY <1>3, <1>5, <2>1, <2>2, <2>3, <2>4 DEF StartInv, StartFacts
<1> QED BY <1>1, <1>3, <1>5, <1>6, AttemptEnds

LEMMA CreateKeeps ==
  ASSUME GnssInv, NEW possible \in BOOLEAN, CreateTask(possible), UNCHANGED vars
  PROVE  StartTypeInv' /\ StartInv'
<1>1. /\ StartTypeInv /\ StartInv /\ at = "create"
      /\ at' = (IF possible THEN "task" ELSE "failed") /\ created' = possible
      /\ known' = (IF possible THEN Unread ELSE known)
      /\ UNCHANGED <<want, stored, inUse, modeSet, on, misread, opt, retry, misses,
                     settled, cuts>>
  BY DEF GnssInv, CreateTask, modem
<1>2. StartTypeInv'
  <2>1. Unread \in [Option \cup {"on"} -> Numbers]
    BY DEF Unread, Numbers
  <2> QED BY <1>1, <2>1 DEF StartTypeInv, Places
<1>3. StartFacts'
  <2>1. \A o \in Option \cup {"on"} : Unread[o] = 0
    BY DEF Unread
  <2> QED BY <1>1, <2>1 DEF StartInv, StartFacts
<1>4. /\ on' \/ "on" \in misread'
      /\ modeSet' \/ "mode" \in misread'
  BY <1>1 DEF StartInv
<1>5. \A i \in 1..Len(Options) : Fits(Options[i])'
  BY <1>1 DEF StartInv, Passed, Ended, Fits
<1> QED BY <1>1, <1>2, <1>3, <1>4, <1>5 DEF StartInv, Passed

\* the start that follows one which met the same settings and read every option
LEMMA RestartKeeps ==
  ASSUME GnssInv, NEW settings \in Settings, Restart(settings)
  PROVE  GnssInv'
<1>1. /\ StartTypeInv /\ StartInv
      /\ want' = settings /\ stored' = stored /\ inUse' = [o \in Delayed |-> stored[o]]
      /\ on' = OnByItself(stored)
      /\ modeSet' \in (IF settings = want THEN {modeSet} ELSE BOOLEAN)
      /\ known' = Unread /\ misread' = {} /\ at' = "load" /\ opt' = 1
      /\ retry' = MaxRetry /\ misses' = 0 /\ created' = TRUE
      /\ settled' = (at = "task" /\ misread = {} /\ settings = want)
      /\ Started \/ cuts < MaxCuts
      /\ cuts' = IF Started THEN cuts ELSE cuts + 1
  BY DEF GnssInv, Restart, Afresh
<1>2. PolicyInv'
  <2>1. Init'
    BY DEF Restart, Afresh, Init
  <2>2. Init' => PolicyInv'
    BY PolicyStarts, PTL
  <2> QED BY <2>1, <2>2
<1>3. on' \in BOOLEAN
  BY <1>1 DEF OnByItself
<1>4. StartTypeInv'
  <2>1. want' \in Settings /\ stored' \in Settings /\ inUse' \in [Delayed -> {0, 1}]
    BY <1>1, OptionFacts DEF StartTypeInv, Settings
  <2>2. modeSet' \in BOOLEAN /\ created' \in BOOLEAN /\ settled' \in BOOLEAN
    BY <1>1 DEF StartTypeInv
  <2>3. known' \in [Option \cup {"on"} -> Numbers] /\ misread' \subseteq Option \cup {"on", "mode"}
        /\ misses' = 0 /\ known' = Unread'
    BY <1>1 DEF Unread, Numbers
  <2>4. opt' \in 1..Len(Options) /\ retry' \in 0..MaxRetry /\ misses' \in 0..(MaxRetry + 1)
        /\ misses' + retry' = MaxRetry /\ cuts' \in 0..MaxCuts
    BY <1>1, OptionFacts, GnssAssumption DEF StartTypeInv
  <2> QED BY <1>1, <1>3, <2>1, <2>2, <2>3, <2>4 DEF StartTypeInv, Places
<1>5. StartInv'
  <2>1. known'["on"] = 0 /\ (\A o \in Option : known'[o] = 0) /\ Passed' = 0
    BY <1>1 DEF Unread, Passed
  <2> QED BY <1>1, <2>1 DEF StartInv, StartFacts
<1>6. ASSUME settled', NEW o \in Delayed PROVE inUse'[o] = want'[o]
  <2>1. at = "task" /\ misread = {} /\ settings = want
    BY <1>1, <1>6
  <2>2. o \in Option /\ inUse'[o] = stored[o]
    BY <1>1, OptionFacts
  <2>3. PICK i \in 1..Len(Options) : Options[i] = o
    BY <2>2 DEF Option
  <2>4. Fits(o)
    BY <1>1, <2>1, <2>3 DEF StartInv, Passed, Ended
  <2> QED BY <1>1, <2>1, <2>2, <2>4 DEF Fits
<1> QED BY <1>2, <1>4, <1>5, <1>6 DEF GnssInv

LEMMA GnssInvariant == GnssSpec => []GnssInv
<1>1. GnssInit => GnssInv
  <2> SUFFICES ASSUME GnssInit PROVE GnssInv
    OBVIOUS
  <2>1. PolicyInv
    BY PolicyStarts DEF GnssInit
  <2>2. want \in Settings /\ stored \in Settings /\ inUse \in [Delayed -> {0, 1}]
    BY OptionFacts DEF GnssInit, Settings
  <2>3. on \in BOOLEAN
    BY DEF GnssInit, OnByItself
  <2>4. StartTypeInv
    <3>0. Unread \in [Option \cup {"on"} -> Numbers]
      BY DEF Unread, Numbers
    <3>1. /\ known \in [Option \cup {"on"} -> Numbers] /\ misread \subseteq Option \cup {"on", "mode"}
          /\ modeSet \in BOOLEAN /\ created \in BOOLEAN /\ settled \in BOOLEAN
          /\ misses = 0 /\ known = Unread
      BY <3>0 DEF GnssInit
    <3>2. /\ opt \in 1..Len(Options) /\ retry \in 0..MaxRetry /\ misses \in 0..(MaxRetry + 1)
          /\ misses + retry = MaxRetry /\ cuts \in 0..MaxCuts /\ at = "load"
      BY OptionFacts, GnssAssumption DEF GnssInit
    <3> QED BY <2>2, <2>3, <3>1, <3>2 DEF StartTypeInv, Places
  <2>5. StartInv
    BY DEF GnssInit, StartInv, StartFacts, Passed, Unread
  <2> QED BY <2>1, <2>4, <2>5 DEF GnssInv, GnssInit
<1>2. GnssInv /\ [GnssNext]_<<vars, startup>> => GnssInv'
  <2> SUFFICES ASSUME GnssInv, [GnssNext]_<<vars, startup>> PROVE GnssInv'
    OBVIOUS
  <2>1. CASE StartUp /\ UNCHANGED vars
    <3>1. PolicyInv'
      BY <2>1, PolicySteps DEF GnssInv
    <3>2. StartTypeInv' /\ StartInv'
      BY <2>1, LoadKeeps, QueryKeeps, QueryOnKeeps, SwitchKeeps, ModeKeeps, OpenKeeps, CreateKeeps DEF StartUp
    <3>3. UNCHANGED <<settled, inUse, want>>
      BY <2>1 DEF StartUp, LoadSettings, QueryOption, QueryOn, SwitchOption, ConfigMode, OpenReceiver,
                  CreateTask, modem
    <3> QED BY <3>1, <3>2, <3>3 DEF GnssInv
  <2>2. ASSUME UNCHANGED startup, [Next]_vars PROVE GnssInv'
    <3>1. PolicyInv'
      BY <2>2, PolicySteps DEF GnssInv
    <3>2. StartTypeInv' /\ StartInv' /\ UNCHANGED <<settled, inUse, want>>
      BY <2>2 DEF GnssInv, startup, modem, StartTypeInv, StartInv, StartFacts, Passed, Ended,
                  Fits
    <3> QED BY <3>1, <3>2 DEF GnssInv
  <2>3. ASSUME NEW settings \in Settings, Restart(settings) PROVE GnssInv'
    BY <2>3, RestartKeeps
  <2> QED BY <2>1, <2>2, <2>3 DEF GnssNext
<1> QED BY <1>1, <1>2, PTL DEF GnssSpec

\* gnss_init's state is as declared; once it has its settings it gives up only after
\* MaxRetry + 1 attempts or without memory for its task, for any number of options and
\* retries (gnss.c:752-895).
THEOREM StartTypeCorrect == GnssSpec => []GnssTypeOK
<1>1. GnssInv => GnssTypeOK
  BY DEF GnssInv, PolicyInv, StartTypeInv, GnssTypeOK, Places
<1> QED BY <1>1, GnssInvariant, PTL

\* When positions start the receiver is on, in the stored mode, and every option has the
\* stored value, but for what took another command's late answer for its own or, as an
\* option, got none, whatever earlier attempts met (gnss.c:776-881).
THEOREM StartConfigures == GnssSpec => []Configured
<1>1. GnssInv => Configured
  BY DEF GnssInv, StartInv, Passed, Ended, Fits, Option, Configured
<1> QED BY <1>1, GnssInvariant, PTL

\* Options that take effect with the modem's next start are in use from the second start
\* with the same settings on, however often the first was cut off (gnss.c:773, 801).
THEOREM DelayedInEffect == GnssSpec => []InEffect
<1>1. GnssInv => InEffect
  BY DEF GnssInv, InEffect
<1> QED BY <1>1, GnssInvariant, PTL

\* Claim 3 of the policy (gnss.c:610) survives restarts at any point: fewer than M points in
\* a row are withheld.
THEOREM PolicyAcrossRestarts == GnssSpec => []OneInM
<1>1. GnssInv => OneInM
  BY DEF GnssInv, PolicyInv, OneInM
<1> QED BY <1>1, GnssInvariant, PTL
=============================================================================
