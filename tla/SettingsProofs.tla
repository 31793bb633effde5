--------------------------- MODULE SettingsProofs ---------------------------
(***************************************************************************)
(* Proofs about Settings, for any names, settings, priorities and bounds.  *)
(***************************************************************************)
EXTENDS Settings, FiniteSetTheorems, SequenceTheorems, TLAPS

Values == Names \cup {Cleared} \cup Choices
Places == {"start", "created", "line", "decide", "answer", "online", "restart", "stored"}
AnyPage == {p \in [cell : Cells, value : Values \cup {"read", Valid}] :
                p.value = Valid => p.cell = "meta"}

-----------------------------------------------------------------------------
(* Accesses do not overlap.                                                *)

Shape == /\ mode \in [Tasks -> Modes]
         /\ todo \in [Tasks -> Seq(AnyPage)]
         /\ place \in [Tasks -> Places]
         /\ name \in Values
         /\ cell \in [Cells -> Values \cup {Old, Valid}]
         /\ cell["name"] # Valid

\* who is inside an access has the processor, and the tick is off
Apart == /\ begun \subseteq {cpu} /\ begun \subseteq Tasks
         /\ begun # {} => ~ticking
         /\ \A t \in begun : todo[t] # <<>>

ApartInv == Shape /\ Apart

LEMMA PageTypes ==
  ASSUME NEW c \in Cells, NEW v \in Values \cup {Valid}, v = Valid => c = "meta"
  PROVE  Write(c, v) \in AnyPage /\ Read(c) \in AnyPage
  BY SettingsAssumption DEF Write, Read, AnyPage, Valid

LEMMA NotValid == \A v \in Values : v # Valid /\ v # "read" /\ v # Old
  BY SettingsAssumption DEF Values, Names

LEMMA RecordTypes ==
  ASSUME NEW r \in Records, NEW v \in Values
  PROVE  WriteRecord(r, v) \in Seq(AnyPage) /\ ReadRecord(r) \in Seq(AnyPage)
<1>1. Pages[r] \in Seq(Cells)
  <2>1. Pages["device"] = <<"name", "secret">> /\ Pages["gnss"] = <<"gnss">>
    BY DEF Pages
  <2>2. <<"name", "secret">> \in Seq(Cells) /\ <<"gnss">> \in Seq(Cells)
    BY DEF Cells
  <2> QED BY <2>1, <2>2 DEF Records
<1>2. \A i \in 1..Len(Pages[r]) : Pages[r][i] \in Cells
  BY <1>1
<1>3. \A i \in 1..Len(Pages[r]) : Write(Pages[r][i], v) \in AnyPage /\ Read(Pages[r][i]) \in AnyPage
  BY <1>2, PageTypes, NotValid
<1>4. Len(Pages[r]) \in Nat
  BY <1>1
<1> QED BY <1>3, <1>4 DEF WriteRecord, ReadRecord

LEMMA EraseTypes == Erase \in Seq(AnyPage) /\ <<Read("meta")>> \in Seq(AnyPage)
<1>1. Cleared \in Values /\ Valid \in Values \cup {Valid}
  BY DEF Values
<1>2. /\ Write("meta", Cleared) \in AnyPage /\ Write("name", Cleared) \in AnyPage
      /\ Write("secret", Cleared) \in AnyPage /\ Write("gnss", Cleared) \in AnyPage
      /\ Write("meta", Valid) \in AnyPage /\ Read("meta") \in AnyPage
  BY <1>1, PageTypes, NotValid DEF Cells
<1> QED BY <1>2 DEF Erase

LEMMA TailTypes ==
  ASSUME NEW q \in Seq(AnyPage), q # <<>>
  PROVE  /\ Tail(q) \in Seq(AnyPage) /\ Head(q) \in AnyPage /\ Head(q) = q[1]
         /\ Len(q) \in Nat /\ Len(q) > 0 /\ Len(Tail(q)) = Len(q) - 1
         /\ (Tail(q) = <<>> <=> Len(q) = 1)
         /\ \A i \in 1..Len(Tail(q)) : Tail(q)[i] = q[i + 1]
<1>1. Len(q) \in Nat /\ Len(q) > 0
  OBVIOUS
<1>2. /\ Tail(q) \in Seq(AnyPage) /\ Len(Tail(q)) = Len(q) - 1
      /\ \A i \in 1..Len(Tail(q)) : Tail(q)[i] = q[i + 1]
  BY <1>1
<1>3. Head(q) = q[1] /\ q[1] \in AnyPage
  BY <1>1
<1>4. Tail(q) = <<>> <=> Len(Tail(q)) = 0
  BY <1>2
<1> QED BY <1>1, <1>2, <1>3, <1>4

LEMMA ChosenReady ==
  ASSUME NEW m, NEW t \in Choose(m)
  PROVE  t = "idle" \/ (t \in Tasks /\ m[t] = "ready")
  BY DEF Choose, Ready

\* what a step does to the tasks' accesses when nobody begins or ends one
Elsewhere(t) == /\ begun' = begun /\ t \notin begun
                /\ \A u \in Tasks \ {t} : todo'[u] = todo[u]

LEMMA NotBegun ==
  ASSUME ApartInv, NEW t \in Tasks, NEW where, Runs(t, where)
  PROVE  t \notin begun /\ begun = {} /\ cpu = t
  BY DEF ApartInv, Apart, Runs

LEMMA StartsTypes ==
  ASSUME Shape, NEW t \in Tasks, NEW pages \in Seq(AnyPage), NEW next \in Places,
         Starts(t, pages, next)
  PROVE  todo' \in [Tasks -> Seq(AnyPage)] /\ place' \in [Tasks -> Places]
  BY DEF Shape, Starts

LEMMA StepKeepsApart ==
  ASSUME ApartInv, NEW t \in Tasks, Step(t)
  PROVE  ApartInv'
<1> USE SettingsAssumption
<1>1. CASE Begin(t)
  BY <1>1 DEF ApartInv, Shape, Apart, Begin, Access, Delay, store
<1>2. CASE Page(t)
  <2>1. t \in begun /\ cpu = t /\ todo[t] \in Seq(AnyPage) /\ todo[t] # <<>>
    BY <1>2 DEF Page, ApartInv, Apart, Shape
  <2>2. /\ Tail(todo[t]) \in Seq(AnyPage) /\ Head(todo[t]) \in AnyPage
        /\ (Tail(todo[t]) = <<>> <=> Len(todo[t]) = 1)
    BY <2>1, TailTypes
  <2>3. /\ todo' = [todo EXCEPT ![t] = Tail(@)]
        /\ begun' = IF Len(todo[t]) = 1 THEN begun \ {t} ELSE begun
        /\ UNCHANGED <<cpu, mode, ticking, place, name>>
        /\ cell' \in {cell, [cell EXCEPT ![Head(todo[t]).cell] = Head(todo[t]).value]}
        /\ Head(todo[t]).value = "read" => cell' = cell
    BY <1>2 DEF Page
  <2>4. CASE cell' = cell
    BY <2>1, <2>2, <2>3, <2>4 DEF ApartInv, Shape, Apart
  <2>5. CASE Head(todo[t]).value # "read" /\ cell' = [cell EXCEPT ![Head(todo[t]).cell] = Head(todo[t]).value]
    <3>1. /\ Head(todo[t]).cell \in Cells /\ Head(todo[t]).value \in Values \cup {Valid}
          /\ Head(todo[t]).value = Valid => Head(todo[t]).cell = "meta"
      BY <2>2, <2>5 DEF AnyPage
    <3>2. cell' \in [Cells -> Values \cup {Old, Valid}] /\ cell'["name"] # Valid
      BY <2>5, <3>1 DEF ApartInv, Shape, Cells
    <3>3. todo' \in [Tasks -> Seq(AnyPage)]
      BY <2>2, <2>3 DEF ApartInv, Shape
    <3>4. Shape'
      BY <2>3, <3>2, <3>3 DEF ApartInv, Shape
    <3>5. Apart'
      BY <2>1, <2>2, <2>3 DEF ApartInv, Shape, Apart
    <3> QED BY <3>4, <3>5 DEF ApartInv
  <2> QED BY <2>3, <2>4, <2>5
<1>3. ASSUME NEW where, Runs(t, where), begun' = begun, Shape'
      PROVE  ApartInv'
  <2>1. begun' = {}
    BY <1>3, NotBegun
  <2> QED BY <1>3, <2>1 DEF ApartInv, Apart
<1>4. CASE t = "main" /\ (Install \/ CreateTasks)
  <2>1. CASE Install
    <3>1. Runs("main", "start") /\ UNCHANGED <<tick, name, store>>
      BY <2>1 DEF Install
    <3>2. PICK pages \in Seq(AnyPage) : Starts("main", pages, "created")
      BY <2>1, EraseTypes DEF Install
    <3>3. todo' \in [Tasks -> Seq(AnyPage)] /\ place' \in [Tasks -> Places]
      BY <3>2, <1>4, StartsTypes DEF ApartInv, Places
    <3>4. Shape'
      BY <3>1, <3>3 DEF ApartInv, Shape, tick, store
    <3> QED BY <1>3, <1>4, <3>1, <3>4 DEF tick
  <2>2. CASE CreateTasks
    <3>1. Runs("main", "created") /\ begun' = begun
      BY <2>2 DEF CreateTasks, Leave
    <3>2. Shape'
      BY <2>2 DEF CreateTasks, Leave, ApartInv, Shape, store, Modes, Places
    <3> QED BY <1>3, <1>4, <3>1, <3>2
  <2> QED BY <1>4, <2>1, <2>2
<1>5. CASE t = "config" /\ (Command \/ WaitForLine \/ BackOff)
  <2>1. CASE Command
    <3>1. Runs("config", "line") /\ UNCHANGED <<tick, name, cell, last, torn, cuts>>
      BY <2>1 DEF Command
    <3>2. todo' \in [Tasks -> Seq(AnyPage)] /\ place' \in [Tasks -> Places]
      <4>1. CASE GoesTo("config", "start")
        BY <4>1 DEF GoesTo, ApartInv, Shape, Places
      <4>2. CASE \E pages \in Seq(AnyPage) : Starts("config", pages, "start")
        BY <4>2, <1>5, StartsTypes DEF ApartInv, Places
      <4>3. \A r \in Records : ReadRecord(r) \in Seq(AnyPage)
        BY RecordTypes DEF Values
      <4>4. \A d \in {OtherName, Cleared} : WriteRecord("device", d) \in Seq(AnyPage)
        BY RecordTypes DEF Values, Names, Records
      <4>5. \A g \in Choices : WriteRecord("gnss", g) \in Seq(AnyPage)
        BY RecordTypes DEF Values, Records
      <4> QED BY <2>1, <4>1, <4>2, <4>3, <4>4, <4>5 DEF Command, Set
    <3>3. Shape'
      BY <3>1, <3>2 DEF ApartInv, Shape, tick
    <3> QED BY <1>3, <1>5, <3>1, <3>3 DEF tick
  <2>2. CASE WaitForLine
    <3>1. Runs("config", "start") /\ begun' = begun
      BY <2>2 DEF WaitForLine, Leave
    <3>2. Shape'
      BY <2>2 DEF WaitForLine, GoesTo, Leave, ApartInv, Shape, store, Modes, Places
    <3> QED BY <1>3, <1>5, <3>1, <3>2
  <2>3. CASE BackOff
    <3>1. Runs("config", "start") /\ begun' = begun
      BY <2>3 DEF BackOff, Sleep
    <3>2. Shape'
      BY <2>3 DEF BackOff, Sleep, ApartInv, Shape, store, Modes, Places
    <3> QED BY <1>3, <1>5, <3>1, <3>2
  <2> QED BY <1>5, <2>1, <2>2, <2>3
<1>6. CASE t = "conn" /\ (Look \/ Decide \/ Answer)
  <2>1. CASE Look
    <3>1. Runs("conn", "start") /\ UNCHANGED <<tick, store>> /\ Starts("conn", ReadRecord("device"), "decide")
      BY <2>1 DEF Look
    <3>2. todo' \in [Tasks -> Seq(AnyPage)] /\ place' \in [Tasks -> Places]
      <4>1. Cleared \in Values /\ "device" \in Records
        BY DEF Values, Records
      <4>2. ReadRecord("device") \in Seq(AnyPage)
        BY <4>1, RecordTypes
      <4> QED BY <3>1, <4>2, <1>6, StartsTypes DEF ApartInv, Places
    <3>3. name' \in Values
      <4>1. /\ Imei \in Values /\ Cleared \in Values /\ name \in Values
            /\ cell["name"] \in Values \cup {Old}
        BY DEF ApartInv, Shape, Values, Names, Cells
      <4> QED BY <2>1, <4>1 DEF Look
    <3>4. Shape'
      BY <3>1, <3>2, <3>3 DEF ApartInv, Shape, tick, store
    <3> QED BY <1>3, <1>6, <3>1, <3>4 DEF tick
  <2>2. CASE Decide
    <3>1. Runs("conn", "decide") /\ begun' = begun /\ UNCHANGED <<name, store, todo>>
      BY <2>2 DEF Decide, Leave, Sleep, GoesTo
    <3>2. mode' \in [Tasks -> Modes] /\ place' \in [Tasks -> Places]
      BY <2>2 DEF Decide, Leave, Sleep, GoesTo, ApartInv, Shape, Modes, Places
    <3>3. Shape'
      BY <3>1, <3>2 DEF ApartInv, Shape, store
    <3> QED BY <1>3, <1>6, <3>1, <3>3
  <2>3. CASE Answer
    <3>1. Runs("conn", "answer") /\ UNCHANGED <<tick, name, store>>
      BY <2>3 DEF Answer
    <3>2. todo' \in [Tasks -> Seq(AnyPage)] /\ place' \in [Tasks -> Places]
      <4>1. WriteRecord("device", name) \in Seq(AnyPage)
        BY RecordTypes DEF ApartInv, Shape, Records
      <4>2. CASE Starts("conn", WriteRecord("device", name), "restart")
        BY <4>1, <4>2, <1>6, StartsTypes DEF ApartInv, Places
      <4>3. CASE GoesTo("conn", "restart")
        BY <4>3 DEF GoesTo, ApartInv, Shape, Places
      <4> QED BY <2>3, <4>2, <4>3 DEF Answer
    <3>3. Shape'
      BY <3>1, <3>2 DEF ApartInv, Shape, tick, store
    <3> QED BY <1>3, <1>6, <3>1, <3>3 DEF tick
  <2> QED BY <1>6, <2>1, <2>2, <2>3
<1>7. CASE t = "recv" /\ (Shadow \/ Pause)
  <2>1. CASE Shadow
    <3>1. Runs("recv", "start") /\ UNCHANGED <<tick, name, cell, last, torn, cuts>>
      BY <2>1 DEF Shadow
    <3>2. PICK g \in Choices : Starts("recv", WriteRecord("gnss", g), "stored")
      BY <2>1 DEF Shadow
    <3>3. WriteRecord("gnss", g) \in Seq(AnyPage)
      BY RecordTypes DEF Values, Records
    <3>4. todo' \in [Tasks -> Seq(AnyPage)] /\ place' \in [Tasks -> Places]
      BY <3>2, <3>3, <1>7, StartsTypes DEF ApartInv, Places
    <3>5. Shape'
      BY <3>1, <3>4 DEF ApartInv, Shape, tick
    <3> QED BY <1>3, <1>7, <3>1, <3>5 DEF tick
  <2>2. CASE Pause
    <3>1. begun' = begun /\ \E where : Runs("recv", where)
      BY <2>2 DEF Pause, Sleep
    <3>2. Shape'
      BY <2>2 DEF Pause, GoesTo, Sleep, ApartInv, Shape, store, Modes, Places
    <3> QED BY <1>3, <1>7, <3>1, <3>2
  <2> QED BY <1>7, <2>1, <2>2
<1> QED BY <1>1, <1>2, <1>4, <1>5, <1>6, <1>7 DEF Step

LEMMA OthersKeepApart ==
  ASSUME ApartInv, Timer \/ Line \/ Restart \/ PowerCut \/ UNCHANGED vars
  PROVE  ApartInv'
<1> USE SettingsAssumption, TickAssumption
<1>1. CASE Timer
  <2>1. UNCHANGED <<todo, place, name, store, begun>>
    BY <1>1 DEF Timer, TickInterrupt, Suppress
  <2>2. mode' \in [Tasks -> Modes] /\ begun = {}
    BY <1>1 DEF Timer, TickInterrupt, Suppress, ApartInv, Shape, Apart, Modes
  <2> QED BY <2>1, <2>2 DEF ApartInv, Shape, Apart, store
<1>2. CASE Line
  <2>1. UNCHANGED <<todo, place, name, store, begun, ticking>>
    BY <1>2 DEF Line, WakeFromISR
  <2>2. mode' \in [Tasks -> Modes] /\ (cpu' = cpu \/ cpu = "idle")
    BY <1>2 DEF Line, WakeFromISR, ApartInv, Shape, Modes
  <2>3. cpu' = cpu \/ begun = {}
    BY <2>2 DEF ApartInv, Apart
  <2> QED BY <2>1, <2>2, <2>3 DEF ApartInv, Shape, Apart, store
<1>3. CASE Restart \/ PowerCut
  <2>1. Reset /\ cell' = cell
    BY <1>3 DEF Restart, PowerCut, store
  <2>2. <<>> \in Seq(AnyPage) /\ Cleared \in Values
    BY DEF Values
  <2> QED BY <2>1, <2>2 DEF Reset, TickReset, ApartInv, Shape, Apart, Modes, Places
<1>4. CASE UNCHANGED vars
  BY <1>4 DEF vars, tick, store, ApartInv, Shape, Apart
<1> QED BY <1>1, <1>2, <1>3, <1>4

LEMMA InitApart == Init => ApartInv
<1> SUFFICES ASSUME Init PROVE ApartInv
  OBVIOUS
<1>1. <<>> \in Seq(AnyPage) /\ Cleared \in Values
  BY DEF Values
<1>2. cell \in [Cells -> Values \cup {Old, Valid}] /\ cell["name"] # Valid
  BY NotValid, SettingsAssumption DEF Init, Cells, Values, Names
<1> QED BY <1>1, <1>2 DEF Init, TickInit, Start, ApartInv, Shape, Apart, Modes, Places

LEMMA ApartInvariant == Spec => []ApartInv
<1>1. ApartInv /\ [Next]_vars => ApartInv'
  BY StepKeepsApart, OthersKeepApart DEF Next
<1> QED BY <1>1, InitApart, PTL DEF Spec

\* For any priorities and settings no access to the EEPROM begins while another
\* task is in the middle of one, although nothing locks the bus (storage_iic.c).
THEOREM NoTwoAccesses == Spec => []RecordsApart
<1>1. ApartInv => RecordsApart
  <2> SUFFICES ASSUME ApartInv PROVE Cardinality(begun) <= 1
    BY DEF RecordsApart
  <2>1. begun \subseteq {cpu}
    BY DEF ApartInv, Apart
  <2>2. IsFiniteSet({cpu}) /\ Cardinality({cpu}) = 1
    BY FS_Singleton
  <2> QED BY <2>1, <2>2, FS_Subset
<1> QED BY <1>1, ApartInvariant, PTL

-----------------------------------------------------------------------------
(* What is stored is whole.                                                *)

Runnable == cpu \in Tasks => mode[cpu] = "ready"

Device(v) == <<Write("name", v), Write("secret", v)>>
AllRead(q) == \A i \in 1..Len(q) : q[i].value = "read"

\* what a task other than main still has to do
Begins(q) == \/ AllRead(q)
             \/ \E v \in Values : q = <<Write("gnss", v)>> \/ q = Device(v)
Work(t) == \/ Begins(todo[t])
           \/ t \in begun /\ todo[t] = <<Write("secret", cell["name"])>>

Empty(cs) == \A c \in cs : cell[c] = Cleared
Clear(c) == Write(c, Cleared)
Mark == Write("meta", Valid)
Left2 == <<Clear("name"), Clear("secret"), Clear("gnss"), Mark>>
Left3 == <<Clear("secret"), Clear("gnss"), Mark>>
Left4 == <<Clear("gnss"), Mark>>
Left5 == <<Mark>>
Erasing(q) == \/ q = Erase \/ q = Left2
              \/ q = Left3 /\ Empty({"name"})
              \/ q = Left4 /\ Empty({"name", "secret"})
              \/ q = Left5 /\ Empty({"name", "secret", "gnss"})

MainWork == \/ place["main"] = "start" /\ todo["main"] = <<>>
            \/ /\ place["main"] = "created"
               /\ IF cell["meta"] = Valid THEN AllRead(todo["main"])
                                          ELSE Erasing(todo["main"])

Others == Tasks \ {"main"}

\* until the metadata are written no other task exists and no record was written
Untouched == cell["meta"] # Valid =>
                /\ \A t \in Others : mode[t] = "absent" /\ todo[t] = <<>>
                /\ last = [r \in Records |-> Cleared] /\ torn = {}

\* a device that never had a whole name and secret has no secret
Unregistered == cell["meta"] = Valid /\ last["device"] = Cleared => cell["secret"] = Cleared

Ledger == last \in [Records -> Values] /\ torn \subseteq Records

Tasking == (\A t \in Others : Work(t)) /\ MainWork /\ Untouched /\ Runnable
Kept == Ledger /\ LastSetKept /\ NoOldData /\ Unregistered
StoreInv == ApartInv /\ Tasking /\ Kept

LEMMA EraseTails ==
  /\ Head(Erase) = Clear("meta") /\ Tail(Erase) = Left2 /\ Len(Erase) = 5
  /\ Head(Left2) = Clear("name") /\ Tail(Left2) = Left3 /\ Len(Left2) = 4
  /\ Head(Left3) = Clear("secret") /\ Tail(Left3) = Left4 /\ Len(Left3) = 3
  /\ Head(Left4) = Clear("gnss") /\ Tail(Left4) = Left5 /\ Len(Left4) = 2
  /\ Head(Left5) = Mark /\ Tail(Left5) = <<>> /\ Len(Left5) = 1
<1>1. Head(Erase) = Clear("meta") /\ Tail(Erase) = Left2 /\ Len(Erase) = 5
  BY DEF Erase, Left2, Clear, Mark
<1>2. Head(Left2) = Clear("name") /\ Tail(Left2) = Left3 /\ Len(Left2) = 4
  BY DEF Left2, Left3
<1>3. Head(Left3) = Clear("secret") /\ Tail(Left3) = Left4 /\ Len(Left3) = 3
  BY DEF Left3, Left4
<1>4. Head(Left4) = Clear("gnss") /\ Tail(Left4) = Left5 /\ Len(Left4) = 2
  BY DEF Left4, Left5
<1>5. Head(Left5) = Mark /\ Tail(Left5) = <<>> /\ Len(Left5) = 1
  BY DEF Left5
<1> QED BY <1>1, <1>2, <1>3, <1>4, <1>5

LEMMA PagesAre ==
  /\ Pages["device"] = <<"name", "secret">> /\ Pages["gnss"] = <<"gnss">>
  /\ Len(Pages["device"]) = 2 /\ Len(Pages["gnss"]) = 1
  /\ \A i \in 1..2 : Pages["device"][i] = IF i = 1 THEN "name" ELSE "secret"
  /\ \A i \in 1..1 : Pages["gnss"][i] = "gnss"
  BY DEF Pages

LEMMA Tuples ==
  ASSUME NEW v \in Values
  PROVE  /\ WriteRecord("device", v) = Device(v)
         /\ WriteRecord("gnss", v) = <<Write("gnss", v)>>
         /\ AllRead(ReadRecord("device")) /\ AllRead(ReadRecord("gnss"))
         /\ AllRead(<<Read("meta")>>) /\ AllRead(<<>>)
<1>1. /\ Pages["device"] = <<"name", "secret">> /\ Pages["gnss"] = <<"gnss">>
      /\ Len(<<"name", "secret">>) = 2 /\ Len(<<"gnss">>) = 1
  BY DEF Pages
<1>2. WriteRecord("device", v) = Device(v)
  BY <1>1 DEF WriteRecord, Device
<1>3. WriteRecord("gnss", v) = <<Write("gnss", v)>>
  BY <1>1 DEF WriteRecord
<1>4. \A r \in Records : AllRead(ReadRecord(r))
  BY <1>1 DEF ReadRecord, AllRead, Read, Records
<1>5. AllRead(<<Read("meta")>>) /\ AllRead(<<>>)
  BY DEF AllRead, Read
<1> QED BY <1>2, <1>3, <1>4, <1>5 DEF Records

\* a step that touches neither the EEPROM nor an access that has begun
LEMMA QuietKeeps ==
  ASSUME StoreInv, UNCHANGED <<cell, last, torn>>, begun \subseteq begun',
         \A t \in begun : todo'[t] = todo[t]
  PROVE  Kept'
<1>1. ASSUME NEW t \in Tasks, NEW r \in Records, Writing(t, r)
      PROVE  Writing(t, r)'
  BY <1>1 DEF Writing
<1>2. LastSetKept'
  BY <1>1 DEF StoreInv, Kept, Ledger, LastSetKept
<1> QED BY <1>2 DEF StoreInv, Kept, Ledger, NoOldData, Unregistered

\* a task other than main that has the processor starts an access, or none
LEMMA OtherStarts ==
  ASSUME StoreInv, NEW t \in Others, NEW where, Runs(t, where),
         UNCHANGED <<cell, last, torn, begun>>,
         Begins(todo'[t]), \A u \in Tasks \ {t} : todo'[u] = todo[u],
         place'["main"] = place["main"], Runnable'
  PROVE  Tasking' /\ Kept'
<1> USE SettingsAssumption
<1>1. t \in Tasks /\ t # "main" /\ "main" \in Tasks /\ begun = {} /\ cpu = t
  BY NotBegun DEF Others, StoreInv
<1>2. mode[t] = "ready" /\ cell["meta"] = Valid
  BY <1>1 DEF StoreInv, Tasking, Runnable, Untouched
<1>3. \A u \in Others : Work(u)'
  BY <1>1 DEF StoreInv, Tasking, Work, Begins, Others
<1>4. MainWork'
  BY <1>1, <1>2 DEF StoreInv, Tasking, MainWork
<1>5. Untouched'
  BY <1>2 DEF Untouched
<1>6. Kept'
  BY <1>1, QuietKeeps
<1> QED BY <1>3, <1>4, <1>5, <1>6 DEF Tasking

LEMMA ChoiceRuns ==
  ASSUME cpu' \in Choose(mode') PROVE Runnable'
  BY ChosenReady, TickAssumption DEF Runnable, Choose, Ready

LEMMA ConfigKeeps ==
  ASSUME StoreInv, Command \/ WaitForLine \/ BackOff
  PROVE  Tasking' /\ Kept'
<1> USE SettingsAssumption
<1>1. "config" \in Others
  BY DEF Others
<1>2. CASE Command
  <2>1. /\ Runs("config", "line") /\ UNCHANGED <<tick, name, cell, last, torn, cuts>>
    BY <1>2 DEF Command
  <2>2. /\ Begins(todo'["config"]) /\ \A u \in Tasks \ {"config"} : todo'[u] = todo[u]
        /\ place'["main"] = place["main"]
    <3>1. CASE GoesTo("config", "start")
      BY <3>1, <2>1 DEF GoesTo, Runs, StoreInv, ApartInv, Shape, Begins, AllRead
    <3>2. ASSUME NEW q, Starts("config", q, "start"), Begins(q)
          PROVE  /\ Begins(todo'["config"]) /\ \A u \in Tasks \ {"config"} : todo'[u] = todo[u]
                 /\ place'["main"] = place["main"]
      BY <3>2 DEF Starts, StoreInv, ApartInv, Shape
    <3>3. \A r \in Records : Begins(ReadRecord(r))
      BY Tuples DEF Begins, Records, Values
    <3>4. \A v \in Values : Begins(WriteRecord("device", v)) /\ Begins(WriteRecord("gnss", v))
      BY Tuples DEF Begins
    <3>5. {OtherName, Cleared} \cup Choices \subseteq Values
      BY DEF Values, Names
    <3> QED BY <1>2, <3>1, <3>2, <3>3, <3>4, <3>5 DEF Command, Set
  <2>3. Runnable'
    BY <2>1 DEF StoreInv, Tasking, Runnable, tick
  <2> QED BY <1>1, <2>1, <2>2, <2>3, OtherStarts DEF tick
<1>3. CASE WaitForLine \/ BackOff
  <2>1. /\ Runs("config", "start") /\ UNCHANGED <<todo, name, store, begun>>
        /\ cpu' \in Choose(mode') /\ place'["main"] = place["main"]
    BY <1>3 DEF WaitForLine, BackOff, GoesTo, Leave, Sleep, StoreInv, ApartInv, Shape
  <2>2. Begins(todo'["config"])
    BY <2>1 DEF Runs, Begins, AllRead
  <2> QED BY <1>1, <2>1, <2>2, ChoiceRuns, OtherStarts DEF store
<1> QED BY <1>2, <1>3

LEMMA ConnKeeps ==
  ASSUME StoreInv, Look \/ Decide \/ Answer
  PROVE  Tasking' /\ Kept'
<1> USE SettingsAssumption
<1>1. "conn" \in Others
  BY DEF Others
<1>2. CASE Look \/ Answer
  <2>1. UNCHANGED <<tick, store>> /\ \E where : Runs("conn", where)
    BY <1>2 DEF Look, Answer
  <2>2. /\ Begins(todo'["conn"]) /\ \A u \in Tasks \ {"conn"} : todo'[u] = todo[u]
        /\ place'["main"] = place["main"]
    <3>1. CASE GoesTo("conn", "restart")
      BY <3>1, <2>1 DEF GoesTo, Runs, StoreInv, ApartInv, Shape, Begins, AllRead
    <3>2. ASSUME NEW q, NEW next, Starts("conn", q, next), Begins(q)
          PROVE  /\ Begins(todo'["conn"]) /\ \A u \in Tasks \ {"conn"} : todo'[u] = todo[u]
                 /\ place'["main"] = place["main"]
      BY <3>2 DEF Starts, StoreInv, ApartInv, Shape
    <3>3. Begins(ReadRecord("device")) /\ Begins(WriteRecord("device", name))
      BY Tuples DEF Begins, StoreInv, ApartInv, Shape
    <3> QED BY <1>2, <3>1, <3>2, <3>3 DEF Look, Answer
  <2>3. Runnable'
    BY <2>1 DEF StoreInv, Tasking, Runnable, tick
  <2> QED BY <1>1, <2>1, <2>2, <2>3, OtherStarts DEF tick, store
<1>3. CASE Decide
  <2>1. /\ Runs("conn", "decide") /\ UNCHANGED <<todo, name, store, begun>>
        /\ cpu' \in Choose(mode') /\ place'["main"] = place["main"]
    BY <1>3 DEF Decide, GoesTo, Leave, Sleep, StoreInv, ApartInv, Shape
  <2>2. Begins(todo'["conn"])
    BY <2>1 DEF Runs, Begins, AllRead
  <2> QED BY <1>1, <2>1, <2>2, ChoiceRuns, OtherStarts DEF store
<1> QED BY <1>2, <1>3

LEMMA RecvKeeps ==
  ASSUME StoreInv, Shadow \/ Pause
  PROVE  Tasking' /\ Kept'
<1> USE SettingsAssumption
<1>1. "recv" \in Others
  BY DEF Others
<1>2. CASE Shadow
  <2>1. Runs("recv", "start") /\ UNCHANGED <<tick, cell, last, torn>>
    BY <1>2 DEF Shadow
  <2>2. PICK g \in Choices : Starts("recv", WriteRecord("gnss", g), "stored")
    BY <1>2 DEF Shadow
  <2>3. Begins(WriteRecord("gnss", g))
    BY Tuples DEF Begins, Values
  <2>4. /\ Begins(todo'["recv"]) /\ \A u \in Tasks \ {"recv"} : todo'[u] = todo[u]
        /\ place'["main"] = place["main"]
    BY <2>2, <2>3 DEF Starts, StoreInv, ApartInv, Shape
  <2>5. Runnable'
    BY <2>1 DEF StoreInv, Tasking, Runnable, tick
  <2> QED BY <1>1, <2>1, <2>4, <2>5, OtherStarts DEF tick
<1>3. CASE Pause
  <2>1. /\ \E where : Runs("recv", where)
        /\ UNCHANGED <<todo, name, store, begun>>
        /\ cpu' \in Choose(mode') /\ place'["main"] = place["main"]
    BY <1>3 DEF Pause, GoesTo, Sleep, StoreInv, ApartInv, Shape
  <2>2. Begins(todo'["recv"])
    BY <2>1 DEF Runs, Begins, AllRead
  <2> QED BY <1>1, <2>1, <2>2, ChoiceRuns, OtherStarts DEF store
<1> QED BY <1>2, <1>3

LEMMA MainKeeps ==
  ASSUME StoreInv, Install \/ CreateTasks
  PROVE  Tasking' /\ Kept'
<1> USE SettingsAssumption
<1>1. CASE Install
  <2>1. Runs("main", "start") /\ UNCHANGED <<tick, name, store>>
    BY <1>1 DEF Install
  <2>2. begun = {} /\ "main" \in Tasks
    BY <2>1, NotBegun DEF StoreInv
  <2>3. /\ todo' = [todo EXCEPT !["main"] = IF cell["meta"] = Valid THEN <<Read("meta")>> ELSE Erase]
        /\ place' = [place EXCEPT !["main"] = "created"]
    BY <1>1 DEF Install, Starts
  <2>4. MainWork'
    <3>1. AllRead(<<Read("meta")>>)
      BY Tuples DEF Values
    <3> QED BY <2>1, <2>2, <2>3, <3>1 DEF MainWork, StoreInv, ApartInv, Shape, store, Erasing
  <2>5. \A u \in Others : todo'[u] = todo[u]
    BY <2>3 DEF Others, StoreInv, ApartInv, Shape
  <2>6. (\A u \in Others : Work(u)') /\ Untouched' /\ Runnable'
    BY <2>1, <2>5 DEF StoreInv, Tasking, Work, Begins, Untouched, Runnable, store, tick, Others
  <2>7. Kept'
    BY <2>1, <2>2, QuietKeeps DEF store, tick
  <2> QED BY <2>4, <2>6, <2>7 DEF Tasking
<1>2. CASE CreateTasks
  <2>1. /\ Runs("main", "created") /\ UNCHANGED <<todo, place, name, store, begun>>
        /\ cpu' \in Choose(mode')
    BY <1>2 DEF CreateTasks, Leave
  <2>2. begun = {} /\ "main" \in Tasks
    BY <2>1, NotBegun DEF StoreInv
  <2>3. cell["meta"] = Valid
    <3> SUFFICES ASSUME cell["meta"] # Valid PROVE FALSE
      OBVIOUS
    <3>1. Erasing(todo["main"]) /\ todo["main"] = <<>>
      BY <2>1 DEF StoreInv, Tasking, MainWork, Runs
    <3> QED BY <3>1 DEF Erasing, Erase, Left2, Left3, Left4, Left5
  <2>4. (\A u \in Others : Work(u)') /\ MainWork' /\ Untouched'
    BY <2>1, <2>3 DEF StoreInv, Tasking, Work, Begins, MainWork, Untouched, store
  <2>5. Runnable' /\ Kept'
    BY <2>1, <2>2, QuietKeeps, ChoiceRuns DEF store
  <2> QED BY <2>4, <2>5 DEF Tasking
<1> QED BY <1>1, <1>2

LEMMA BeginKeeps ==
  ASSUME StoreInv, NEW t \in Tasks, Begin(t)
  PROVE  Tasking' /\ Kept'
<1>1. /\ begun' = begun \cup {t} /\ UNCHANGED <<cpu, mode, todo, place, cell, last, torn>>
  BY DEF Begin, Access, store
<1>2. Kept'
  BY <1>1, QuietKeeps
<1>3. (\A u \in Others : Work(u)') /\ Untouched' /\ Runnable'
  BY <1>1 DEF StoreInv, Tasking, Work, Begins, Untouched, Runnable
<1>4. MainWork'
  BY <1>1 DEF StoreInv, Tasking, MainWork, Erasing, Empty
<1> QED BY <1>2, <1>3, <1>4 DEF Tasking

\* main's pages: nothing or the erasure
LEMMA MainPageKeeps ==
  ASSUME StoreInv, Page("main")
  PROVE  Tasking' /\ Kept'
<1> USE SettingsAssumption
<1> DEFINE q == todo["main"]
<1>1. /\ "main" \in begun /\ "main" \in Tasks /\ q \in Seq(AnyPage) /\ q # <<>>
      /\ begun \subseteq {"main"} /\ cpu = "main"
  BY DEF Page, StoreInv, ApartInv, Apart, Shape
<1>2. /\ todo' = [todo EXCEPT !["main"] = Tail(q)] /\ begun' \subseteq begun
      /\ UNCHANGED <<cpu, mode, place>>
      /\ todo'["main"] = Tail(q) /\ \A u \in Others : todo'[u] = todo[u]
  BY DEF Page, Others, StoreInv, ApartInv, Shape
<1>3. \A u \in Tasks, r \in Records : ~Writing(u, r) /\ ~Writing(u, r)'
  BY <1>1, <1>2 DEF Writing
<1>4. Runnable'
  BY <1>2 DEF StoreInv, Tasking, Runnable
<1>5. \A u \in Others : Work(u)'
  <2> SUFFICES ASSUME NEW u \in Others PROVE Work(u)'
    OBVIOUS
  <2>1. u \notin begun /\ todo'[u] = todo[u]
    BY <1>1, <1>2 DEF Others
  <2> QED BY <2>1 DEF StoreInv, Tasking, Work, Begins
<1>6. CASE cell["meta"] = Valid
  <2>1. AllRead(q) /\ place["main"] = "created"
    BY <1>1, <1>6 DEF StoreInv, Tasking, MainWork
  <2>2. Head(q).value = "read" /\ AllRead(Tail(q))
    BY <1>1, <2>1, TailTypes DEF AllRead
  <2>3. UNCHANGED <<cell, last, torn>>
    BY <2>2 DEF Page
  <2>4. MainWork' /\ Untouched'
    BY <1>2, <1>6, <2>1, <2>2, <2>3 DEF MainWork, Untouched
  <2>5. Kept'
    BY <1>3, <2>3 DEF StoreInv, Kept, Ledger, LastSetKept, NoOldData, Unregistered
  <2> QED BY <1>4, <1>5, <2>4, <2>5 DEF Tasking
<1>7. CASE cell["meta"] # Valid
  <2>1. Erasing(q) /\ place["main"] = "created"
    BY <1>1, <1>7 DEF StoreInv, Tasking, MainWork
  <2>2. /\ last = [r \in Records |-> Cleared] /\ torn = {}
        /\ \A t \in Others : mode[t] = "absent" /\ todo[t] = <<>>
    BY <1>7 DEF StoreInv, Tasking, Untouched
  <2>3. cell \in [Cells -> Values \cup {Old, Valid}] /\ Cleared # Valid /\ Cleared # "read" /\ Valid # "read"
    BY DEF StoreInv, ApartInv, Shape, Valid
  <2>4. ASSUME NEW c \in Cells, Head(q) = Clear(c), Len(q) # 1
        PROVE  /\ UNCHANGED <<last, torn>> /\ cell' = [cell EXCEPT ![c] = Cleared]
               /\ cell'["meta"] # Valid /\ Kept' /\ Untouched'
    <3>1. Clear(c).cell = c /\ Clear(c).value = Cleared
      BY DEF Clear, Write
    <3>2. UNCHANGED <<last, torn>> /\ cell' = [cell EXCEPT ![c] = Cleared]
      BY <2>3, <2>4, <3>1 DEF Page
    <3>3. cell'["meta"] # Valid
      BY <1>7, <2>3, <3>2 DEF Cells
    <3>4. Kept'
      BY <3>2, <3>3 DEF StoreInv, Kept, Ledger, LastSetKept, NoOldData, Unregistered
    <3>5. Untouched'
      BY <1>2, <2>2, <3>2 DEF Untouched
    <3> QED BY <3>2, <3>3, <3>4, <3>5
  <2>5. CASE q = Erase
    <3>1. /\ cell'["meta"] # Valid /\ Kept' /\ Untouched' /\ Tail(q) = Left2
      BY <2>4, <2>5, EraseTails DEF Cells
    <3>2. MainWork'
      BY <1>2, <2>1, <3>1 DEF MainWork, Erasing
    <3> QED BY <1>4, <1>5, <3>1, <3>2 DEF Tasking
  <2>6. CASE q = Left2
    <3>1. /\ cell'["meta"] # Valid /\ Kept' /\ Untouched' /\ cell'["name"] = Cleared /\ Tail(q) = Left3
      BY <2>3, <2>4, <2>6, EraseTails DEF Cells
    <3>2. MainWork'
      BY <1>2, <2>1, <3>1 DEF MainWork, Erasing, Empty
    <3> QED BY <1>4, <1>5, <3>1, <3>2 DEF Tasking
  <2>7. CASE q = Left3 /\ Empty({"name"})
    <3>1. /\ cell'["meta"] # Valid /\ Kept' /\ Untouched' /\ cell'["secret"] = Cleared
          /\ cell'["name"] = Cleared /\ Tail(q) = Left4
      BY <2>3, <2>4, <2>7, EraseTails DEF Cells, Empty
    <3>2. MainWork'
      BY <1>2, <2>1, <3>1 DEF MainWork, Erasing, Empty
    <3> QED BY <1>4, <1>5, <3>1, <3>2 DEF Tasking
  <2>8. CASE q = Left4 /\ Empty({"name", "secret"})
    <3>1. /\ cell'["meta"] # Valid /\ Kept' /\ Untouched' /\ cell'["gnss"] = Cleared
          /\ cell'["name"] = Cleared /\ cell'["secret"] = Cleared /\ Tail(q) = Left5
      BY <2>3, <2>4, <2>8, EraseTails DEF Cells, Empty
    <3>2. MainWork'
      BY <1>2, <2>1, <3>1 DEF MainWork, Erasing, Empty
    <3> QED BY <1>4, <1>5, <3>1, <3>2 DEF Tasking
  <2>9. CASE q = Left5 /\ Empty({"name", "secret", "gnss"})
    <3>1. Head(q) = Mark /\ Tail(q) = <<>> /\ Mark.cell = "meta" /\ Mark.value = Valid
      BY <2>9, EraseTails DEF Mark, Write
    <3>2. UNCHANGED <<last, torn>> /\ cell' = [cell EXCEPT !["meta"] = Valid]
      BY <2>3, <3>1 DEF Page
    <3>3. /\ cell'["meta"] = Valid
          /\ \A c \in {"name", "secret", "gnss"} : cell'[c] = Cleared
      BY <2>3, <2>9, <3>2 DEF Empty, Cells
    <3>4. NoOldData' /\ Unregistered' /\ Ledger'
      BY <2>2, <3>2, <3>3 DEF NoOldData, Unregistered, Cells, StoreInv, Kept, Ledger, Valid
    <3>5. LastSetKept'
      <4>1. \A r \in Records : \A i \in 1..Len(Pages[r]) : cell'[Pages[r][i]] = Cleared
        BY <3>3, PagesAre DEF Records
      <4> QED BY <4>1, <2>2, <3>2 DEF LastSetKept
    <3>6. MainWork' /\ Untouched'
      BY <1>2, <2>1, <3>1, <3>3, Tuples DEF MainWork, Untouched, Values
    <3> QED BY <1>4, <1>5, <3>4, <3>5, <3>6 DEF Tasking, Kept
  <2> QED BY <2>1, <2>5, <2>6, <2>7, <2>8, <2>9 DEF Erasing
<1> QED BY <1>6, <1>7

\* the other tasks' pages: a read, or a page of a record
LEMMA OtherPageKeeps ==
  ASSUME StoreInv, NEW t \in Others, Page(t)
  PROVE  Tasking' /\ Kept'
<1> USE SettingsAssumption
<1> DEFINE q == todo[t]
<1>1. /\ t \in begun /\ t \in Tasks /\ t # "main" /\ "main" \in Tasks
      /\ q \in Seq(AnyPage) /\ q # <<>> /\ begun = {t}
  BY DEF Page, StoreInv, ApartInv, Apart, Shape, Others
<1>2. /\ todo' = [todo EXCEPT ![t] = Tail(q)]
      /\ begun' = IF Len(q) = 1 THEN begun \ {t} ELSE begun
      /\ UNCHANGED <<cpu, mode, place>>
      /\ todo'[t] = Tail(q) /\ \A u \in Tasks \ {t} : todo'[u] = todo[u]
  BY DEF Page, StoreInv, ApartInv, Shape, Others
<1>3. cell["meta"] = Valid
  BY <1>1 DEF StoreInv, Tasking, Untouched
<1>4. ASSUME cell'["meta"] = Valid, Work(t)'
      PROVE  Tasking'
  <2>1. \A u \in Others : Work(u)'
    <3> SUFFICES ASSUME NEW u \in Others, u # t PROVE Work(u)'
      BY <1>4
    <3>1. u \notin begun /\ todo'[u] = todo[u]
      BY <1>1, <1>2 DEF Others
    <3> QED BY <3>1 DEF StoreInv, Tasking, Work, Begins
  <2>2. MainWork' /\ Untouched' /\ Runnable'
    BY <1>1, <1>2, <1>3, <1>4 DEF StoreInv, Tasking, MainWork, Untouched, Runnable
  <2> QED BY <2>1, <2>2 DEF Tasking
<1>5. cell \in [Cells -> Values \cup {Old, Valid}] /\ last \in [Records -> Values] /\ torn \subseteq Records
  BY DEF StoreInv, ApartInv, Shape, Kept, Ledger
<1>6. ASSUME NEW r \in Records, NEW u \in Tasks, Writing(u, r)
      PROVE  u = t /\ Head(q).value # "read" /\ RecordOf(Head(q).cell) = r
  BY <1>1, <1>6 DEF Writing
<1>7. CASE AllRead(q)
  <2>1. Head(q).value = "read" /\ AllRead(Tail(q))
    BY <1>1, <1>7, TailTypes DEF AllRead
  <2>2. UNCHANGED <<cell, last, torn>>
    BY <2>1 DEF Page
  <2>3. Work(t)'
    BY <1>2, <2>1 DEF Work, Begins
  <2>4. LastSetKept'
    BY <1>6, <2>1, <2>2 DEF StoreInv, Kept, LastSetKept
  <2>5. Kept'
    BY <2>2, <2>4 DEF StoreInv, Kept, Ledger, NoOldData, Unregistered
  <2> QED BY <1>3, <1>4, <2>2, <2>3, <2>5
<1>8. ASSUME NEW v \in Values, q = <<Write("gnss", v)>>
      PROVE  Tasking' /\ Kept'
  <2>1. Head(q) = Write("gnss", v) /\ Tail(q) = <<>> /\ Len(q) = 1
    BY <1>8
  <2>2. /\ Write("gnss", v).cell = "gnss" /\ Write("gnss", v).value = v
        /\ RecordOf("gnss") = "gnss" /\ v # "read" /\ v # Old
    BY NotValid DEF Write, RecordOf
  <2>3. /\ cell' = [cell EXCEPT !["gnss"] = v] /\ last' = [last EXCEPT !["gnss"] = v]
        /\ torn' = torn \ {"gnss"} /\ begun' = {}
    BY <1>1, <1>2, <2>1, <2>2 DEF Page
  <2>4. /\ cell'["gnss"] = v /\ last'["gnss"] = v /\ last'["device"] = last["device"]
        /\ \A c \in Cells \ {"gnss"} : cell'[c] = cell[c]
    BY <1>5, <2>3 DEF Records, Cells
  <2>5. \A u \in Tasks : ~Writing(u, "device")
    BY <1>6, <2>1, <2>2 DEF Records
  <2>6. LastSetKept'
    <3> SUFFICES ASSUME NEW r \in Records \ torn', NEW i \in 1..Len(Pages[r])
                 PROVE  cell'[Pages[r][i]] = last'[r]
      BY DEF LastSetKept
    <3>1. CASE r = "gnss"
      BY <2>4, <3>1, PagesAre
    <3>2. CASE r = "device"
      <4>1. "device" \notin torn /\ cell[Pages[r][i]] = last[r]
        BY <1>3, <2>3, <2>5, <3>2 DEF StoreInv, Kept, LastSetKept
      <4>2. Pages[r][i] \in {"name", "secret"}
        BY <3>2, PagesAre
      <4> QED BY <2>4, <3>2, <4>1, <4>2 DEF Cells
    <3> QED BY <3>1, <3>2 DEF Records
  <2>7. Ledger' /\ NoOldData' /\ Unregistered'
    BY <1>3, <1>5, <2>2, <2>3, <2>4 DEF StoreInv, Kept, Ledger, NoOldData, Unregistered, Cells
  <2>8. Work(t)' /\ cell'["meta"] = Valid
    BY <1>2, <1>3, <2>1, <2>4, Tuples DEF Work, Begins, Values, Cells
  <2> QED BY <1>4, <2>6, <2>7, <2>8 DEF Kept
<1>9. ASSUME NEW v \in Values, q = Device(v)
      PROVE  Tasking' /\ Kept'
  <2>1. Head(q) = Write("name", v) /\ Tail(q) = <<Write("secret", v)>> /\ Len(q) = 2
    BY <1>9 DEF Device
  <2>2. /\ Write("name", v).cell = "name" /\ Write("name", v).value = v
        /\ Write("secret", v).cell = "secret" /\ Write("secret", v).value = v
        /\ RecordOf("name") = "device" /\ RecordOf("secret") = "device" /\ v # "read" /\ v # Old
    BY NotValid DEF Write, RecordOf
  <2>3. cell' = [cell EXCEPT !["name"] = v] /\ UNCHANGED <<last, torn>> /\ begun' = begun
    BY <1>1, <1>2, <2>1, <2>2 DEF Page
  <2>4. cell'["name"] = v /\ \A c \in Cells \ {"name"} : cell'[c] = cell[c]
    BY <1>5, <2>3 DEF Cells
  <2>5. Writing(t, "device")'
    <3>1. todo'[t] = <<Write("secret", v)>>
      BY <1>2, <2>1
    <3>2. Head(todo'[t]) = Write("secret", v)
      BY <3>1
    <3> QED BY <1>1, <2>2, <2>3, <3>2 DEF Writing
  <2>6. \A u \in Tasks : ~Writing(u, "gnss")
    BY <1>6, <2>1, <2>2 DEF Records
  <2>7. LastSetKept'
    <3> SUFFICES ASSUME NEW r \in Records \ torn', \A u \in Tasks : ~Writing(u, r)',
                        NEW i \in 1..Len(Pages[r])
                 PROVE  cell'[Pages[r][i]] = last'[r]
      BY DEF LastSetKept
    <3>1. r = "gnss"
      BY <1>1, <2>5 DEF Records
    <3>2. cell[Pages[r][i]] = last[r] /\ Pages[r][i] = "gnss"
      BY <1>3, <2>3, <2>6, <3>1, PagesAre DEF StoreInv, Kept, LastSetKept
    <3> QED BY <2>3, <2>4, <3>2 DEF Cells
  <2>8. Ledger' /\ NoOldData' /\ Unregistered'
    BY <1>3, <1>5, <2>2, <2>3, <2>4 DEF StoreInv, Kept, Ledger, NoOldData, Unregistered, Cells
  <2>9. Work(t)' /\ cell'["meta"] = Valid
    BY <1>1, <1>2, <1>3, <2>1, <2>3, <2>4 DEF Work, Cells
  <2> QED BY <1>4, <2>7, <2>8, <2>9 DEF Kept
<1>10. ASSUME q = <<Write("secret", cell["name"])>>
       PROVE  Tasking' /\ Kept'
  <2> DEFINE v == cell["name"]
  <2>1. Head(q) = Write("secret", v) /\ Tail(q) = <<>> /\ Len(q) = 1
    BY <1>10
  <2>2. v \in Values /\ v # "read" /\ v # Old
    <3>1. v \in Values \cup {Old, Valid} /\ v # Valid /\ v # Old
      BY <1>3, <1>5 DEF StoreInv, ApartInv, Shape, Kept, NoOldData, Cells
    <3> QED BY <3>1, NotValid
  <2>3. /\ Write("secret", v).cell = "secret" /\ Write("secret", v).value = v
        /\ RecordOf("secret") = "device"
    BY DEF Write, RecordOf
  <2>4. /\ cell' = [cell EXCEPT !["secret"] = v] /\ last' = [last EXCEPT !["device"] = v]
        /\ torn' = torn \ {"device"} /\ begun' = {}
    BY <1>1, <1>2, <2>1, <2>2, <2>3 DEF Page
  <2>5. /\ cell'["secret"] = v /\ last'["device"] = v /\ last'["gnss"] = last["gnss"]
        /\ \A c \in Cells \ {"secret"} : cell'[c] = cell[c]
    BY <1>5, <2>4 DEF Records, Cells
  <2>6. \A u \in Tasks : ~Writing(u, "gnss")
    BY <1>6, <2>1, <2>3 DEF Records
  <2>7. LastSetKept'
    <3> SUFFICES ASSUME NEW r \in Records \ torn', NEW i \in 1..Len(Pages[r])
                 PROVE  cell'[Pages[r][i]] = last'[r]
      BY DEF LastSetKept
    <3>1. CASE r = "device"
      <4>1. Pages[r][i] \in {"name", "secret"}
        BY <3>1, PagesAre
      <4> QED BY <2>5, <3>1, <4>1 DEF Cells
    <3>2. CASE r = "gnss"
      <4>1. "gnss" \notin torn /\ cell[Pages[r][i]] = last[r] /\ Pages[r][i] = "gnss"
        BY <1>3, <2>4, <2>6, <3>2, PagesAre DEF StoreInv, Kept, LastSetKept
      <4> QED BY <2>5, <3>2, <4>1 DEF Cells
    <3> QED BY <3>1, <3>2 DEF Records
  <2>8. Ledger' /\ NoOldData' /\ Unregistered'
    BY <1>3, <1>5, <2>2, <2>4, <2>5 DEF StoreInv, Kept, Ledger, NoOldData, Unregistered, Cells
  <2>9. Work(t)' /\ cell'["meta"] = Valid
    BY <1>2, <1>3, <2>1, <2>5, Tuples DEF Work, Begins, Values, Cells
  <2> QED BY <1>4, <2>7, <2>8, <2>9 DEF Kept
<1> QED BY <1>7, <1>8, <1>9, <1>10 DEF StoreInv, Tasking, Work, Begins

\* the clock, the port's interrupt, restarts and power cuts
LEMMA SurroundingsKeep ==
  ASSUME StoreInv, Timer \/ Line \/ Restart \/ PowerCut \/ UNCHANGED vars
  PROVE  Tasking' /\ Kept'
<1> USE SettingsAssumption
<1>1. CASE Timer \/ Line \/ UNCHANGED vars
  <2>1. UNCHANGED <<todo, place, name, cell, last, torn, begun>>
    BY <1>1 DEF Timer, Line, TickInterrupt, Suppress, WakeFromISR, vars, tick, store
  <2>2. Kept'
    BY <2>1, QuietKeeps
  <2>3. \A t \in Others : mode[t] = "absent" => mode'[t] = "absent"
    BY <1>1 DEF Timer, Line, TickInterrupt, Suppress, WakeFromISR, vars, tick, Others,
                StoreInv, ApartInv, Shape
  <2>4. Runnable'
    <3>1. CASE TickInterrupt
      BY <3>1, ChoiceRuns DEF TickInterrupt
    <3>2. CASE Line
      <4>1. mode' = [mode EXCEPT !["config"] = "ready"] /\ cpu' \in {cpu, "config"}
        BY <3>2 DEF Line, WakeFromISR
      <4> QED BY <4>1 DEF StoreInv, Tasking, Runnable, ApartInv, Shape
    <3>3. CASE Suppress \/ UNCHANGED vars
      BY <3>3 DEF Suppress, vars, tick, StoreInv, Tasking, Runnable
    <3> QED BY <1>1, <3>1, <3>2, <3>3 DEF Timer
  <2>5. (\A u \in Others : Work(u)') /\ MainWork' /\ Untouched'
    BY <2>1, <2>3 DEF StoreInv, Tasking, Work, Begins, MainWork, Erasing, Empty, Untouched
  <2> QED BY <2>2, <2>4, <2>5 DEF Tasking
<1>2. CASE Restart \/ PowerCut
  <2>1. Reset /\ UNCHANGED <<cell, last>>
    BY <1>2 DEF Restart, PowerCut, store
  <2>2. /\ todo' = [t \in Tasks |-> <<>>] /\ place' = [t \in Tasks |-> "start"]
        /\ mode' = [t \in Tasks |-> IF t = "main" THEN "ready" ELSE "absent"]
        /\ cpu' = "main" /\ begun' = {}
    BY <2>1 DEF Reset, TickReset
  <2>3. torn' \subseteq Records /\ (cell["meta"] # Valid => torn' = torn)
    <3>1. CASE Restart
      BY <3>1 DEF Restart, store, StoreInv, Kept, Ledger
    <3>2. CASE PowerCut
      <4>1. torn' = torn \cup {r \in Records : \E t \in Tasks : Writing(t, r)}
        BY <3>2 DEF PowerCut
      <4>2. cell["meta"] # Valid => \A t \in Tasks, r \in Records : ~Writing(t, r)
        BY DEF StoreInv, Tasking, Untouched, Others, Writing, ApartInv, Apart
      <4> QED BY <4>1, <4>2 DEF StoreInv, Kept, Ledger
    <3> QED BY <1>2, <3>1, <3>2
  <2>4. LastSetKept'
    <3>1. ASSUME NEW r \in Records \ torn'
          PROVE  r \notin torn /\ \A t \in Tasks : ~Writing(t, r)
      <4>1. CASE Restart
        <5>1. begun = {}
          BY <4>1, NotBegun DEF Restart, StoreInv
        <5> QED BY <3>1, <4>1, <5>1 DEF Restart, store, Writing
      <4>2. CASE PowerCut
        BY <3>1, <4>2 DEF PowerCut
      <4> QED BY <1>2, <4>1, <4>2
    <3> QED BY <2>1, <3>1 DEF StoreInv, Kept, LastSetKept
  <2>5. Kept'
    BY <2>1, <2>3, <2>4 DEF StoreInv, Kept, Ledger, NoOldData, Unregistered
  <2>6. (\A u \in Others : Work(u)') /\ MainWork' /\ Runnable'
    BY <2>2, Tuples DEF Others, Work, Begins, AllRead, MainWork, Runnable
  <2>7. Untouched'
    BY <2>1, <2>2, <2>3 DEF Others, StoreInv, Tasking, Untouched
  <2> QED BY <2>5, <2>6, <2>7 DEF Tasking
<1> QED BY <1>1, <1>2

LEMMA InitStore == Init => StoreInv
<1> SUFFICES ASSUME Init PROVE StoreInv
  OBVIOUS
<1> USE SettingsAssumption
<1>1. ApartInv
  BY InitApart
<1>2. Cleared \in Values /\ Names \cup Choices \subseteq Values
  BY DEF Values
<1>3. Tasking
  <2>1. AllRead(<<>>)
    BY DEF AllRead
  <2>2. cell["meta"] # Valid => last = [r \in Records |-> Cleared]
    BY DEF Init
  <2> QED BY <2>1, <2>2 DEF Init, Start, TickInit, Tasking, Others, Work, Begins, MainWork,
                            Untouched, Runnable
<1>4. CASE cell = [c \in Cells |-> Old] /\ last = [r \in Records |-> Cleared]
  <2>1. cell["meta"] # Valid
    BY <1>4 DEF Cells
  <2>2. Ledger
    BY <1>2, <1>4 DEF Init, Ledger
  <2> QED BY <1>1, <1>3, <2>1, <2>2 DEF StoreInv, Kept, LastSetKept, NoOldData, Unregistered
<1>5. ASSUME NEW d \in Names \cup {Cleared}, NEW g \in Choices \cup {Cleared},
             cell = [meta |-> Valid, name |-> d, secret |-> d, gnss |-> g],
             last = [device |-> d, gnss |-> g]
      PROVE  StoreInv
  <2>1. /\ cell["meta"] = Valid /\ cell["name"] = d /\ cell["secret"] = d /\ cell["gnss"] = g
        /\ last["device"] = d /\ last["gnss"] = g /\ torn = {}
    BY <1>5 DEF Init
  <2>2. d # Old /\ g # Old /\ Valid # Old
    BY DEF Names
  <2>3. Ledger
    BY <1>2, <1>5, <2>1 DEF Ledger, Records
  <2>4. LastSetKept
    BY <2>1, PagesAre DEF LastSetKept, Records
  <2>5. NoOldData /\ Unregistered
    BY <2>1, <2>2 DEF NoOldData, Unregistered, Cells
  <2> QED BY <1>1, <1>3, <2>3, <2>4, <2>5 DEF StoreInv, Kept
<1> QED BY <1>4, <1>5 DEF Init

LEMMA StoreInvariant == Spec => []StoreInv
<1>1. StoreInv /\ [Next]_vars => StoreInv'
  <2> SUFFICES ASSUME StoreInv, [Next]_vars PROVE StoreInv'
    OBVIOUS
  <2>1. ApartInv'
    BY StepKeepsApart, OthersKeepApart DEF Next, StoreInv
  <2>2. ASSUME NEW t \in Tasks, Step(t) PROVE Tasking' /\ Kept'
    <3>1. CASE Page(t)
      BY <3>1, MainPageKeeps, OtherPageKeeps DEF Others
    <3> QED BY <2>2, <3>1, BeginKeeps, MainKeeps, ConfigKeeps, ConnKeeps, RecvKeeps DEF Step
  <2> QED BY <2>1, <2>2, SurroundingsKeep DEF Next, StoreInv
<1> QED BY <1>1, InitStore, PTL DEF Spec

\* For any names, settings and numbers of power cuts and changes: an initialised
\* EEPROM holds nothing from before, what was acknowledged is what is read, and a
\* device that takes itself for registered has the name of its secret, unless a cut
\* fell into the write over a registration (storage.c:47-67, device_info.c:75-94).
THEOREM StoredStaysWhole == Spec => []StoredWhole
<1>1. StoreInv => StoredWhole
  <2> SUFFICES ASSUME StoreInv, Registered, cell["meta"] = Valid,
                      "device" \notin torn \/ last["device"] = Cleared,
                      \A t \in Tasks : ~Writing(t, "device")
               PROVE  cell["name"] = cell["secret"]
    BY DEF StoreInv, Kept, StoredWhole, RegistrationWhole
  <2>1. last["device"] # Cleared
    BY DEF StoreInv, Kept, Unregistered, Registered
  <2>2. \A i \in 1..2 : cell[Pages["device"][i]] = last["device"]
    BY <2>1, PagesAre DEF StoreInv, Kept, LastSetKept, Records
  <2> QED BY <2>2, PagesAre
<1> QED BY <1>1, StoreInvariant, PTL
=============================================================================
