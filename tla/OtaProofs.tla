----------------------------- MODULE OtaProofs -----------------------------
(***************************************************************************)
(* Proofs about Ota.  When the two threads' handlers do not overlap, no    *)
(* push is handled between the success and the swap, and the last block    *)
(* is not one whose programming fails, the device only ever boots complete *)
(* images, and between two blocks the bank holds what the session counts,  *)
(* for any number of blocks and OTA tasks, whatever the server, the        *)
(* network and the power do.                                               *)
(***************************************************************************)
EXTENDS Ota, FiniteSetTheorems, TLAPS

Sound == ~Overlap /\ ~PushInWindow /\ Blocks \notin FaultyBlocks

\* the bank after n blocks, and what iap.c knows of it: the next address, or 0
\* after a failure that the next block will discover
Prefix(n) == bank = [s \in Slots |-> IF s <= n THEN s ELSE Erased]
InStep(n) == \/ Prefix(n) /\ writeAddr = n + 1
             \/ writeAddr = 0 /\ n < Blocks

\* no OTA task has given up (one that has only restarts the device)
Quiet == \A w \in Workers : pc[w] # "fail"
NoneLeaves == \A w \in Workers : pc[w] \notin {"close", "report"}

Shape == /\ pc \in [Threads -> PCs] /\ msg \in [Threads -> Nat]
         /\ addr \in [Threads -> Nat] /\ fetched \in Nat
         /\ writeAddr \in Nat /\ net \in Seq(Nat)
         /\ status \in Statuses
         /\ pc[Recv] \in InHandler \cup {"loop"}

OneHandler == \A t, u \in Threads : pc[t] \in InHandler /\ pc[u] \in InHandler => t = u
OneWorker == \A v, w \in Workers : pc[v] # "none" /\ pc[w] # "none" => v = w

NullInv == status = "null" => \A w \in Workers : pc[w] \in {"none", "report"}

OpenedInv == \A t \in Threads : pc[t] = "opened" =>
                /\ status = "null" /\ Prefix(0) /\ writeAddr = 1
                /\ \A w \in Workers : pc[w] = "none"

DataInv == \A t \in Threads : pc[t] \in InData =>
              /\ status # "null" /\ NoneLeaves
              /\ Quiet => status \in {"ing", "timeout"}

\* how far the bank is, by where the thread that handles a block stands
FetchInv == \A t \in Threads : Quiet /\ pc[t] = "fetch" =>
               msg[t] = fetched + 1 /\ fetched < Blocks /\ InStep(fetched)
WriteInv == \A t \in Threads : Quiet /\ pc[t] \in {"digest", "write"} =>
               msg[t] = fetched /\ fetched \in 1..Blocks /\ InStep(fetched - 1)
BurnInv == \A t \in Threads : Quiet /\ pc[t] = "burn" =>
               /\ msg[t] = fetched /\ fetched \in 1..Blocks
               /\ Prefix(fetched - 1) /\ addr[t] = fetched /\ unlocked
AssignInv == \A t \in Threads : Quiet /\ pc[t] = "assign" =>
               /\ fetched \in 1..Blocks
               /\ \/ Prefix(fetched) /\ addr[t] = fetched + 1
                  \/ addr[t] = 0 /\ fetched < Blocks
TailInv == \A t \in Threads : Quiet /\ pc[t] = "tail" =>
               fetched \in 1..Blocks /\ InStep(fetched)

\* between two blocks
ReadyInv == Quiet /\ NoneLeaves /\ status \in {"init", "ing", "timeout"}
            /\ (\A t \in Threads : pc[t] \notin InData)
              => fetched <= Blocks /\ InStep(fetched)

DoneInv == Quiet /\ status \in {"finished", "success"} => bank = Image /\ NoneLeaves

LeaveInv == \A w \in Workers :
               /\ pc[w] \in {"close", "report"} => bank = Image
               /\ pc[w] = "close" => status = "init"
               /\ pc[w] = "report" => status = "null"

FailInv == \A w \in Workers : pc[w] = "fail" => status \notin {"null", "ing"}

OtaInv == /\ Shape /\ OneHandler /\ OneWorker /\ NullInv /\ OpenedInv /\ DataInv
          /\ FetchInv /\ WriteInv /\ BurnInv /\ AssignInv /\ TailInv
          /\ ReadyInv /\ DoneInv /\ LeaveInv /\ FailInv /\ RunningIsComplete

\* the slots are finitely many, and a bank programmed to the last block is the image
LEMMA CardNat == Cardinality(Threads) \in Nat
  BY OtaAssumption, FS_Singleton, FS_Union, FS_CardinalityType DEF Threads

LEMMA FullBank == ASSUME InStep(Blocks) PROVE bank = Image
  BY OtaAssumption DEF InStep, Prefix, Image

-----------------------------------------------------------------------------
(* Receiving.  One lemma per action; in each, one step per conjunct.       *)

LEMMA TakeKeeps ==
  ASSUME NEW t \in Threads, OtaInv, Sound, Take(t)
  PROVE  OtaInv'
<1>0. /\ bank' = bank /\ \A n : (Prefix(n)' <=> Prefix(n)) /\ (InStep(n)' <=> InStep(n))
  BY DEF Take, InStep, Prefix, flash
<1>1. Shape'
  BY DEF OtaInv, Shape, PCs, InHandler, Goto, session, flash, Take
<1>2. OneHandler' /\ OneWorker'
  BY DEF OtaInv, OneHandler, OneWorker, Sound, Goto, OthersHandle, Take
<1>3. NullInv' /\ OpenedInv' /\ DataInv' /\ FailInv'
  BY OtaAssumption DEF OtaInv, Shape, NullInv, OpenedInv, DataInv, FailInv, OneHandler, Quiet,
     NoneLeaves, InData, Threads, Goto, session, Take
<1>4. LeaveInv' /\ DoneInv' /\ RunningIsComplete'
  BY DEF OtaInv, LeaveInv, DoneInv, RunningIsComplete, NoneLeaves, Quiet, Goto, session, flash,
     Take
<1>5. FetchInv'
  BY <1>0 DEF OtaInv, FetchInv, Quiet, Goto, session, Take
<1>6. WriteInv'
  BY <1>0 DEF OtaInv, WriteInv, Quiet, Goto, session, Take
<1>7. BurnInv'
  BY <1>0 DEF OtaInv, BurnInv, Quiet, Goto, session, flash, Take
<1>8. AssignInv' /\ TailInv'
  BY <1>0 DEF OtaInv, AssignInv, TailInv, Quiet, Goto, session, Take
<1>9. ReadyInv'
  BY <1>0 DEF OtaInv, ReadyInv, Quiet, NoneLeaves, InData, Goto, session, Take
<1> QED BY <1>1, <1>2, <1>3, <1>4, <1>5, <1>6, <1>7, <1>8, <1>9 DEF OtaInv

LEMMA NothingReceivedKeeps ==
  ASSUME NEW w \in Workers, OtaInv, Sound, NothingReceived(w)
  PROVE  OtaInv'
<1>0. /\ bank' = bank /\ \A n : (Prefix(n)' <=> Prefix(n)) /\ (InStep(n)' <=> InStep(n))
  BY DEF NothingReceived, InStep, Prefix, flash
<1>1. Shape'
  BY OtaAssumption DEF OtaInv, Shape, OneHandler, Threads, Goto, links, session, flash, PCs,
     NothingReceived
<1>2. OneHandler' /\ OneWorker'
  BY DEF OtaInv, OneHandler, OneWorker, InHandler, Goto, NothingReceived
<1>3. NullInv' /\ OpenedInv' /\ DataInv' /\ FailInv'
  BY OtaAssumption DEF OtaInv, Shape, NullInv, OpenedInv, DataInv, FailInv, OneHandler, Quiet,
     NoneLeaves, InData, Threads, Goto, session, NothingReceived
<1>4. LeaveInv' /\ DoneInv' /\ RunningIsComplete'
  BY DEF OtaInv, LeaveInv, DoneInv, RunningIsComplete, NoneLeaves, Quiet, Goto, session, flash,
     NothingReceived
<1>5. FetchInv'
  BY <1>0 DEF OtaInv, FetchInv, Quiet, Goto, session, NothingReceived
<1>6. WriteInv'
  BY <1>0 DEF OtaInv, WriteInv, Quiet, Goto, session, NothingReceived
<1>7. BurnInv'
  BY <1>0 DEF OtaInv, BurnInv, Quiet, Goto, session, flash, NothingReceived
<1>8. AssignInv' /\ TailInv'
  BY <1>0 DEF OtaInv, AssignInv, TailInv, Quiet, Goto, session, NothingReceived
<1>9. ReadyInv'
  BY <1>0 DEF OtaInv, ReadyInv, Quiet, NoneLeaves, InData, Goto, session, NothingReceived
<1> QED BY <1>1, <1>2, <1>3, <1>4, <1>5, <1>6, <1>7, <1>8, <1>9 DEF OtaInv

-----------------------------------------------------------------------------
(* The handler of a push.                                                  *)

LEMMA RefusePushKeeps ==
  ASSUME NEW t \in Threads, OtaInv, Sound, RefusePush(t)
  PROVE  OtaInv'
<1>0. /\ bank' = bank /\ \A n : (Prefix(n)' <=> Prefix(n)) /\ (InStep(n)' <=> InStep(n))
  BY DEF RefusePush, InStep, Prefix, flash
<1>1. Shape'
  BY DEF OtaInv, Shape, PCs, Goto, Rest, links, session, flash, RefusePush
<1>2. OneHandler' /\ OneWorker'
  BY DEF OtaInv, OneHandler, OneWorker, InHandler, Goto, RefusePush
<1>3. NullInv' /\ OpenedInv' /\ DataInv' /\ FailInv'
  BY OtaAssumption DEF OtaInv, Shape, NullInv, OpenedInv, DataInv, FailInv, OneHandler, InData,
     InHandler, Goto, Rest, session, RefusePush
<1>4. LeaveInv' /\ DoneInv' /\ RunningIsComplete'
  BY OtaAssumption DEF OtaInv, Shape, LeaveInv, DoneInv, RunningIsComplete, DataInv, NoneLeaves,
     Quiet, Goto, Rest, session, flash, RefusePush
<1>5. FetchInv'
  BY OtaAssumption DEF OtaInv, Shape, FetchInv, OneHandler, InHandler, Goto, Rest, RefusePush
<1>6. WriteInv'
  BY DEF OtaInv, WriteInv, OneHandler, InHandler, Goto, Rest, RefusePush
<1>7. BurnInv'
  BY DEF OtaInv, BurnInv, OneHandler, InHandler, Goto, Rest, RefusePush
<1>8. AssignInv' /\ TailInv'
  BY DEF OtaInv, AssignInv, TailInv, OneHandler, InHandler, Goto, Rest, RefusePush
<1>9. ReadyInv'
  BY <1>0, FullBank, OtaAssumption DEF OtaInv, Shape, ReadyInv, Quiet, NoneLeaves, InData, Goto,
     session, RefusePush
<1> QED BY <1>1, <1>2, <1>3, <1>4, <1>5, <1>6, <1>7, <1>8, <1>9 DEF OtaInv

LEMMA IapInitKeeps ==
  ASSUME NEW t \in Threads, OtaInv, Sound, IapInit(t)
  PROVE  OtaInv'
<1>1. Shape'
  BY DEF OtaInv, Shape, PCs, InHandler, Goto, links, session, IapInit
<1>2. OneHandler' /\ OneWorker'
  BY DEF OtaInv, OneHandler, OneWorker, InHandler, Goto, IapInit
<1>3. NullInv' /\ OpenedInv' /\ DataInv' /\ FailInv'
  BY DEF OtaInv, Shape, NullInv, OpenedInv, DataInv, FetchInv, LeaveInv, FailInv, NoneLeaves,
     InData, Goto, MayRun, session, Sound, Prefix, Slots, IapInit
<1>4. LeaveInv' /\ DoneInv' /\ RunningIsComplete'
  BY DEF OtaInv, Shape, ReadyInv, DoneInv, LeaveInv, FailInv, RunningIsComplete, Quiet, Goto,
     MayRun, session, Sound, IapInit
<1>5. FetchInv'
  BY DEF OtaInv, Shape, FetchInv, Quiet, InData, DataInv, Goto, IapInit
<1>6. WriteInv'
  BY DEF OtaInv, WriteInv, OneHandler, InHandler, Goto, IapInit
<1>7. BurnInv'
  BY DEF OtaInv, BurnInv, OneHandler, InHandler, Goto, IapInit
<1>8. AssignInv' /\ TailInv'
  BY DEF OtaInv, AssignInv, TailInv, OneHandler, InHandler, Goto, IapInit
<1>9. ReadyInv'
  BY DEF ReadyInv, session, IapInit
<1> QED BY <1>1, <1>2, <1>3, <1>4, <1>5, <1>6, <1>7, <1>8, <1>9 DEF OtaInv

LEMMA OpenFailsKeeps ==
  ASSUME NEW t \in Threads, OtaInv, Sound, OpenFails(t)
  PROVE  OtaInv'
<1>1. Shape'
  BY DEF OtaInv, Shape, PCs, Goto, Rest, links, session, OpenFails
<1>2. OneHandler' /\ OneWorker'
  BY DEF OtaInv, OneHandler, OneWorker, InHandler, Goto, OpenFails
<1>3. NullInv' /\ OpenedInv' /\ DataInv' /\ FailInv'
  BY DEF OtaInv, Shape, NullInv, OpenedInv, DataInv, FailInv, InData, Threads, Goto, Rest,
     OpenFails
<1>4. LeaveInv' /\ DoneInv' /\ RunningIsComplete'
  BY DEF OtaInv, Shape, LeaveInv, DoneInv, RunningIsComplete, DataInv, NoneLeaves, Quiet, Goto,
     Rest, session, OpenFails
<1>5. FetchInv'
  BY DEF OtaInv, Shape, FetchInv, Quiet, InData, InHandler, NoneLeaves, Goto, Rest, session,
     OpenFails, InStep
<1>6. WriteInv'
  BY DEF OtaInv, WriteInv, OneHandler, InHandler, Goto, Rest, OpenFails
<1>7. BurnInv'
  BY DEF OtaInv, BurnInv, OneHandler, InHandler, Goto, Rest, OpenFails
<1>8. AssignInv' /\ TailInv'
  BY DEF OtaInv, AssignInv, TailInv, OneHandler, InHandler, Goto, Rest, OpenFails
<1>9. ReadyInv'
  BY DEF OtaInv, Shape, NullInv, OpenedInv, ReadyInv, DoneInv, session, OpenFails
<1> QED BY <1>1, <1>2, <1>3, <1>4, <1>5, <1>6, <1>7, <1>8, <1>9 DEF OtaInv

LEMMA OpenKeeps ==
  ASSUME NEW t \in Threads, OtaInv, Sound, Open(t)
  PROVE  OtaInv'
<1>0. /\ bank' = bank /\ \A n : (Prefix(n)' <=> Prefix(n)) /\ (InStep(n)' <=> InStep(n))
  BY DEF Open, InStep, Prefix, flash
<1>1. Shape'
  BY OtaAssumption DEF OtaInv, Shape, OneHandler, OpenedInv, DataInv, Threads, Rest, links,
     flash, Statuses, PCs, Open
<1>2. OneHandler' /\ OneWorker'
  BY OtaAssumption DEF OtaInv, Shape, OneHandler, OneWorker, NullInv, OpenedInv, DataInv,
     InHandler, Threads, Open
<1>3. NullInv' /\ OpenedInv' /\ DataInv' /\ FailInv'
  BY OtaAssumption DEF OtaInv, Shape, NullInv, OpenedInv, DataInv, FailInv, OneHandler, InData,
     Threads, Rest, Open
<1>4. LeaveInv' /\ DoneInv' /\ RunningIsComplete'
  <2>1. InStep(0) /\ \A w \in Workers : pc[w] = "none"
    BY OtaAssumption DEF Open, OtaInv, OpenedInv, InStep
  <2> QED BY <2>1, OtaAssumption DEF OtaInv, Shape, OneHandler, OneWorker, ReadyInv, DoneInv,
     LeaveInv, FailInv, RunningIsComplete, Quiet, InHandler, Threads, flash, Open
<1>5. FetchInv'
  BY DEF OtaInv, Shape, FetchInv, ReadyInv, OneHandler, InData, InHandler, DataInv, Rest, Open
<1>6. WriteInv'
  BY DEF OtaInv, Shape, FetchInv, WriteInv, Threads, OneHandler, InHandler, Rest, Open
<1>7. BurnInv'
  BY DEF OtaInv, Shape, BurnInv, Threads, OneHandler, InHandler, Rest, Open
<1>8. AssignInv' /\ TailInv'
  BY OtaAssumption DEF OtaInv, Shape, OneHandler, FetchInv, WriteInv, BurnInv, AssignInv,
     TailInv, ReadyInv, DoneInv, LeaveInv, FailInv, RunningIsComplete, Quiet, NoneLeaves,
     InData, InHandler, Threads, Rest, MayRun, links, flash, Statuses, PCs, Sound, Open
<1>9. ReadyInv'
  <2>1. InStep(0) /\ \A w \in Workers : pc[w] = "none"
    BY OtaAssumption DEF Open, OtaInv, OpenedInv, InStep
  <2> QED BY <1>0, FullBank, <2>1, OtaAssumption DEF ReadyInv, DoneInv, Open
<1> QED BY <1>1, <1>2, <1>3, <1>4, <1>5, <1>6, <1>7, <1>8, <1>9 DEF OtaInv

-----------------------------------------------------------------------------
(* The handler of a block.                                                 *)

LEMMA RefuseReplyKeeps ==
  ASSUME NEW t \in Threads, OtaInv, Sound, RefuseReply(t)
  PROVE  OtaInv'
<1>0. /\ bank' = bank /\ \A n : (Prefix(n)' <=> Prefix(n)) /\ (InStep(n)' <=> InStep(n))
  BY DEF RefuseReply, InStep, Prefix, flash
<1>1. Shape'
  BY DEF OtaInv, Shape, PCs, Goto, Rest, links, session, flash, RefuseReply
<1>2. OneHandler' /\ OneWorker'
  BY DEF OtaInv, OneHandler, OneWorker, InHandler, Goto, RefuseReply
<1>3. NullInv' /\ OpenedInv' /\ DataInv' /\ FailInv'
  BY OtaAssumption DEF OtaInv, Shape, NullInv, OpenedInv, DataInv, FailInv, OneHandler, InData,
     InHandler, Goto, Rest, session, RefuseReply
<1>4. LeaveInv' /\ DoneInv' /\ RunningIsComplete'
  BY OtaAssumption DEF OtaInv, Shape, LeaveInv, DoneInv, RunningIsComplete, DataInv, NoneLeaves,
     Quiet, Goto, Rest, session, flash, RefuseReply
<1>5. FetchInv'
  BY OtaAssumption DEF OtaInv, Shape, FetchInv, OneHandler, InHandler, Goto, Rest, RefuseReply
<1>6. WriteInv'
  BY DEF OtaInv, WriteInv, OneHandler, InHandler, Goto, Rest, RefuseReply
<1>7. BurnInv'
  BY DEF OtaInv, BurnInv, OneHandler, InHandler, Goto, Rest, RefuseReply
<1>8. AssignInv' /\ TailInv'
  BY DEF OtaInv, AssignInv, TailInv, OneHandler, InHandler, Goto, Rest, RefuseReply
<1>9. ReadyInv'
  BY <1>0, FullBank, OtaAssumption DEF OtaInv, Shape, ReadyInv, Quiet, NoneLeaves, InData, Goto,
     session, RefuseReply
<1> QED BY <1>1, <1>2, <1>3, <1>4, <1>5, <1>6, <1>7, <1>8, <1>9 DEF OtaInv

LEMMA BadReplyKeeps ==
  ASSUME NEW t \in Threads, OtaInv, Sound, BadReply(t)
  PROVE  OtaInv'
<1>0. /\ bank' = bank /\ \A n : (Prefix(n)' <=> Prefix(n)) /\ (InStep(n)' <=> InStep(n))
  BY DEF BadReply, InStep, Prefix, flash
<1>1. Shape'
  BY DEF OtaInv, Shape, PCs, Statuses, Goto, Rest, Resend, flash, BadReply
<1>2. OneHandler' /\ OneWorker'
  BY DEF OtaInv, OneHandler, OneWorker, InHandler, Goto, BadReply
<1>3. NullInv' /\ OpenedInv' /\ DataInv' /\ FailInv'
  BY OtaAssumption DEF OtaInv, Shape, NullInv, OpenedInv, DataInv, FailInv, OneHandler, InData,
     InHandler, Goto, Rest, Resend, BadReply
<1>4. LeaveInv' /\ DoneInv' /\ RunningIsComplete'
  BY OtaAssumption DEF OtaInv, Shape, LeaveInv, DoneInv, RunningIsComplete, Goto, Rest, Resend,
     flash, BadReply
<1>5. FetchInv'
  BY OtaAssumption DEF OtaInv, Shape, FetchInv, OneHandler, InHandler, Goto, Rest, BadReply
<1>6. WriteInv'
  BY DEF OtaInv, WriteInv, OneHandler, InHandler, Goto, Rest, BadReply
<1>7. BurnInv'
  BY DEF OtaInv, BurnInv, OneHandler, InHandler, Goto, Rest, BadReply
<1>8. AssignInv' /\ TailInv'
  BY DEF OtaInv, AssignInv, TailInv, OneHandler, InHandler, Goto, Rest, BadReply
<1>9. ReadyInv'
  BY <1>0, FullBank, OtaAssumption DEF OtaInv, Shape, ReadyInv, Quiet, NoneLeaves, InData, Goto,
     Resend, BadReply
<1> QED BY <1>1, <1>2, <1>3, <1>4, <1>5, <1>6, <1>7, <1>8, <1>9 DEF OtaInv

LEMMA GoodReplyKeeps ==
  ASSUME NEW t \in Threads, OtaInv, Sound, GoodReply(t)
  PROVE  OtaInv'
<1>0. /\ bank' = bank /\ \A n : (Prefix(n)' <=> Prefix(n)) /\ (InStep(n)' <=> InStep(n))
  BY DEF GoodReply, InStep, Prefix, flash
<1>1. Shape'
  BY DEF OtaInv, Shape, PCs, InHandler, Goto, links, session, flash, GoodReply
<1>2. OneHandler' /\ OneWorker'
  BY DEF OtaInv, OneHandler, OneWorker, InHandler, Goto, GoodReply
<1>3. NullInv' /\ OpenedInv' /\ DataInv' /\ FailInv'
  BY OtaAssumption DEF OtaInv, Shape, NullInv, OpenedInv, DataInv, FailInv, OneHandler,
     LeaveInv, NoneLeaves, Goto, session, GoodReply
<1>4. LeaveInv' /\ DoneInv' /\ RunningIsComplete'
  BY DEF OtaInv, LeaveInv, DoneInv, RunningIsComplete, Goto, session, flash, GoodReply
<1>5. FetchInv'
  BY <1>0, FullBank, OtaAssumption DEF OtaInv, Shape, OneHandler, FetchInv, WriteInv, TailInv,
     ReadyInv, DoneInv, LeaveInv, Quiet, NoneLeaves, InData, InHandler, Goto, session, GoodReply
<1>6. WriteInv'
  BY DEF OtaInv, WriteInv, OneHandler, InHandler, Goto, GoodReply
<1>7. BurnInv'
  BY DEF OtaInv, BurnInv, OneHandler, InHandler, Goto, GoodReply
<1>8. AssignInv' /\ TailInv'
  BY DEF OtaInv, AssignInv, TailInv, OneHandler, InHandler, Goto, GoodReply
<1>9. ReadyInv'
  BY DEF OtaInv, Shape, ReadyInv, InData, Goto, GoodReply
<1> QED BY <1>1, <1>2, <1>3, <1>4, <1>5, <1>6, <1>7, <1>8, <1>9 DEF OtaInv

LEMMA FetchKeeps ==
  ASSUME NEW t \in Threads, OtaInv, Sound, Fetch(t)
  PROVE  OtaInv'
<1>0. /\ bank' = bank /\ \A n : (Prefix(n)' <=> Prefix(n)) /\ (InStep(n)' <=> InStep(n))
  BY DEF Fetch, InStep, Prefix, flash
<1>1. Shape'
  BY DEF OtaInv, Shape, PCs, InHandler, Goto, links, flash, Fetch
<1>2. OneHandler' /\ OneWorker'
  BY DEF OtaInv, OneHandler, OneWorker, InHandler, Goto, Fetch
<1>3. NullInv' /\ OpenedInv' /\ DataInv' /\ FailInv'
  BY OtaAssumption DEF OtaInv, Shape, NullInv, OpenedInv, DataInv, FailInv, OneHandler, Quiet,
     NoneLeaves, InData, Threads, Goto, Fetch
<1>4. LeaveInv' /\ DoneInv' /\ RunningIsComplete'
  BY DEF OtaInv, LeaveInv, DoneInv, RunningIsComplete, NoneLeaves, Quiet, Goto, flash, Fetch
<1>5. FetchInv'
  BY DEF OtaInv, Shape, FetchInv, OneHandler, InHandler, Goto, Fetch
<1>6. WriteInv'
  BY <1>0, OtaAssumption DEF OtaInv, Shape, FetchInv, WriteInv, Quiet, Threads, OneHandler,
     InHandler, Goto, Fetch
<1>7. BurnInv'
  BY DEF OtaInv, BurnInv, OneHandler, InHandler, Goto, Fetch
<1>8. AssignInv' /\ TailInv'
  BY DEF OtaInv, AssignInv, TailInv, OneHandler, InHandler, Goto, Fetch
<1>9. ReadyInv'
  BY DEF ReadyInv, InData, Goto, Fetch
<1> QED BY <1>1, <1>2, <1>3, <1>4, <1>5, <1>6, <1>7, <1>8, <1>9 DEF OtaInv

LEMMA DigestKeeps ==
  ASSUME NEW t \in Threads, OtaInv, Sound, Digest(t)
  PROVE  OtaInv'
<1>0. /\ bank' = bank /\ \A n : (Prefix(n)' <=> Prefix(n)) /\ (InStep(n)' <=> InStep(n))
  BY DEF Digest, InStep, Prefix, flash
<1>1. Shape'
  BY DEF OtaInv, Shape, PCs, InHandler, Goto, links, flash, Digest
<1>2. OneHandler' /\ OneWorker'
  BY DEF OtaInv, OneHandler, OneWorker, InHandler, Goto, Digest
<1>3. NullInv' /\ OpenedInv' /\ DataInv'
  <2>1. pc' = [pc EXCEPT ![t] = "write"] /\ pc[t] \in InData /\ status' = status
    BY DEF Digest, Goto, flash, InData
  <2>2. NoneLeaves' /\ status # "null" /\ (Quiet' => Quiet) /\ (Quiet => status \in {"ing", "timeout"})
    <3>1. NoneLeaves /\ status # "null" /\ (Quiet => status \in {"ing", "timeout"})
      BY <2>1 DEF OtaInv, DataInv
    <3>2. \A w \in Workers : pc'[w] # pc[w] => pc'[w] \in {"write", "assign"} /\ pc[w] \in InData
      BY <2>1 DEF OtaInv, Shape, Threads
    <3> QED BY <3>1, <3>2 DEF NoneLeaves, Quiet, InData
  <2>3. \A u \in Threads : pc'[u] # "opened"
    BY <2>1 DEF OtaInv, Shape, OpenedInv, DataInv
  <2> QED BY <2>1, <2>2, <2>3 DEF NullInv, OpenedInv, DataInv
<1>4. LeaveInv' /\ DoneInv' /\ RunningIsComplete'
  BY DEF OtaInv, LeaveInv, DoneInv, RunningIsComplete, NoneLeaves, Quiet, Goto, flash, Digest
<1>5. FetchInv'
  BY DEF OtaInv, FetchInv, OneHandler, InHandler, Goto, Digest
<1>6. WriteInv'
  BY <1>0 DEF OtaInv, WriteInv, Quiet, Goto, Digest
<1>7. BurnInv'
  BY DEF OtaInv, BurnInv, OneHandler, InHandler, Goto, Digest
<1>8. AssignInv' /\ TailInv'
  BY DEF OtaInv, AssignInv, TailInv, OneHandler, InHandler, Goto, Digest
<1>9. ReadyInv'
  BY DEF ReadyInv, InData, Goto, Digest
<1>10. FailInv'
  BY DEF OtaInv, Shape, FailInv, Goto, Digest
<1> QED BY <1>1, <1>2, <1>3, <1>4, <1>5, <1>6, <1>7, <1>8, <1>9, <1>10 DEF OtaInv

-----------------------------------------------------------------------------
(* Programming a block: the bank grows by one slot or a failure is noted.  *)

LEMMA IapWriteKeeps ==
  ASSUME NEW t \in Threads, OtaInv, Sound, IapWrite(t)
  PROVE  OtaInv'
<1>1. Shape'
  BY DEF OtaInv, Shape, PCs, InHandler, Goto, links, session, IapWrite
<1>2. OneHandler' /\ OneWorker'
  BY DEF OtaInv, OneHandler, OneWorker, InHandler, Goto, IapWrite
<1>3. NullInv' /\ OpenedInv' /\ DataInv' /\ FailInv'
  BY DEF OtaInv, Shape, NullInv, OpenedInv, DataInv, FailInv, LeaveInv, Quiet, NoneLeaves,
     InData, Threads, Goto, session, IapWrite
<1>4. LeaveInv' /\ DoneInv' /\ RunningIsComplete'
  BY DEF OtaInv, LeaveInv, DoneInv, RunningIsComplete, NoneLeaves, Quiet, Goto, session,
     IapWrite
<1>5. FetchInv'
  BY DEF OtaInv, Shape, FetchInv, Quiet, OneHandler, DataInv, Goto, session, IapWrite, Prefix,
     InStep
<1>6. WriteInv'
  BY DEF OtaInv, WriteInv, Quiet, Goto, session, IapWrite, Prefix, InStep
<1>7. BurnInv'
  <2>1. Quiet => /\ msg[t] = fetched /\ fetched \in 1..Blocks
                 /\ Prefix(fetched - 1) /\ writeAddr = fetched
    BY OtaAssumption DEF IapWrite, OtaInv, WriteInv, InStep, Shape
  <2>2. \A n : Prefix(n)' <=> Prefix(n)
    BY DEF IapWrite, Prefix
  <2>3. \A u \in Threads : pc'[u] = "burn" => u = t
    BY DEF OtaInv, Shape, OneHandler, OneWorker, InHandler, Threads, Goto, Rest, IapWrite
  <2> QED BY <2>1, <2>2, <2>3 DEF IapWrite, OtaInv, BurnInv, Shape, Quiet, Goto, session, Threads
<1>8. AssignInv' /\ TailInv'
  BY DEF OtaInv, AssignInv, TailInv, OneHandler, InHandler, Goto, IapWrite
<1>9. ReadyInv'
  BY DEF ReadyInv, InData, Goto, IapWrite
<1> QED BY <1>1, <1>2, <1>3, <1>4, <1>5, <1>6, <1>7, <1>8, <1>9 DEF OtaInv

LEMMA FlashWriteKeeps ==
  ASSUME NEW t \in Threads, OtaInv, Sound, FlashWrite(t)
  PROVE  OtaInv'
<1>1. Shape'
  <2>1. addr' \in [Threads -> Nat]
    <3>1. CASE addr' = [addr EXCEPT ![t] = @ + 1]
      BY <3>1 DEF OtaInv, Shape
    <3>2. CASE addr' = [addr EXCEPT ![t] = 0]
      BY <3>2 DEF OtaInv, Shape
    <3> QED BY <3>1, <3>2 DEF FlashWrite
  <2> QED BY <2>1 DEF FlashWrite, OtaInv, Shape, Goto, PCs, InHandler, links, session
<1>2. OneHandler' /\ OneWorker'
  BY DEF OtaInv, OneHandler, OneWorker, InHandler, Goto, FlashWrite
<1>3. NullInv' /\ OpenedInv' /\ DataInv'
  <2>1. pc' = [pc EXCEPT ![t] = "assign"] /\ pc[t] \in InData /\ status' = status
    BY DEF FlashWrite, Goto, session, InData
  <2>2. NoneLeaves' /\ status # "null" /\ (Quiet' => Quiet) /\ (Quiet => status \in {"ing", "timeout"})
    <3>1. NoneLeaves /\ status # "null" /\ (Quiet => status \in {"ing", "timeout"})
      BY <2>1 DEF OtaInv, DataInv
    <3>2. \A w \in Workers : pc'[w] # pc[w] => pc'[w] \in {"write", "assign"} /\ pc[w] \in InData
      BY <2>1 DEF OtaInv, Shape, Threads
    <3> QED BY <3>1, <3>2 DEF NoneLeaves, Quiet, InData
  <2>3. \A u \in Threads : pc'[u] # "opened"
    BY <2>1 DEF OtaInv, Shape, OpenedInv, DataInv
  <2> QED BY <2>1, <2>2, <2>3 DEF NullInv, OpenedInv, DataInv
<1>4. LeaveInv' /\ DoneInv' /\ RunningIsComplete'
  BY DEF OtaInv, LeaveInv, DoneInv, RunningIsComplete, DataInv, Quiet, OneWorker, InData, Goto,
     session, FlashWrite
<1>5. FetchInv'
  BY DEF OtaInv, Shape, FetchInv, Quiet, OneHandler, InHandler, Goto, FlashWrite
<1>6. WriteInv'
  BY DEF OtaInv, WriteInv, OneHandler, InHandler, Goto, FlashWrite
<1>7. BurnInv'
  BY DEF OtaInv, Shape, BurnInv, OneHandler, InHandler, Goto, FlashWrite
<1>8. AssignInv' /\ TailInv'
  <2>1. \A u \in Threads : pc'[u] \notin {"tail"} /\ (pc'[u] = "assign" => u = t)
    BY DEF OtaInv, Shape, OneHandler, OneWorker, InHandler, Threads, Goto, Rest, FlashWrite
  <2>2. ASSUME Quiet
        PROVE  /\ fetched \in 1..Blocks
               /\ \/ Prefix(fetched)' /\ addr'[t] = fetched + 1
                  \/ addr'[t] = 0 /\ fetched < Blocks
    <3>1. /\ msg[t] = fetched /\ fetched \in 1..Blocks
          /\ Prefix(fetched - 1) /\ addr[t] = fetched /\ unlocked
      BY <2>2 DEF FlashWrite, OtaInv, BurnInv
    <3>2. fetched \in Slots /\ bank[fetched] = Erased /\ Writable(addr[t])
      BY <3>1, CardNat, OtaAssumption DEF Slots, Prefix, Writable, Erased
    <3>3. CASE bank' = [bank EXCEPT ![addr[t]] = msg[t]] /\ addr' = [addr EXCEPT ![t] = @ + 1]
      <4>1. Prefix(fetched)'
        BY <3>1, <3>2, <3>3, CardNat, OtaAssumption DEF FlashWrite, Prefix, session, Slots
      <4> QED BY <3>1, <3>3, <4>1 DEF OtaInv, Shape
    <3>4. CASE msg[t] \in FaultyBlocks /\ addr' = [addr EXCEPT ![t] = 0]
      BY <3>1, <3>4, OtaAssumption DEF OtaInv, Shape, Sound
    <3> QED BY <3>2, <3>3, <3>4 DEF FlashWrite
  <2>3. Quiet' => Quiet
    BY DEF FlashWrite, Quiet, Goto, OtaInv, Shape, Threads
  <2> QED BY <2>1, <2>2, <2>3 DEF FlashWrite, AssignInv, TailInv, session
<1>9. ReadyInv'
  BY DEF ReadyInv, InData, Goto, FlashWrite
<1>10. FailInv'
  BY DEF OtaInv, Shape, FailInv, Goto, session, FlashWrite
<1> QED BY <1>1, <1>2, <1>3, <1>4, <1>5, <1>6, <1>7, <1>8, <1>9, <1>10 DEF OtaInv

LEMMA AssignKeeps ==
  ASSUME NEW t \in Threads, OtaInv, Sound, Assign(t)
  PROVE  OtaInv'
<1>1. Shape'
  BY DEF OtaInv, Shape, PCs, InHandler, Goto, links, session, Assign
<1>2. OneHandler' /\ OneWorker'
  BY DEF OtaInv, OneHandler, OneWorker, InHandler, Goto, Assign
<1>3. NullInv' /\ OpenedInv' /\ DataInv' /\ FailInv'
  BY DEF OtaInv, Shape, NullInv, OpenedInv, DataInv, FailInv, LeaveInv, Quiet, NoneLeaves,
     InData, Threads, Goto, session, Assign
<1>4. LeaveInv' /\ DoneInv' /\ RunningIsComplete'
  BY DEF OtaInv, LeaveInv, DoneInv, RunningIsComplete, NoneLeaves, Quiet, Goto, session, Assign
<1>5. FetchInv'
  BY DEF OtaInv, Shape, FetchInv, Quiet, OneHandler, InHandler, Goto, Assign
<1>6. WriteInv'
  BY DEF OtaInv, WriteInv, OneHandler, InHandler, Goto, Assign
<1>7. BurnInv'
  BY DEF OtaInv, BurnInv, OneHandler, InHandler, Goto, Assign
<1>8. AssignInv' /\ TailInv'
  <2>1. \A u \in Threads : pc'[u] \notin {"assign"} /\ (pc'[u] = "tail" => u = t)
    BY DEF OtaInv, Shape, OneHandler, OneWorker, InHandler, Threads, Goto, Rest, Assign
  <2>2. ASSUME Quiet PROVE fetched \in 1..Blocks /\ InStep(fetched)'
    BY <2>2, OtaAssumption DEF Assign, OtaInv, AssignInv, InStep, Prefix, session, Shape
  <2>3. Quiet' => Quiet
    BY DEF Assign, Quiet, Goto, OtaInv, Shape, Threads
  <2> QED BY <2>1, <2>2, <2>3 DEF Assign, AssignInv, TailInv, session
<1>9. ReadyInv'
  BY DEF ReadyInv, InData, Goto, Assign
<1> QED BY <1>1, <1>2, <1>3, <1>4, <1>5, <1>6, <1>7, <1>8, <1>9 DEF OtaInv

LEMMA FinishKeeps ==
  ASSUME NEW t \in Threads, OtaInv, Sound, Finish(t)
  PROVE  OtaInv'
<1>0. /\ bank' = bank /\ \A n : (Prefix(n)' <=> Prefix(n)) /\ (InStep(n)' <=> InStep(n))
  BY DEF Finish, InStep, Prefix, flash
<1>1. Shape'
  BY DEF OtaInv, Shape, PCs, Statuses, Goto, Rest, flash, Finish
<1>2. OneHandler' /\ OneWorker'
  BY DEF OtaInv, OneHandler, OneWorker, InHandler, Goto, Finish
<1>3. NullInv' /\ OpenedInv' /\ DataInv' /\ FailInv'
  BY OtaAssumption DEF OtaInv, Shape, NullInv, OpenedInv, DataInv, FailInv, OneHandler, InData,
     InHandler, Goto, Rest, Finish
<1>4. LeaveInv' /\ DoneInv' /\ RunningIsComplete'
  <2>1. NoneLeaves /\ (Quiet => fetched \in 1..Blocks /\ InStep(fetched))
    BY DEF Finish, OtaInv, TailInv, DataInv, InData
  <2> QED BY <1>0, FullBank DEF OtaInv, Shape, DataInv, FetchInv, AssignInv, TailInv, ReadyInv,
     DoneInv, LeaveInv, FailInv, RunningIsComplete, Quiet, NoneLeaves, InData, Goto, Rest,
     flash, Finish
<1>5. FetchInv'
  BY DEF OtaInv, FetchInv, OneHandler, InHandler, Goto, Rest, Finish
<1>6. WriteInv'
  BY DEF OtaInv, WriteInv, OneHandler, InHandler, Goto, Rest, Finish
<1>7. BurnInv'
  BY DEF OtaInv, BurnInv, OneHandler, InHandler, Goto, Rest, Finish
<1>8. AssignInv' /\ TailInv'
  BY DEF OtaInv, Shape, AssignInv, TailInv, OneHandler, InHandler, Goto, Rest, Finish
<1>9. ReadyInv'
  BY <1>0 DEF OtaInv, ReadyInv, TailInv, Quiet, Goto, Finish
<1> QED BY <1>1, <1>2, <1>3, <1>4, <1>5, <1>6, <1>7, <1>8, <1>9 DEF OtaInv

-----------------------------------------------------------------------------
(* The OTA task.                                                           *)

LEMMA BeginKeeps ==
  ASSUME NEW w \in Workers, OtaInv, Sound, Begin(w)
  PROVE  OtaInv'
<1>0. /\ bank' = bank /\ \A n : (Prefix(n)' <=> Prefix(n)) /\ (InStep(n)' <=> InStep(n))
  BY DEF Begin, InStep, Prefix, flash
<1>1. Shape'
  BY OtaAssumption DEF OtaInv, Shape, OneHandler, Threads, Goto, Process, flash, Statuses, PCs,
     Begin
<1>2. OneHandler' /\ OneWorker'
  BY DEF OtaInv, OneHandler, OneWorker, InHandler, Process, Goto, Begin
<1>3. NullInv' /\ OpenedInv' /\ DataInv' /\ FailInv'
  <2>1. /\ pc \in [Threads -> PCs] /\ pc' = [pc EXCEPT ![w] = "loop"] /\ status' = "ing"
        /\ status = "init" /\ pc[w] = "process" /\ w \in Threads /\ Workers \subseteq Threads
    BY OtaAssumption DEF OtaInv, Shape, Threads, Process, Goto, Begin
  <2>2. NullInv'
    BY <2>1 DEF NullInv
  <2>3. OpenedInv'
    BY <2>1 DEF OtaInv, OpenedInv
  <2>4. NoneLeaves => NoneLeaves'
    BY <2>1 DEF NoneLeaves
  <2>5. \A t \in Threads : pc'[t] \in InData => pc[t] \in InData
    BY <2>1 DEF InData
  <2>6. DataInv'
    BY <2>1, <2>4, <2>5 DEF OtaInv, DataInv
  <2>7. FailInv'
    BY <2>1 DEF OtaInv, OneWorker, FailInv
  <2> QED BY <2>2, <2>3, <2>6, <2>7
<1>4. LeaveInv' /\ DoneInv' /\ RunningIsComplete'
  BY <1>0, FullBank, OtaAssumption DEF OtaInv, OneWorker, NullInv, DoneInv, LeaveInv, FailInv,
     RunningIsComplete, Goto, Process, flash, Begin
<1>5. FetchInv'
  BY DEF OtaInv, FetchInv, Quiet, InData, DataInv, Process, Goto, Begin
<1>6. WriteInv'
  BY <1>0 DEF OtaInv, WriteInv, Quiet, Process, Goto, Begin
<1>7. BurnInv'
  BY <1>0 DEF OtaInv, BurnInv, Quiet, Process, flash, Goto, Begin
<1>8. AssignInv' /\ TailInv'
  BY <1>0 DEF OtaInv, AssignInv, TailInv, Quiet, Process, Goto, Begin
<1>9. ReadyInv'
  BY <1>0 DEF OtaInv, ReadyInv, Quiet, NoneLeaves, InData, Process, Goto, Begin
<1> QED BY <1>1, <1>2, <1>3, <1>4, <1>5, <1>6, <1>7, <1>8, <1>9 DEF OtaInv

\* nothing is due yet, or the session cannot begin
LEMMA WaitKeeps ==
  ASSUME NEW w \in Workers, OtaInv, Sound, pc[w] = "process", Goto(w, "loop"),
         UNCHANGED <<links, session, flash, msg, addr>>
  PROVE  OtaInv'
<1>0. /\ bank' = bank /\ \A n : (Prefix(n)' <=> Prefix(n)) /\ (InStep(n)' <=> InStep(n))
  BY DEF InStep, Prefix, flash
<1>1. /\ pc' = [pc EXCEPT ![w] = "loop"] /\ pc[w] = "process" /\ w \in Threads /\ w # Recv
      /\ UNCHANGED <<net, asks, status, fetched, digest, failed, writeAddr, unlocked, bank, running,
                     msg, addr>>
  BY OtaAssumption DEF Goto, links, session, flash, Threads
<1>2. Shape'
  BY <1>1 DEF OtaInv, Shape, PCs
<1>3. OneHandler' /\ OneWorker' /\ FailInv'
  BY <1>1 DEF OtaInv, Shape, OneHandler, OneWorker, InHandler, FailInv
<1>4. NullInv' /\ OpenedInv' /\ DataInv' /\ LeaveInv' /\ DoneInv' /\ RunningIsComplete'
  BY <1>0, <1>1 DEF OtaInv, Shape, NullInv, OpenedInv, DataInv, LeaveInv, DoneInv, RunningIsComplete,
     NoneLeaves, Quiet, InData
<1>5. FetchInv'
  BY <1>0 DEF OtaInv, FetchInv, Quiet, session, Goto
<1>6. WriteInv'
  BY <1>0 DEF OtaInv, WriteInv, Quiet, session, Goto
<1>7. BurnInv'
  BY <1>0 DEF OtaInv, BurnInv, Quiet, session, flash, Goto
<1>8. AssignInv' /\ TailInv'
  BY <1>0 DEF OtaInv, AssignInv, TailInv, Quiet, session, Goto
<1>9. ReadyInv'
  BY <1>0 DEF OtaInv, ReadyInv, Quiet, NoneLeaves, InData, session, Goto
<1> QED BY <1>1, <1>2, <1>3, <1>4, <1>5, <1>6, <1>7, <1>8, <1>9 DEF OtaInv

LEMMA TimeoutKeeps ==
  ASSUME NEW w \in Workers, OtaInv, Sound, Timeout(w)
  PROVE  OtaInv'
<1>0. /\ bank' = bank /\ \A n : (Prefix(n)' <=> Prefix(n)) /\ (InStep(n)' <=> InStep(n))
  BY DEF Timeout, InStep, Prefix, flash
<1>1. Shape'
  BY OtaAssumption DEF OtaInv, Shape, OneHandler, OpenedInv, DataInv, Threads, Goto, Process,
     Resend, flash, Statuses, PCs, Timeout
<1>2. OneHandler' /\ OneWorker'
  BY DEF OtaInv, OneHandler, OneWorker, InHandler, Process, Goto, Timeout
<1>3. NullInv' /\ OpenedInv' /\ DataInv' /\ FailInv'
  BY OtaAssumption DEF OtaInv, Shape, NullInv, OpenedInv, DataInv, FailInv, OneHandler, OneWorker,
     NoneLeaves, InData, Process, Resend, Goto, Timeout
<1>4. LeaveInv' /\ DoneInv' /\ RunningIsComplete'
  BY DEF OtaInv, LeaveInv, DoneInv, RunningIsComplete, Process, Resend, flash, Goto, Timeout
<1>5. FetchInv'
  BY <1>0 DEF OtaInv, FetchInv, Quiet, Process, Resend, Goto, Timeout
<1>6. WriteInv'
  BY <1>0 DEF OtaInv, WriteInv, Quiet, Process, Resend, Goto, Timeout
<1>7. BurnInv'
  BY <1>0 DEF OtaInv, BurnInv, Quiet, Process, Resend, flash, Goto, Timeout
<1>8. AssignInv' /\ TailInv'
  BY <1>0 DEF OtaInv, AssignInv, TailInv, Quiet, Process, Resend, Goto, Timeout
<1>9. ReadyInv'
  BY <1>0 DEF OtaInv, ReadyInv, Quiet, NoneLeaves, InData, Process, Resend, Goto, Timeout
<1> QED BY <1>1, <1>2, <1>3, <1>4, <1>5, <1>6, <1>7, <1>8, <1>9 DEF OtaInv

LEMMA VerifyKeeps ==
  ASSUME NEW w \in Workers, OtaInv, Sound, Verify(w)
  PROVE  OtaInv'
<1>0. /\ bank' = bank /\ \A n : (Prefix(n)' <=> Prefix(n)) /\ (InStep(n)' <=> InStep(n))
  BY DEF Verify, InStep, Prefix, flash
<1>1. Shape'
  BY OtaAssumption DEF OtaInv, Shape, OneHandler, Threads, Goto, Process, links, flash,
     Statuses, PCs, Verify
<1>2. OneHandler' /\ OneWorker'
  BY DEF OtaInv, OneHandler, OneWorker, InHandler, Process, Goto, Verify
<1>3. NullInv' /\ OpenedInv' /\ DataInv' /\ FailInv'
  BY OtaAssumption DEF OtaInv, Shape, NullInv, OpenedInv, DataInv, FailInv, OneHandler, Quiet,
     NoneLeaves, InData, Process, links, Goto, Verify
<1>4. LeaveInv' /\ DoneInv' /\ RunningIsComplete'
  BY DEF OtaInv, LeaveInv, DoneInv, RunningIsComplete, NoneLeaves, Quiet, Process, flash, Goto,
     Verify
<1>5. FetchInv'
  BY DEF OtaInv, FetchInv, Quiet, InData, DataInv, Process, Goto, Verify
<1>6. WriteInv'
  BY <1>0 DEF OtaInv, WriteInv, Quiet, Process, Goto, Verify
<1>7. BurnInv'
  BY <1>0 DEF OtaInv, BurnInv, Quiet, Process, flash, Goto, Verify
<1>8. AssignInv' /\ TailInv'
  BY <1>0 DEF OtaInv, AssignInv, TailInv, Quiet, Process, Goto, Verify
<1>9. ReadyInv'
  BY DEF ReadyInv, Verify
<1> QED BY <1>1, <1>2, <1>3, <1>4, <1>5, <1>6, <1>7, <1>8, <1>9 DEF OtaInv

LEMMA SucceedKeeps ==
  ASSUME NEW w \in Workers, OtaInv, Sound, Succeed(w)
  PROVE  OtaInv'
<1>0. /\ bank' = bank /\ \A n : (Prefix(n)' <=> Prefix(n)) /\ (InStep(n)' <=> InStep(n))
  BY DEF Succeed, InStep, Prefix, flash
<1>1. Shape'
  BY OtaAssumption DEF OtaInv, Shape, OneHandler, Threads, Goto, Process, links, flash,
     Statuses, PCs, Succeed
<1>2. OneHandler' /\ OneWorker'
  BY DEF OtaInv, OneHandler, OneWorker, InHandler, Process, Goto, Succeed
<1>3. NullInv' /\ OpenedInv' /\ DataInv' /\ FailInv'
  BY <1>0, FullBank, OtaAssumption DEF OtaInv, OneWorker, NullInv, OpenedInv, DataInv, FailInv,
     RunningIsComplete, Quiet, InData, Goto, Process, Succeed
<1>4. LeaveInv' /\ DoneInv' /\ RunningIsComplete'
  BY <1>0, FullBank DEF OtaInv, LeaveInv, DoneInv, RunningIsComplete, Quiet, OneWorker, Process,
     flash, Goto, Succeed
<1>5. FetchInv'
  BY DEF OtaInv, FetchInv, Quiet, InData, DataInv, Process, Goto, Succeed
<1>6. WriteInv'
  BY OtaAssumption DEF OtaInv, OpenedInv, DataInv, FetchInv, WriteInv, Quiet, InData, Goto,
     Process, Succeed
<1>7. BurnInv'
  BY OtaAssumption DEF OtaInv, OpenedInv, DataInv, BurnInv, AssignInv, Quiet, InData, Goto,
     Process, Succeed
<1>8. AssignInv' /\ TailInv'
  BY OtaAssumption DEF OtaInv, OpenedInv, DataInv, BurnInv, AssignInv, TailInv, ReadyInv, Quiet,
     InData, Goto, Process, Succeed
<1>9. ReadyInv'
  BY DEF OtaInv, Shape, ReadyInv, NoneLeaves, Threads, Process, Goto, Succeed
<1> QED BY <1>1, <1>2, <1>3, <1>4, <1>5, <1>6, <1>7, <1>8, <1>9 DEF OtaInv

LEMMA GiveUpKeeps ==
  ASSUME NEW w \in Workers, OtaInv, Sound, GiveUp(w)
  PROVE  OtaInv'
<1>0. /\ bank' = bank /\ \A n : (Prefix(n)' <=> Prefix(n)) /\ (InStep(n)' <=> InStep(n))
  BY DEF GiveUp, InStep, Prefix, flash
<1>1. Shape'
  BY OtaAssumption DEF OtaInv, Shape, OneHandler, Threads, Goto, Process, links, flash,
     Statuses, PCs, GiveUp
<1>2. OneHandler' /\ OneWorker'
  BY DEF OtaInv, OneHandler, OneWorker, InHandler, Process, Goto, GiveUp
<1>3. NullInv' /\ OpenedInv' /\ DataInv' /\ FailInv'
  BY OtaAssumption DEF OtaInv, Shape, NullInv, OpenedInv, DataInv, FailInv, OneHandler, Quiet,
     NoneLeaves, InData, Threads, Process, Goto, GiveUp
<1>4. LeaveInv' /\ DoneInv' /\ RunningIsComplete'
  BY DEF OtaInv, LeaveInv, DoneInv, RunningIsComplete, Process, flash, Goto, GiveUp
<1>5. FetchInv'
  BY DEF OtaInv, Shape, FetchInv, Quiet, Threads, Process, Goto, GiveUp
<1>6. WriteInv'
  BY DEF OtaInv, Shape, WriteInv, Quiet, Threads, Process, Goto, GiveUp
<1>7. BurnInv'
  BY DEF OtaInv, Shape, BurnInv, Quiet, Threads, Process, Goto, GiveUp
<1>8. AssignInv' /\ TailInv'
  BY DEF OtaInv, Shape, AssignInv, TailInv, Quiet, Threads, Process, Goto, GiveUp
<1>9. ReadyInv'
  BY DEF OtaInv, Shape, ReadyInv, Quiet, Threads, Process, Goto, GiveUp
<1> QED BY <1>1, <1>2, <1>3, <1>4, <1>5, <1>6, <1>7, <1>8, <1>9 DEF OtaInv

LEMMA CloseKeeps ==
  ASSUME NEW w \in Workers, OtaInv, Sound, Close(w)
  PROVE  OtaInv'
<1>1. Shape'
  BY DEF OtaInv, Shape, InHandler, Threads, Goto, links, Statuses, PCs, Close
<1>2. OneHandler' /\ OneWorker'
  BY DEF OtaInv, OneHandler, OneWorker, InHandler, Goto, Close
<1>3. NullInv' /\ OpenedInv' /\ DataInv' /\ FailInv'
  BY CardNat, OtaAssumption DEF OtaInv, Shape, NullInv, OpenedInv, DataInv, FailInv, OneWorker,
     NoneLeaves, InData, Threads, Goto, links, Close
<1>4. LeaveInv' /\ DoneInv' /\ RunningIsComplete'
  BY CardNat DEF OtaInv, Shape, LeaveInv, DoneInv, RunningIsComplete, NoneLeaves, OneWorker,
     Threads, Goto, Close
<1>5. FetchInv'
  BY DEF OtaInv, FetchInv, InData, NoneLeaves, DataInv, Goto, Close
<1>6. WriteInv'
  BY OtaAssumption DEF OtaInv, WriteInv, Quiet, Goto, Close, InStep
<1>7. BurnInv'
  BY DEF OtaInv, BurnInv, Quiet, Goto, Close, Prefix
<1>8. AssignInv' /\ TailInv'
  BY DEF OtaInv, Shape, DataInv, FetchInv, AssignInv, TailInv, NoneLeaves, InData, Goto, Close
<1>9. ReadyInv'
  BY DEF ReadyInv, Close
<1> QED BY <1>1, <1>2, <1>3, <1>4, <1>5, <1>6, <1>7, <1>8, <1>9 DEF OtaInv

-----------------------------------------------------------------------------
(* Resets, the environment, and the temporal conclusions.                  *)

\* after a reset nothing is under way; only the banks matter
LEMMA PowerUpKeeps ==
  ASSUME PowerUp, running' = "complete"
  PROVE  OtaInv'
<1>1. pc' = Idle /\ status' = "null" /\ writeAddr' = 0 /\ fetched' = 0 /\ net' = <<>>
  BY DEF PowerUp
<1>2. /\ msg' = [t \in Threads |-> Push] /\ addr' = [t \in Threads |-> 0] /\ Push \in Nat
  BY OtaAssumption DEF PowerUp, Push
<1>3. \A t \in Threads : pc'[t] \in {"loop", "none"}
  BY <1>1 DEF Idle
<1>4. pc'[Recv] = "loop" /\ \A w \in Workers : pc'[w] = "none"
  BY <1>1, OtaAssumption DEF Idle, Threads
<1>5. Shape'
  BY <1>1, <1>2, <1>3, <1>4 DEF Shape, PCs, InHandler, Statuses, Idle
<1>6. OneHandler' /\ OneWorker'
  BY <1>3, <1>4 DEF OneHandler, OneWorker, InHandler
<1>7. NullInv' /\ OpenedInv' /\ DataInv' /\ FailInv' /\ LeaveInv'
  BY <1>3, <1>4 DEF NullInv, OpenedInv, DataInv, FailInv, LeaveInv, InData
<1>8. FetchInv' /\ WriteInv' /\ BurnInv' /\ AssignInv' /\ TailInv'
  BY <1>3 DEF FetchInv, WriteInv, BurnInv, AssignInv, TailInv
<1>9. ReadyInv' /\ DoneInv' /\ RunningIsComplete'
  BY <1>1 DEF ReadyInv, DoneInv, RunningIsComplete
<1> QED BY <1>5, <1>6, <1>7, <1>8, <1>9 DEF OtaInv

LEMMA ResetKeeps == ASSUME OtaInv, Reset PROVE OtaInv'
BY PowerUpKeeps DEF Reset, OtaInv, RunningIsComplete

\* the banks are swapped only when every block is in its slot
LEMMA SwapBankKeeps ==
  ASSUME NEW w \in Workers, OtaInv, SwapBank(w)
  PROVE  OtaInv'
<1>1. bank = Image
  BY DEF SwapBank, OtaInv, LeaveInv
<1> QED BY <1>1, PowerUpKeeps DEF SwapBank

\* the server and the network change nothing the invariant speaks of but net
LEMMA NetKeeps ==
  ASSUME OtaInv, net' \in Seq(Nat), UNCHANGED <<session, flash, pc, msg, addr>>
  PROVE  OtaInv'
<1>1. /\ \A n : (Prefix(n)' <=> Prefix(n)) /\ (InStep(n)' <=> InStep(n))
      /\ (Quiet' <=> Quiet) /\ (NoneLeaves' <=> NoneLeaves)
  BY DEF Prefix, InStep, Quiet, NoneLeaves, flash
<1>2. Shape' /\ OneHandler' /\ OneWorker'
  BY DEF OtaInv, Shape, OneHandler, OneWorker, session, flash
<1>3. NullInv' /\ OpenedInv' /\ DataInv' /\ FailInv' /\ LeaveInv'
  BY <1>1 DEF OtaInv, NullInv, OpenedInv, DataInv, FailInv, LeaveInv, session, flash
<1>4. FetchInv' /\ WriteInv' /\ BurnInv' /\ AssignInv' /\ TailInv'
  BY <1>1 DEF OtaInv, FetchInv, WriteInv, BurnInv, AssignInv, TailInv, session, flash
<1>5. ReadyInv' /\ DoneInv' /\ RunningIsComplete'
  BY <1>1 DEF OtaInv, ReadyInv, DoneInv, RunningIsComplete, session, flash
<1> QED BY <1>2, <1>3, <1>4, <1>5 DEF OtaInv

LEMMA EnvironmentKeeps == ASSUME OtaInv, Environment PROVE OtaInv'
<1>1. net \in Seq(Nat)
  BY DEF OtaInv, Shape
<1>2. Push \in Nat /\ Corrupt \in Nat /\ 1..Blocks \subseteq Nat
  BY OtaAssumption DEF Push, Corrupt
<1>3. CASE ServerPushes
  <2>1. net' \in Seq(Nat)
    BY <1>1, <1>2, <1>3 DEF ServerPushes
  <2> QED BY <1>3, <2>1, NetKeeps DEF ServerPushes
<1>4. CASE ServerReplies
  <2>1. PICK r \in 1..Blocks \cup {Corrupt} : net' = Append(net, r)
    BY <1>4 DEF ServerReplies
  <2>2. net' \in Seq(Nat)
    BY <1>1, <1>2, <2>1
  <2> QED BY <1>4, <2>2, NetKeeps DEF ServerReplies
<1>5. CASE RequestLost
  BY <1>1, <1>5, NetKeeps DEF RequestLost
<1>6. CASE PowerLost
  BY <1>6, ResetKeeps DEF PowerLost
<1> QED BY <1>3, <1>4, <1>5, <1>6 DEF Environment

LEMMA OtaInit == Init => OtaInv
<1> SUFFICES ASSUME Init PROVE OtaInv
  OBVIOUS
<1>1. pc[Recv] = "loop" /\ \A w \in Workers : pc[w] = "none"
  BY OtaAssumption DEF Init, Idle, Threads
<1>2. \A t \in Threads : pc[t] \in {"loop", "none"}
  BY DEF Init, Idle
<1>3. Shape
  BY <1>1, OtaAssumption DEF Init, Idle, Shape, PCs, InHandler, Statuses, Push
<1>4. OneHandler /\ OneWorker
  BY <1>1, <1>2 DEF OneHandler, OneWorker, InHandler
<1>5. NullInv /\ OpenedInv /\ DataInv /\ FailInv /\ LeaveInv
  BY <1>1, <1>2 DEF NullInv, OpenedInv, DataInv, FailInv, LeaveInv, InData
<1>6. FetchInv /\ WriteInv /\ BurnInv /\ AssignInv /\ TailInv
  BY <1>2 DEF FetchInv, WriteInv, BurnInv, AssignInv, TailInv
<1>7. ReadyInv /\ DoneInv /\ RunningIsComplete
  BY DEF Init, ReadyInv, DoneInv, RunningIsComplete
<1> QED BY <1>3, <1>4, <1>5, <1>6, <1>7 DEF OtaInv

LEMMA HandleKeeps ==
  ASSUME NEW t \in Threads, OtaInv, Sound, Handle(t)
  PROVE  OtaInv'
<1>1. CASE RefusePush(t) \/ IapInit(t) \/ OpenFails(t) \/ Open(t)
  BY <1>1, RefusePushKeeps, IapInitKeeps, OpenFailsKeeps, OpenKeeps
<1>2. CASE RefuseReply(t) \/ BadReply(t) \/ GoodReply(t) \/ Fetch(t) \/ Digest(t)
  BY <1>2, RefuseReplyKeeps, BadReplyKeeps, GoodReplyKeeps, FetchKeeps, DigestKeeps
<1>3. CASE WriteRefused(t)
  BY <1>3, ResetKeeps DEF WriteRefused
<1>4. CASE IapWrite(t) \/ FlashWrite(t) \/ Assign(t) \/ Finish(t)
  BY <1>4, IapWriteKeeps, FlashWriteKeeps, AssignKeeps, FinishKeeps
<1> QED BY <1>1, <1>2, <1>3, <1>4 DEF Handle

LEMMA WorkKeeps ==
  ASSUME NEW w \in Workers, OtaInv, Sound, Work(w)
  PROVE  OtaInv'
<1>1. CASE NothingReceived(w) \/ Begin(w) \/ Timeout(w) \/ Verify(w)
  BY <1>1, NothingReceivedKeeps, BeginKeeps, TimeoutKeeps, VerifyKeeps
<1>4. CASE Wait(w) \/ BeginFails(w)
  BY <1>4, WaitKeeps DEF Wait, BeginFails, Process
<1>2. CASE Succeed(w) \/ GiveUp(w) \/ Close(w)
  BY <1>2, SucceedKeeps, GiveUpKeeps, CloseKeeps
<1>3. CASE SwapBank(w) \/ Restart(w)
  BY <1>3, SwapBankKeeps, ResetKeeps DEF Restart
<1> QED BY <1>1, <1>2, <1>3, <1>4 DEF Work

LEMMA OtaStep == ASSUME Sound PROVE OtaInv /\ [Next]_vars => OtaInv'
<1> SUFFICES ASSUME OtaInv, [Next]_vars PROVE OtaInv'
  OBVIOUS
<1>1. ASSUME NEW t \in Threads, Take(t) \/ Handle(t) PROVE OtaInv'
  BY <1>1, TakeKeeps, HandleKeeps
<1>2. ASSUME NEW w \in Workers, Work(w) PROVE OtaInv'
  BY <1>2, WorkKeeps
<1>3. CASE UNCHANGED vars
  <2>1. net' \in Seq(Nat)
    BY <1>3 DEF OtaInv, Shape, vars, links
  <2> QED BY <1>3, <2>1, NetKeeps DEF vars
<1> QED BY <1>1, <1>2, <1>3, EnvironmentKeeps DEF Next

LEMMA OtaInvariance == ASSUME Sound PROVE Spec => []OtaInv
BY OtaInit, OtaStep, PTL DEF Spec

\* Whatever the server, the network and the power do, and whichever blocks but the
\* last fail to be programmed, boot_swap_bank boots a complete image, when the two
\* threads' handlers do not overlap and no push falls into the window before it.
THEOREM BootsCompleteImages == ASSUME Sound PROVE Spec => []RunningIsComplete
<1>1. OtaInv => RunningIsComplete
  BY DEF OtaInv
<1> QED BY <1>1, OtaInvariance, PTL

\* Under the same conditions, whenever no block is being handled, the alternate bank
\* holds the blocks the session has counted, each in its slot, or write_address is 0.
THEOREM CountsWhatIsWritten == ASSUME Sound PROVE Spec => []CountedIsWritten
<1>1. OtaInv => CountedIsWritten
  <2> SUFFICES ASSUME OtaInv, status = "ing", \A t \in Threads : pc[t] \notin InData
               PROVE  \/ writeAddr = 0
                      \/ /\ writeAddr = fetched + 1
                         /\ \A s \in Slots : bank[s] = IF s <= fetched THEN s ELSE Erased
    BY DEF CountedIsWritten
  <2>1. Quiet /\ NoneLeaves
    BY DEF OtaInv, FailInv, LeaveInv, Quiet, NoneLeaves
  <2>2. InStep(fetched)
    BY <2>1 DEF OtaInv, ReadyInv
  <2> QED BY <2>2 DEF InStep, Prefix
<1> QED BY <1>1, OtaInvariance, PTL

-----------------------------------------------------------------------------
(* The type invariant, with no condition on the handlers.                  *)

Fetching == {t \in Threads : pc[t] = "fetch"}
\* every thread that has accepted a block may still count it
CountInv == fetched + Cardinality(Fetching) <= Blocks + Cardinality(Threads)
\* a request is only repeated while there are repetitions left
RetryInv == /\ status = "ing" => failed <= MaxFailed
            /\ status = "init" => failed = 0
BlockInv == \A t \in Threads : pc[t] \in InData => msg[t] \in 1..Blocks

\* the parts of TypeOK by who changes them
LinkTypes == /\ net \in Seq(1..Corrupt) /\ Len(net) <= MaxNet
             /\ asks \in Seq(1..(Blocks + Cardinality(Threads) + 1)) /\ Len(asks) <= MaxAsks
SessionTypes == /\ status \in Statuses /\ fetched \in 0..(Blocks + Cardinality(Threads))
                /\ digest \in Seq(1..Blocks) /\ failed \in 0..(MaxFailed + 1)
FlashTypes == /\ writeAddr \in Nat /\ unlocked \in BOOLEAN
              /\ bank \in [Slots -> Erased..Torn] /\ running \in {"complete", "broken"}
ThreadTypes == /\ pc \in [Threads -> PCs] /\ msg \in [Threads -> 1..Corrupt]
               /\ addr \in [Threads -> Nat]

TypeInv == /\ LinkTypes /\ SessionTypes /\ FlashTypes /\ ThreadTypes
           /\ CountInv /\ RetryInv /\ BlockInv

LEMMA SeqGrows ==
  ASSUME NEW S, NEW s \in Seq(S), NEW x \in S, NEW m \in Nat
  PROVE  /\ Append(s, x) \in Seq(S)
         /\ Len(s) < m => Len(Append(s, x)) <= m
  OBVIOUS

LEMMA SeqShrinks ==
  ASSUME NEW S, NEW s \in Seq(S), s # <<>>, NEW m \in Nat, Len(s) <= m
  PROVE  Head(s) \in S /\ Tail(s) \in Seq(S) /\ Len(Tail(s)) <= m
  OBVIOUS

LEMMA SumBound ==
  ASSUME NEW a \in Nat, NEW b \in Nat, NEW c \in Nat, NEW d \in Nat, a + 1 <= c, b <= d
  PROVE  a + b <= c + d
  OBVIOUS

LEMMA FetchingFacts ==
  /\ IsFiniteSet(Fetching) /\ Cardinality(Fetching) \in Nat
  /\ Cardinality(Fetching) <= Cardinality(Threads)
<1>1. IsFiniteSet(Threads)
  BY OtaAssumption, FS_Singleton, FS_Union DEF Threads
<1> QED BY <1>1, FS_Subset, FS_CardinalityType DEF Fetching

\* how a step of one thread changes the number of those about to count
LEMMA FetchingMoves ==
  ASSUME pc \in [Threads -> PCs], NEW t \in Threads, NEW p \in PCs, Goto(t, p)
  PROVE  /\ pc' \in [Threads -> PCs] /\ Cardinality(Fetching') \in Nat
         /\ Cardinality(Fetching') <= Cardinality(Threads)
         /\ pc[t] # "fetch" /\ p # "fetch" => Fetching' = Fetching
         /\ pc[t] = "fetch" /\ p # "fetch"
               => Cardinality(Fetching') = Cardinality(Fetching) - 1
<1>1. pc' = [pc EXCEPT ![t] = p]
  BY DEF Goto
<1>2. Cardinality(Fetching') \in Nat /\ Cardinality(Fetching') <= Cardinality(Threads)
  <2>1. IsFiniteSet(Threads)
    BY OtaAssumption, FS_Singleton, FS_Union DEF Threads
  <2>2. Fetching' \subseteq Threads
    BY DEF Fetching
  <2> QED BY <2>1, <2>2, FS_Subset, FS_CardinalityType
<1>3. CASE pc[t] = "fetch" /\ p # "fetch"
  <2>1. Fetching' = Fetching \ {t} /\ t \in Fetching
    BY <1>1, <1>3 DEF Fetching
  <2> QED BY <1>1, <1>2, <1>3, <2>1, FetchingFacts, FS_RemoveElement
<1>4. pc' \in [Threads -> PCs] /\ (pc[t] # "fetch" /\ p # "fetch" => Fetching' = Fetching)
  BY <1>1 DEF Fetching
<1> QED BY <1>2, <1>3, <1>4

LEMMA AskTypes ==
  ASSUME LinkTypes, NEW n \in 1..(Blocks + Cardinality(Threads) + 1), Ask(n), net' = net
  PROVE  LinkTypes'
<1>1. asks' = asks \/ (Len(asks) < MaxAsks /\ asks' = Append(asks, n))
  BY DEF Ask
<1> QED BY <1>1, SeqGrows, OtaAssumption DEF LinkTypes

\* a thread goes on, outside the data handler or with the block it has
LEMMA ThreadMoves ==
  ASSUME TypeInv, NEW t \in Threads, NEW p \in PCs \ {"fetch"}, Goto(t, p),
         UNCHANGED msg, addr' \in [Threads -> Nat],
         p \in InData => pc[t] \in InData,
         fetched' = fetched \/ fetched' = 0 \/ (pc[t] = "fetch" /\ fetched' = fetched + 1)
  PROVE  ThreadTypes' /\ CountInv' /\ BlockInv' /\ fetched' \in 0..(Blocks + Cardinality(Threads))
<1>1. LinkTypes /\ SessionTypes /\ FlashTypes /\ ThreadTypes
  BY DEF TypeInv
<1>2. ThreadTypes' /\ BlockInv'
  BY <1>1 DEF ThreadTypes, TypeInv, BlockInv, Goto
<1>3. /\ Cardinality(Fetching') \in Nat /\ Cardinality(Fetching) \in Nat
      /\ Cardinality(Fetching') <= Cardinality(Threads)
      /\ pc[t] # "fetch" => Fetching' = Fetching
      /\ pc[t] = "fetch" => Cardinality(Fetching') = Cardinality(Fetching) - 1
  BY <1>1, FetchingMoves, FetchingFacts DEF ThreadTypes
<1>4. fetched \in Nat /\ fetched + Cardinality(Fetching) <= Blocks + Cardinality(Threads)
  BY <1>1 DEF SessionTypes, TypeInv, CountInv
<1>5. fetched' + Cardinality(Fetching') <= Blocks + Cardinality(Threads) /\ fetched' \in Nat
  BY <1>3, <1>4, OtaAssumption, CardNat
<1> QED BY <1>2, <1>3, <1>5, OtaAssumption, CardNat DEF CountInv

LEMMA TakeTypes ==
  ASSUME TypeInv, NEW t \in Threads, Take(t)
  PROVE  TypeInv'
<1>1. LinkTypes /\ SessionTypes /\ FlashTypes /\ ThreadTypes
  BY DEF TypeInv
<1>2. /\ pc[t] = "loop" /\ net # <<>> /\ msg' = [msg EXCEPT ![t] = Head(net)] /\ net' = Tail(net)
      /\ Goto(t, "got") /\ UNCHANGED <<asks, session, flash, addr>>
  BY DEF Take
<1>3. LinkTypes' /\ Head(net) \in 1..Corrupt
  BY <1>1, <1>2, SeqShrinks, OtaAssumption DEF LinkTypes
<1>4. SessionTypes' /\ FlashTypes'
  BY <1>1, <1>2 DEF SessionTypes, FlashTypes, session, flash
<1>5. "got" \in PCs /\ "got" \notin InData
  BY DEF PCs, InHandler, InData
<1>6. ThreadTypes' /\ BlockInv'
  BY <1>1, <1>2, <1>3, <1>5 DEF ThreadTypes, TypeInv, BlockInv, Goto
<1>7. Fetching' = Fetching /\ fetched' = fetched
  BY <1>1, <1>2, <1>5, FetchingMoves DEF ThreadTypes, session
<1>8. CountInv' /\ RetryInv'
  BY <1>2, <1>7 DEF TypeInv, CountInv, RetryInv, session
<1> QED BY <1>3, <1>4, <1>6, <1>8 DEF TypeInv

\* the handler of a push, and of a block that is not taken
LEMMA PushTypes ==
  ASSUME TypeInv, NEW t \in Threads,
         RefusePush(t) \/ IapInit(t) \/ OpenFails(t) \/ RefuseReply(t)
  PROVE  TypeInv'
<1>1. LinkTypes /\ SessionTypes /\ FlashTypes /\ ThreadTypes
  BY DEF TypeInv
<1>2. PICK p \in {"loop", "process", "opened"} :
         Goto(t, p) /\ UNCHANGED <<links, session, running, msg, addr>>
  BY DEF RefusePush, IapInit, OpenFails, RefuseReply, Rest, flash
<1>3. LinkTypes' /\ SessionTypes' /\ RetryInv'
  BY <1>1, <1>2 DEF LinkTypes, SessionTypes, TypeInv, RetryInv, links, session
<1>4. FlashTypes'
  <2>1. /\ writeAddr' \in {0, 1, writeAddr} /\ unlocked' \in {FALSE, unlocked}
        /\ bank' = bank \/ bank' = [s \in Slots |-> Erased]
    BY DEF RefusePush, IapInit, OpenFails, RefuseReply, flash
  <2>2. bank' \in [Slots -> Erased..Torn]
    <3>1. Erased \in Erased..Torn
      BY OtaAssumption DEF Erased, Torn
    <3> QED BY <1>1, <2>1, <3>1 DEF FlashTypes
  <2>3. writeAddr' \in Nat
    BY <1>1, <2>1 DEF FlashTypes
  <2>4. unlocked' \in BOOLEAN
    BY <1>1, <2>1, Zenon DEF FlashTypes
  <2> QED BY <1>1, <1>2, <2>2, <2>3, <2>4 DEF FlashTypes
<1>5. ThreadTypes' /\ CountInv' /\ BlockInv'
  BY <1>1, <1>2, ThreadMoves DEF PCs, InHandler, InData, ThreadTypes, session
<1> QED BY <1>3, <1>4, <1>5 DEF TypeInv

LEMMA OpenTypes ==
  ASSUME TypeInv, NEW t \in Threads, Open(t)
  PROVE  TypeInv'
<1>1. LinkTypes /\ SessionTypes /\ FlashTypes /\ ThreadTypes
  BY DEF TypeInv
<1>2. PICK w \in Workers : pc[w] = "none" /\ pc' = [pc EXCEPT ![t] = Rest(t), ![w] = "loop"]
  BY DEF Open
<1>3. /\ status' \in {"init", "empty"} /\ fetched' = 0 /\ digest' = <<>> /\ failed' = 0
      /\ pc[t] = "opened"
      /\ UNCHANGED <<links, flash, msg, addr>>
  BY DEF Open
<1>4. LinkTypes' /\ FlashTypes'
  BY <1>1, <1>3 DEF LinkTypes, FlashTypes, links, flash
<1>5. SessionTypes' /\ RetryInv'
  BY <1>3, OtaAssumption, CardNat DEF SessionTypes, RetryInv, Statuses
<1>6. ThreadTypes' /\ BlockInv'
  BY <1>1, <1>2, <1>3 DEF ThreadTypes, TypeInv, BlockInv, Threads, Rest, PCs, InHandler, InData
<1>7. CountInv'
  <2>1. \A u \in Threads : pc'[u] = "fetch" => pc[u] = "fetch"
    BY <1>1, <1>2 DEF ThreadTypes, Threads, Rest
  <2>2. Fetching' \subseteq Fetching
    BY <2>1 DEF Fetching
  <2> QED BY <1>3, <2>2, FetchingFacts, FS_Subset, FS_CardinalityType, CardNat, OtaAssumption
          DEF CountInv
<1> QED BY <1>4, <1>5, <1>6, <1>7 DEF TypeInv

LEMMA ResendTypes ==
  ASSUME TypeInv, status = "ing", Resend, net' = net
  PROVE  LinkTypes' /\ SessionTypes' /\ RetryInv' /\ fetched' = fetched
<1>1. LinkTypes /\ SessionTypes /\ failed <= MaxFailed
  BY DEF TypeInv, RetryInv
<1>2. fetched + 1 \in 1..(Blocks + Cardinality(Threads) + 1)
  BY <1>1, CardNat, OtaAssumption DEF SessionTypes
<1>3. /\ failed' = failed + 1 /\ fetched' = fetched /\ digest' = digest
      /\ \/ failed + 1 > MaxFailed /\ status' = "timeout" /\ asks' = asks
         \/ failed + 1 <= MaxFailed /\ status' = status /\ Ask(fetched + 1)
  BY <1>1, OtaAssumption DEF Resend, SessionTypes
<1>4. LinkTypes'
  BY <1>1, <1>2, <1>3, AskTypes DEF LinkTypes
<1>5. SessionTypes' /\ RetryInv'
  BY <1>1, <1>3, OtaAssumption DEF SessionTypes, RetryInv, Statuses
<1> QED BY <1>3, <1>4, <1>5

LEMMA BadReplyTypes ==
  ASSUME TypeInv, NEW t \in Threads, BadReply(t)
  PROVE  TypeInv'
<1>1. Goto(t, Rest(t)) /\ Resend /\ status = "ing" /\ UNCHANGED <<net, flash, msg, addr>>
  BY DEF BadReply
<1>2. LinkTypes' /\ SessionTypes' /\ RetryInv' /\ fetched' = fetched
  BY <1>1, ResendTypes
<1>3. FlashTypes' /\ addr' \in [Threads -> Nat]
  BY <1>1 DEF TypeInv, FlashTypes, ThreadTypes, flash
<1>4. ThreadTypes' /\ CountInv' /\ BlockInv'
  BY <1>1, <1>2, <1>3, ThreadMoves DEF Rest, PCs, InHandler, InData
<1> QED BY <1>2, <1>3, <1>4 DEF TypeInv

LEMMA GoodReplyTypes ==
  ASSUME TypeInv, NEW t \in Threads, GoodReply(t)
  PROVE  TypeInv'
<1>1. LinkTypes /\ SessionTypes /\ FlashTypes /\ ThreadTypes
  BY DEF TypeInv
<1>2. /\ msg[t] \in 1..Blocks /\ msg[t] = fetched + 1 /\ Goto(t, "fetch")
      /\ UNCHANGED <<links, session, flash, msg, addr>>
  BY DEF GoodReply
<1>3. LinkTypes' /\ SessionTypes' /\ FlashTypes' /\ RetryInv'
  BY <1>1, <1>2 DEF TypeInv, LinkTypes, SessionTypes, FlashTypes, RetryInv, links, session, flash
<1>4. "fetch" \in PCs
  BY DEF PCs, InHandler
<1>5. ThreadTypes' /\ BlockInv'
  BY <1>1, <1>2, <1>4 DEF TypeInv, ThreadTypes, BlockInv, Goto
<1>6. fetched' + 1 <= Blocks /\ fetched' \in Nat
  BY <1>1, <1>2, OtaAssumption DEF SessionTypes, session
<1>7. CountInv'
  <2>1. Cardinality(Fetching') \in Nat /\ Cardinality(Fetching') <= Cardinality(Threads)
    <3>1. pc \in [Threads -> PCs]
      BY <1>1 DEF ThreadTypes
    <3> QED BY <1>2, <1>4, <3>1, FetchingMoves, Zenon
  <2>2. fetched' + Cardinality(Fetching') <= Blocks + Cardinality(Threads)
    <3>1. Blocks \in Nat
      BY OtaAssumption
    <3> QED BY <1>6, <2>1, <3>1, CardNat, SumBound, Zenon
  <2> QED BY <2>2 DEF CountInv
<1> QED BY <1>3, <1>5, <1>7 DEF TypeInv

LEMMA BlockTypes ==
  ASSUME TypeInv, NEW t \in Threads, Fetch(t) \/ Digest(t)
  PROVE  TypeInv'
<1>1. LinkTypes /\ SessionTypes /\ FlashTypes /\ ThreadTypes
  BY DEF TypeInv
<1>2. /\ pc[t] \in {"fetch", "digest"} /\ UNCHANGED <<links, status, flash, msg, addr>>
      /\ Goto(t, "digest") \/ Goto(t, "write")
      /\ fetched' = fetched \/ (pc[t] = "fetch" /\ fetched' = fetched + 1)
      /\ digest' = digest \/ digest' = Append(digest, msg[t])
      /\ failed' = failed \/ failed' = 0
  BY DEF Fetch, Digest
<1>3. pc[t] \in InData /\ msg[t] \in 1..Blocks
  BY <1>2 DEF InData, TypeInv, BlockInv
<1>4. LinkTypes' /\ FlashTypes' /\ addr' \in [Threads -> Nat] /\ UNCHANGED msg
  BY <1>1, <1>2 DEF LinkTypes, FlashTypes, ThreadTypes, links, flash
<1>5. "digest" \in PCs \ {"fetch"} /\ "write" \in PCs \ {"fetch"}
  BY DEF PCs, InHandler
<1>6. ThreadTypes' /\ CountInv' /\ BlockInv' /\ fetched' \in 0..(Blocks + Cardinality(Threads))
  BY <1>2, <1>3, <1>4, <1>5, ThreadMoves
<1>7. digest' \in Seq(1..Blocks)
  BY <1>1, <1>2, <1>3, SeqGrows DEF SessionTypes
<1>8. SessionTypes' /\ RetryInv'
  BY <1>1, <1>2, <1>6, <1>7, OtaAssumption DEF SessionTypes, TypeInv, RetryInv
<1> QED BY <1>4, <1>6, <1>8 DEF TypeInv

LEMMA FlashStepTypes ==
  ASSUME TypeInv, NEW t \in Threads, IapWrite(t) \/ FlashWrite(t) \/ Assign(t)
  PROVE  TypeInv'
<1>1. LinkTypes /\ SessionTypes /\ FlashTypes /\ ThreadTypes
  BY DEF TypeInv
<1>2. PICK p \in {"burn", "assign", "tail"} :
         Goto(t, p) /\ UNCHANGED <<links, session, running, msg>>
  BY DEF IapWrite, FlashWrite, Assign
<1>3. pc[t] \in InData /\ pc[t] # "fetch" /\ msg[t] \in 1..Blocks
  BY DEF IapWrite, FlashWrite, Assign, InData, TypeInv, BlockInv
<1>4. LinkTypes' /\ SessionTypes' /\ RetryInv' /\ fetched' = fetched
  BY <1>1, <1>2 DEF LinkTypes, SessionTypes, TypeInv, RetryInv, links, session
<1>5. addr' \in [Threads -> Nat] /\ writeAddr' \in Nat /\ unlocked' \in BOOLEAN
  <2>1. \/ addr' = [addr EXCEPT ![t] = writeAddr]
        \/ addr' = [addr EXCEPT ![t] = addr[t] + 1]
        \/ addr' = [addr EXCEPT ![t] = 0]
        \/ addr' = addr
    BY DEF IapWrite, FlashWrite, Assign
  <2>2. addr' \in [Threads -> Nat]
    BY <1>1, <2>1 DEF ThreadTypes, FlashTypes
  <2>3. writeAddr' \in {writeAddr, addr[t]} /\ unlocked' \in {unlocked, TRUE, FALSE}
    BY DEF IapWrite, FlashWrite, Assign
  <2>4. unlocked' \in BOOLEAN
    BY <1>1, <2>3, Zenon DEF FlashTypes
  <2> QED BY <1>1, <2>2, <2>3, <2>4 DEF ThreadTypes, FlashTypes
<1>6. bank' \in [Slots -> Erased..Torn] /\ running' \in {"complete", "broken"}
  <2>1. msg[t] \in Erased..Torn /\ Torn \in Erased..Torn
    BY <1>3, OtaAssumption DEF Erased, Torn
  <2>2. \/ bank' = bank \/ bank' = [bank EXCEPT ![addr[t]] = msg[t]]
        \/ bank' = [bank EXCEPT ![addr[t]] = Torn]
    BY DEF IapWrite, FlashWrite, Assign
  <2> QED BY <1>1, <1>2, <2>1, <2>2 DEF FlashTypes
<1>7. ThreadTypes' /\ CountInv' /\ BlockInv'
  BY <1>2, <1>3, <1>4, <1>5, ThreadMoves DEF PCs, InHandler
<1> QED BY <1>4, <1>5, <1>6, <1>7 DEF TypeInv, FlashTypes

LEMMA FinishTypes ==
  ASSUME TypeInv, NEW t \in Threads, Finish(t)
  PROVE  TypeInv'
<1>1. LinkTypes /\ SessionTypes /\ FlashTypes /\ ThreadTypes
  BY DEF TypeInv
<1>2. Goto(t, Rest(t)) /\ UNCHANGED <<net, fetched, digest, failed, flash, msg, addr>>
  BY DEF Finish
<1>3. fetched + 1 \in 1..(Blocks + Cardinality(Threads) + 1)
  BY <1>1, CardNat, OtaAssumption DEF SessionTypes
<1>4. LinkTypes'
  <2>1. Ask(fetched + 1) \/ asks' = asks
    BY DEF Finish
  <2> QED BY <1>1, <1>2, <1>3, <2>1, AskTypes DEF LinkTypes
<1>5. SessionTypes' /\ RetryInv'
  <2>1. status' \in {status, "finished", "recverror"}
    BY DEF Finish
  <2> QED BY <1>1, <1>2, <2>1 DEF SessionTypes, Statuses, TypeInv, RetryInv
<1>6. FlashTypes' /\ addr' \in [Threads -> Nat]
  BY <1>1, <1>2 DEF FlashTypes, ThreadTypes, flash
<1>7. ThreadTypes' /\ CountInv' /\ BlockInv'
  BY <1>2, <1>6, ThreadMoves DEF Rest, PCs, InHandler, InData
<1> QED BY <1>4, <1>5, <1>6, <1>7 DEF TypeInv

\* the OTA task between two messages, and what it does with the session's result
LEMMA ProcessTypes ==
  ASSUME TypeInv, NEW w \in Workers,
         \/ NothingReceived(w) \/ BeginFails(w) \/ Begin(w) \/ Wait(w)
         \/ Timeout(w) \/ Verify(w)
         \/ Succeed(w) \/ GiveUp(w) \/ Close(w)
  PROVE  TypeInv'
<1>1. LinkTypes /\ SessionTypes /\ FlashTypes /\ ThreadTypes /\ w \in Threads
  BY DEF TypeInv, Threads
<1>2. PICK p \in {"process", "loop", "close", "fail", "report"} :
         Goto(w, p) /\ UNCHANGED <<net, unlocked, bank, running, msg, addr>>
  BY DEF NothingReceived, BeginFails, Begin, Wait, Timeout, Verify, Succeed, GiveUp, Close, Process,
     links, flash
<1>3. FlashTypes' /\ addr' \in [Threads -> Nat]
  <2>1. writeAddr' \in {writeAddr, 0}
    BY DEF NothingReceived, BeginFails, Begin, Wait, Timeout, Verify, Succeed, GiveUp, Close, flash
  <2> QED BY <1>1, <1>2, <2>1 DEF FlashTypes, ThreadTypes
<1>4. LinkTypes' /\ SessionTypes' /\ RetryInv' /\ fetched' \in {0, fetched}
  <2>1. CASE NothingReceived(w) \/ BeginFails(w) \/ Wait(w)
    BY <1>1, <2>1 DEF NothingReceived, BeginFails, Wait, LinkTypes, SessionTypes, TypeInv, RetryInv, links, session
  <2>2. CASE Begin(w)
    <3>1. 1 \in 1..(Blocks + Cardinality(Threads) + 1)
      BY CardNat, OtaAssumption
    <3>2. LinkTypes'
      BY <1>1, <2>2, <3>1, AskTypes DEF Begin
    <3>3. status = "init" /\ status' = "ing" /\ UNCHANGED <<fetched, digest, failed>>
      BY <2>2 DEF Begin, Process
    <3> QED BY <1>1, <3>2, <3>3, OtaAssumption DEF SessionTypes, Statuses, TypeInv, RetryInv
  <2>3. CASE Timeout(w)
    BY <2>3, ResendTypes DEF Timeout, Process
  <2>4. CASE Verify(w)
    <3>1. status' \in {"mismatch", "success"} /\ UNCHANGED <<links, fetched, digest, failed>>
      BY <2>4 DEF Verify
    <3> QED BY <1>1, <3>1 DEF LinkTypes, SessionTypes, Statuses, RetryInv, links
  <2>5. CASE Succeed(w) \/ GiveUp(w)
    <3>1. status' = "init" /\ fetched' = 0 /\ failed' = 0 /\ UNCHANGED <<links, digest>>
      BY <2>5 DEF Succeed, GiveUp
    <3> QED BY <1>1, <3>1, OtaAssumption, CardNat
            DEF LinkTypes, SessionTypes, Statuses, RetryInv, links
  <2>6. CASE Close(w)
    <3>1. status' = "null" /\ UNCHANGED <<links, fetched, digest, failed>>
      BY <2>6 DEF Close
    <3> QED BY <1>1, <3>1 DEF LinkTypes, SessionTypes, Statuses, RetryInv, links
  <2> QED BY <2>1, <2>2, <2>3, <2>4, <2>5, <2>6
<1>5. ThreadTypes' /\ CountInv' /\ BlockInv'
  <2>1. p \in PCs \ {"fetch"} /\ p \notin InData
    BY DEF PCs, InHandler, InData
  <2> QED BY <1>1, <1>2, <1>3, <1>4, <2>1, ThreadMoves
<1> QED BY <1>3, <1>4, <1>5 DEF TypeInv

LEMMA PowerUpTypes ==
  ASSUME FlashTypes, PowerUp, bank' \in [Slots -> Erased..Torn], running' \in {"complete", "broken"}
  PROVE  TypeInv'
<1>1. /\ net' = <<>> /\ asks' = <<>> /\ status' = "null" /\ fetched' = 0 /\ digest' = <<>>
      /\ failed' = 0 /\ writeAddr' = 0 /\ unlocked' = FALSE
      /\ pc' = Idle /\ msg' = [t \in Threads |-> Push] /\ addr' = [t \in Threads |-> 0]
  BY DEF PowerUp
<1>2. LinkTypes' /\ SessionTypes' /\ RetryInv'
  BY <1>1, OtaAssumption, CardNat DEF LinkTypes, SessionTypes, RetryInv, Statuses
<1>3. FlashTypes'
  BY <1>1 DEF FlashTypes
<1>4. \A t \in Threads : pc'[t] \in {"loop", "none"}
  BY <1>1 DEF Idle
<1>5. ThreadTypes' /\ BlockInv'
  BY <1>1, <1>4, OtaAssumption DEF ThreadTypes, BlockInv, Idle, PCs, InData, Push, Corrupt
<1>6. CountInv'
  <2>1. Fetching' = {}
    BY <1>4 DEF Fetching
  <2> QED BY <1>1, <2>1, FS_EmptySet, OtaAssumption, CardNat DEF CountInv
<1> QED BY <1>2, <1>3, <1>5, <1>6 DEF TypeInv

LEMMA EnvironmentTypes == ASSUME TypeInv, Environment PROVE TypeInv'
<1>1. LinkTypes /\ SessionTypes /\ FlashTypes /\ ThreadTypes
  BY DEF TypeInv
<1>2. CASE PowerLost
  BY <1>1, <1>2, PowerUpTypes DEF PowerLost, Reset, FlashTypes
<1>3. CASE ServerPushes \/ ServerReplies \/ RequestLost
  <2>1. UNCHANGED <<session, flash, pc, msg, addr>>
    BY <1>3 DEF ServerPushes, ServerReplies, RequestLost
  <2>2. \A r \in 1..Blocks \cup {Push, Corrupt} : r \in 1..Corrupt
    BY OtaAssumption DEF Push, Corrupt
  <2>3. \/ net' = net
        \/ \E r \in 1..Corrupt : Len(net) < MaxNet /\ net' = Append(net, r)
    BY <1>3, <2>2 DEF ServerPushes, ServerReplies, RequestLost
  <2>4. asks' = asks \/ (asks # <<>> /\ asks' = Tail(asks))
    BY <1>3 DEF ServerPushes, ServerReplies, RequestLost
  <2>5. LinkTypes'
    BY <1>1, <2>3, <2>4, SeqGrows, SeqShrinks, OtaAssumption DEF LinkTypes
  <2> QED BY <2>1, <2>5 DEF TypeInv, SessionTypes, FlashTypes, ThreadTypes, CountInv, Fetching,
             RetryInv, BlockInv, session, flash
<1> QED BY <1>2, <1>3 DEF Environment

LEMMA TypeInvariance == Spec => []TypeInv
<1>1. Init => TypeInv
  <2> SUFFICES ASSUME Init PROVE TypeInv
    OBVIOUS
  <2>1. LinkTypes /\ SessionTypes /\ RetryInv
    BY OtaAssumption, CardNat DEF Init, LinkTypes, SessionTypes, RetryInv, Statuses
  <2>2. FlashTypes
    <3>1. Torn \in Erased..Torn
      BY OtaAssumption DEF Erased, Torn
    <3> QED BY <3>1 DEF Init, FlashTypes
  <2>3. \A t \in Threads : pc[t] \in {"loop", "none"}
    BY DEF Init, Idle
  <2>4. ThreadTypes /\ BlockInv
    BY <2>3, OtaAssumption DEF Init, ThreadTypes, BlockInv, Idle, PCs, InData, Push, Corrupt
  <2>5. CountInv
    <3>1. Fetching = {}
      BY <2>3 DEF Fetching
    <3> QED BY <3>1, FS_EmptySet, OtaAssumption, CardNat DEF Init, CountInv
  <2> QED BY <2>1, <2>2, <2>4, <2>5 DEF TypeInv
<1>2. TypeInv /\ [Next]_vars => TypeInv'
  <2> SUFFICES ASSUME TypeInv, [Next]_vars PROVE TypeInv'
    OBVIOUS
  <2>1. ASSUME Reset PROVE TypeInv'
    BY <2>1, PowerUpTypes DEF Reset, TypeInv, FlashTypes
  <2>2. ASSUME NEW t \in Threads, Take(t) \/ Handle(t) PROVE TypeInv'
    BY <2>1, <2>2, TakeTypes, PushTypes, OpenTypes, BadReplyTypes, GoodReplyTypes, BlockTypes,
       FlashStepTypes, FinishTypes DEF Handle, WriteRefused
  <2>3. ASSUME NEW w \in Workers, SwapBank(w) PROVE TypeInv'
    <3>1. bank' \in [Slots -> Erased..Torn]
      <4>1. Torn \in Erased..Torn
        BY OtaAssumption DEF Erased, Torn
      <4> QED BY <2>3, <4>1 DEF SwapBank
    <3> QED BY <2>3, <3>1, PowerUpTypes DEF SwapBank, TypeInv
  <2>4. ASSUME NEW w \in Workers, Work(w) PROVE TypeInv'
    BY <2>1, <2>3, <2>4, ProcessTypes DEF Work, Restart
  <2>5. CASE UNCHANGED vars
    BY <2>5 DEF vars, TypeInv, LinkTypes, SessionTypes, FlashTypes, ThreadTypes, CountInv, Fetching,
       RetryInv, BlockInv, links, session, flash
  <2> QED BY <2>2, <2>4, <2>5, EnvironmentTypes DEF Next
<1> QED BY <1>1, <1>2, PTL DEF Spec

\* Whatever two threads do in the handlers at once, the session's counters stay within
\* the retry limit and the image's length plus one block per thread, and the bank holds
\* blocks of the image (aiot_mqtt_download_api.c, iap.c).
THEOREM OtaTypeCorrect == Spec => []TypeOK
<1>1. TypeInv => TypeOK
  BY DEF TypeInv, LinkTypes, SessionTypes, FlashTypes, ThreadTypes, TypeOK
<1> QED BY <1>1, TypeInvariance, PTL
=============================================================================
