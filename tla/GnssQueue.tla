----------------------------- MODULE GnssQueue ------------------------------
(***************************************************************************)
(* How positions reach the tasks that use them: gnss_task (gnss.c) puts a  *)
(* message of its own into the queue of every subscriber, and takes the    *)
(* oldest one out first when the queue is nearly full (general_message.c); *)
(* iot_send_task (iot_helper.c) and host_protocol_task (host_protocol.c)   *)
(* take messages, handle and free them.  All of them pause while a         *)
(* firmware upgrade is under way.                                          *)
(*                                                                         *)
(* A message is the number of its point and whether it could be allocated: *)
(* a NULL pointer is queued like any other.  Subscribing is one step: the  *)
(* slot is written before subscriber_count, and the two subscribers start  *)
(* far apart.                                                              *)
(***************************************************************************)
EXTENDS Naturals, Sequences, FiniteSets

CONSTANTS Subscribers, \* the tasks that subscribe
          MaxSlots,    \* MAX_SUBSCRIBER_COUNT, 10
          Size,        \* the length of a queue, 100
          Reserve,     \* a queue with fewer free places is nearly full, 5
          Heap,        \* messages the heap has room for
          Burst,       \* messages a subscriber takes at most between gnss_task's
                       \* look at its queue and the removal of the oldest
          MaxPoints,   \* points of a behaviour
          None         \* no message

Message == [point : Nat, ok : BOOLEAN]

ASSUME QueueAssumption ==
    /\ MaxSlots \in Nat /\ Size \in Nat /\ Reserve \in Nat /\ Heap \in Nat
    /\ 1 < Reserve /\ Reserve <= Size
    /\ Burst \in Nat /\ MaxPoints \in Nat /\ None \notin Message

VARIABLES point,     \* the last point passed on
          slots,     \* subscribers, up to subscriber_count
          queue,     \* of each subscriber
          task, held, \* where each subscriber is, and its message
          pc, slot, msg, \* where gnss_task is, the subscriber it serves, its message
          free,      \* messages the heap still has room for
          upgrading, \* g_app_upgrade_flag
          taken      \* messages taken since gnss_task looked at the queue

gnss == <<point, pc, slot, msg>>
subscriber == <<task, held>>
vars == <<gnss, subscriber, slots, queue, free, upgrading, taken>>

Init == /\ point = 0 /\ pc = "idle" /\ slot = 1 /\ msg = None
        /\ task = [s \in Subscribers |-> "start"] /\ held = [s \in Subscribers |-> None]
        /\ slots = <<>> /\ queue = [s \in Subscribers |-> <<>>]
        /\ free = Heap /\ upgrading = FALSE /\ taken = 0

\* Mutants of Release: the block is not freed; NULL is freed as well
ReleaseNothing(m) == free' = free
ReleaseNull(m) == free' = free + 1
\* free_general_message: NULL is left alone
Release(m) == free' = IF m.ok THEN free + 1 ELSE free

-----------------------------------------------------------------------------
(* gnss_task: general_message_to_queue.                                    *)

Served == slots[slot]

Locate == /\ pc = "idle" /\ ~upgrading /\ point < MaxPoints
          /\ point' = point + 1 /\ slot' = 1 /\ pc' = "look"
          /\ UNCHANGED <<msg, subscriber, slots, queue, free, upgrading, taken>>

\* Mutants of NearlyFull: the space used is compared; no room is ever made
NearlyEmpty(q) == Len(q) < Reserve
NeverFull(q) == FALSE
NearlyFull(q) == Size - Len(q) < Reserve

\* remove_queue_first_item compares the space left
Look == /\ pc = "look"
        /\ \/ slot > Len(slots) /\ pc' = "idle"
           \/ /\ slot <= Len(slots)
              /\ pc' = IF NearlyFull(queue[Served]) THEN "receive" ELSE "create"
        /\ taken' = 0
        /\ UNCHANGED <<point, slot, msg, subscriber, slots, queue, free, upgrading>>

\* and waits for as long as it takes for a message to remove
RemoveOldest == /\ pc = "receive" /\ queue[Served] # <<>>
                /\ Release(Head(queue[Served]))
                /\ queue' = [queue EXCEPT ![Served] = Tail(@)]
                /\ pc' = "create"
                /\ UNCHANGED <<point, slot, msg, subscriber, slots, upgrading, taken>>

\* create_general_message; the heap is shared with the rest of the program
Create == /\ pc = "create"
          /\ \/ free > 0 /\ free' = free - 1 /\ msg' = [point |-> point, ok |-> TRUE]
             \/ UNCHANGED free /\ msg' = [point |-> point, ok |-> FALSE]
          /\ pc' = "send"
          /\ UNCHANGED <<point, slot, subscriber, slots, queue, upgrading, taken>>

NextSlot == slot' = slot + 1 /\ msg' = None /\ pc' = "look"

\* a full queue is waited for ten ticks, then the message is freed
Send == /\ pc = "send"
        /\ IF Len(queue[Served]) < Size
           THEN /\ queue' = [queue EXCEPT ![Served] = Append(@, msg)]
                /\ UNCHANGED free
           ELSE Release(msg) /\ UNCHANGED queue
        /\ NextSlot
        /\ UNCHANGED <<point, subscriber, slots, upgrading, taken>>

Gnss == Locate \/ Look \/ RemoveOldest \/ Create \/ Send

-----------------------------------------------------------------------------
(* iot_send_task and host_protocol_task.                                   *)

Subscribe(s) == /\ task[s] = "start"
                /\ slots' = IF Len(slots) < MaxSlots THEN Append(slots, s) ELSE slots
                /\ task' = [task EXCEPT ![s] = "loop"]
                /\ UNCHANGED <<gnss, held, queue, free, upgrading, taken>>

\* the flag is looked at before the task blocks on its queue, not after
Begin(s) == /\ task[s] = "loop" /\ ~upgrading
            /\ task' = [task EXCEPT ![s] = "receive"]
            /\ UNCHANGED <<gnss, held, slots, queue, free, upgrading, taken>>

Watched(s) == pc = "receive" /\ Served = s

Take(s) == /\ task[s] = "receive" /\ queue[s] # <<>>
           /\ \/ Watched(s) /\ taken < Burst /\ taken' = taken + 1
              \/ ~Watched(s) /\ UNCHANGED taken
           /\ held' = [held EXCEPT ![s] = Head(queue[s])]
           /\ queue' = [queue EXCEPT ![s] = Tail(@)]
           /\ task' = [task EXCEPT ![s] = "handle"]
           /\ UNCHANGED <<gnss, slots, free, upgrading>>

\* iot_send or handle_host_message; both tell a NULL message from others
Handle(s) == /\ task[s] = "handle"
             /\ Release(held[s])
             /\ held' = [held EXCEPT ![s] = None]
             /\ task' = [task EXCEPT ![s] = "loop"]
             /\ UNCHANGED <<gnss, slots, queue, upgrading, taken>>

Subscriber(s) == Subscribe(s) \/ Begin(s) \/ Take(s) \/ Handle(s)

StartUpgrade == /\ ~upgrading
                /\ upgrading' = TRUE
                /\ UNCHANGED <<gnss, subscriber, slots, queue, free, taken>>

Next == Gnss \/ (\E s \in Subscribers : Subscriber(s)) \/ StartUpgrade

Spec == Init /\ [][Next]_vars

-----------------------------------------------------------------------------
(* Properties.                                                             *)

\* Type invariant of the queues and of the tasks at both ends (gnss.c,
\* general_message.c, iot_helper.c, host_protocol.c).
TypeOK == /\ point \in 0..MaxPoints /\ pc \in {"idle", "look", "receive", "create", "send"}
          /\ slots \in Seq(Subscribers) /\ Len(slots) <= MaxSlots
          /\ slot \in 1..(Len(slots) + 1)
          /\ pc \in {"receive", "create", "send"} => slot <= Len(slots)
          /\ msg \in Message \cup {None} /\ (pc = "send" <=> msg # None)
          /\ queue \in [Subscribers -> Seq(Message)]
          /\ task \in [Subscribers -> {"start", "loop", "receive", "handle"}]
          /\ held \in [Subscribers -> Message \cup {None}]
          /\ free \in 0..Heap /\ upgrading \in BOOLEAN /\ taken \in 0..Burst

\* gnss_task has no other way out of remove_queue_first_item than a message of
\* the queue, and nobody but gnss_task fills it: it must not wait for one
\* (general_message.c:38).
NeverBlocks == pc = "receive" => queue[Served] # <<>>

\* The room that is made is there when the message is sent: the newest point is
\* never the one that is dropped (gnss.c:479, general_message.c:36).  It is what
\* keeps a gap out of LatestKept at the newest end.
RoomToSend == pc = "send" => Len(queue[Served]) < Size

\* Every block is in the heap, in one queue or in one task's hands, and nowhere
\* twice (general_message.c:18, 27, 48).
InQueues == Cardinality({p \in Subscribers \X (1..Size) :
                            p[2] <= Len(queue[p[1]]) /\ queue[p[1]][p[2]].ok})
InHands == Cardinality({s \in Subscribers : held[s] # None /\ held[s].ok})
           + (IF msg # None /\ msg.ok THEN 1 ELSE 0)
BlocksConserved == free + InQueues + InHands = Heap

\* What a queue holds are the latest points without a gap, up to the one being
\* distributed: when it fills the oldest goes first (general_message.h:47-48).
Distributed(s) == IF pc # "idle" /\ \A i \in DOMAIN slots : slots[i] = s => i >= slot
                  THEN point - 1 ELSE point
LatestKept == \A s \in Subscribers : queue[s] # <<>> =>
                 /\ queue[s][Len(queue[s])].point = Distributed(s)
                 /\ \A i \in 1..(Len(queue[s]) - 1) :
                       queue[s][i + 1].point = queue[s][i].point + 1
=============================================================================
