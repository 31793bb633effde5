------------------------------ MODULE AtService ------------------------------
(***************************************************************************)
(* What the AT component promises the tasks that call it: requests are     *)
(* served one at a time; a request is a list of commands, accepted one     *)
(* after the other; it ends "ok" exactly when every command of the list    *)
(* was accepted, and "failed" otherwise.  Retransmission, the response     *)
(* ring, the receive interrupt and the modem are not visible here.         *)
(***************************************************************************)
EXTENDS Naturals, Sequences

CONSTANTS Tasks,     \* the tasks that call the AT component
          NoTask,    \* stands for "nobody is served", not a task
          Lists      \* the command lists a task may ask for, none of them empty

VARIABLES ask,       \* ask[t]: the list t has asked for, <<>> when it asks nothing
          serving,   \* the task being served
          accepted,  \* accepted[t]: how many commands of ask[t] were accepted
          result     \* result[t]: the outcome of the last request of t

vars == <<ask, serving, accepted, result>>

Init == /\ ask = [t \in Tasks |-> <<>>]
        /\ serving = NoTask
        /\ accepted = [t \in Tasks |-> 0]
        /\ result = [t \in Tasks |-> "none"]

Request(t) == /\ ask[t] = <<>>
              /\ \E l \in Lists : ask' = [ask EXCEPT ![t] = l]
              /\ result' = [result EXCEPT ![t] = "none"]
              /\ UNCHANGED <<serving, accepted>>

Serve(t) == /\ ask[t] # <<>> /\ result[t] = "none"
            /\ serving = NoTask
            /\ serving' = t
            /\ UNCHANGED <<ask, accepted, result>>

Accept(t) == /\ serving = t
             /\ accepted[t] < Len(ask[t])
             /\ result[t] = "none"
             /\ accepted' = [accepted EXCEPT ![t] = @ + 1]
             /\ result' = [result EXCEPT ![t] =
                               IF accepted'[t] = Len(ask[t]) THEN "ok" ELSE "none"]
             /\ UNCHANGED <<ask, serving>>

Refuse(t) == /\ serving = t
             /\ result[t] = "none"
             /\ result' = [result EXCEPT ![t] = "failed"]
             /\ UNCHANGED <<ask, serving, accepted>>

Return(t) == /\ serving = t
             /\ result[t] # "none"
             /\ serving' = NoTask
             /\ ask' = [ask EXCEPT ![t] = <<>>]
             /\ accepted' = [accepted EXCEPT ![t] = 0]
             /\ UNCHANGED result

Next == \E t \in Tasks : Request(t) \/ Serve(t) \/ Accept(t) \/ Refuse(t) \/ Return(t)

Spec == Init /\ [][Next]_vars
==============================================================================
