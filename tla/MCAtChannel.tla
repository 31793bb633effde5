----------------------------- MODULE MCAtChannel -----------------------------
(* Instances of AtChannel for TLC: two tasks, and the command lists of the  *)
(* firmware by the kinds of their handlers.                                 *)
EXTENDS AtChannel, TLC

\* the tail of the module_init table (ends with AT+CSQ) and the queries of gnss and tcp
AllLists == {<<"state">>, <<"location">>, <<"plain", "signal">>}
SingleLists == {<<"plain">>}

\* the tasks are alike: sound for the safety runs, not used with liveness
TaskSymmetry == Permutations(Tasks)
==============================================================================
