----------------------------- MODULE MCSettings -----------------------------
(* The priorities of the firmware's tasks (Src/main.c:102, app_main.c:140,  *)
(* 160, aliyun_protocol.c:296), for TLC.                                    *)
EXTENDS Settings

MCTasks == {"main", "config", "conn", "recv"}
MCPrio == [main |-> 5, config |-> 3, conn |-> 3, recv |-> 0]
=============================================================================
