----------------------------- MODULE MCPipeline -----------------------------
(* Two priorities, two sockets for High; one-packet channels overflow at    *)
(* both stages; High may read two packets a round and Medium one, so both   *)
(* run out of credit and both carry credit over.  With the two times of     *)
(* reading, a High packet may be due before and after a Medium one.         *)
EXTENDS Pipeline

MCPriority == {"High", "Medium"}
MCBudget == [p \in MCPriority |-> IF p = "High" THEN 0 ELSE 1]
MCSockets == [p \in MCPriority |-> IF p = "High" THEN 2 ELSE 1]
MCQuantum == [p \in MCPriority |-> IF p = "High" THEN 2 ELSE 1]
MCInCapacity == [p \in MCPriority |-> 1]
MCOutCapacity == [p \in MCPriority |-> 1]
MCTimes == {0, 2}
MCConnected == {"High"}
=============================================================================
