------------------------- MODULE MCCompletionRouter -------------------------
(* Two priorities with channels of one and two packets, four numbers each:  *)
(* three packets can overtake each other behind a fourth, and one of the    *)
(* channels is full whenever the egress scheduler lags by one.              *)
EXTENDS CompletionRouter

MCPriority == {"High", "Medium"}
MCQueueCapacity == [p \in MCPriority |-> IF p = "High" THEN 1 ELSE 2]
=============================================================================
