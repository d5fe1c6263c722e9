-------------------------- MODULE MCMultiWorkerEDF --------------------------
(* Workers 0 and 1: both serve High, only worker 1 serves Medium.  With     *)
(* three packets two High ones can overtake each other and a High one can   *)
(* displace a Medium one; a channel of one packet overflows unless the      *)
(* egress scheduler keeps up.  The quotas start where the controller keeps  *)
(* them for a capacity of two packets of each priority; the rebalance takes *)
(* the High quota away from worker 1.                                       *)
EXTENDS MultiWorkerEDF

MCWorkers == {0, 1}
MCPriority == {"High", "Medium"}
MCBudget == [p \in MCPriority |-> CASE p = "High" -> 1 [] p = "Medium" -> 3 [] OTHER -> 5]
MCQueueCapacity == [p \in MCPriority |-> 1]

Limit(high, medium, low, best) ==
  [p \in Priorities |->
     CASE p = "High" -> high [] p = "Medium" -> medium [] p = "Low" -> low [] OTHER -> best]

MCMinTotal == [w \in WorkerIds |-> IF w = 1 THEN 2 ELSE 1]
SteadyTotal == [w \in WorkerIds |-> CASE w = 0 -> 1 [] w = 1 -> 2 [] w = 2 -> 4]
SteadyLimit ==
  [w \in WorkerIds |-> CASE w = 0 -> Limit(1, 0, 0, 0) [] w = 1 -> Limit(1, 1, 0, 0)
                         [] w = 2 -> Limit(0, 1, 2, 1)]
SteadyCapacities == {Limit(1, 2, 2, 1)}

\* The start of AdaptiveController::new in small: worker 1 may hold more Medium
\* packets than a rebalance leaves it (60 and 1 on worker 2 there, 3 and 1 here).
ShrinkWorkers == {1}
InitialShrinkTotal == [SteadyTotal EXCEPT ![1] = 4]
InitialShrinkLimit == [SteadyLimit EXCEPT ![1]["Medium"] = 3]
ShrinkCapacities == {Limit(2, 2, 2, 1)}
=============================================================================
