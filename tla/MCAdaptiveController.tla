------------------------ MODULE MCAdaptiveController ------------------------
(* The constants of the code (AdaptiveController::new and autobalance_loop) *)
(* and the budgets of the default pipeline.  Two processing times, a short  *)
(* one and one beyond every budget, move the estimates to both of their     *)
(* bounds; the backlogs are empty, moderate and beyond every cap.           *)
EXTENDS AdaptiveController

RealMinTotal == [w \in WorkerIds |-> CASE w = 0 -> 4 [] w = 1 -> 16 [] w = 2 -> 64]
RealTotal == [w \in WorkerIds |-> CASE w = 0 -> 16 [] w = 1 -> 64 [] w = 2 -> 256]
RealLimit ==
  [w \in WorkerIds |-> [p \in Priorities |->
     CASE p = "High" -> (IF w = 0 THEN 16 ELSE 4)
       [] p = "Medium" -> (IF w = 0 THEN 0 ELSE 60)
       [] p = "Low" -> (IF w = 2 THEN 64 ELSE 0)
       [] p = "BestEffort" -> (IF w = 2 THEN 128 ELSE 0)]]
RealBudget ==
  [p \in Adaptive |->
     CASE p = "High" -> 1000000 [] p = "Medium" -> 10000000 [] p = "Low" -> 100000000]
RealEma ==
  [p \in Adaptive |->
     CASE p = "High" -> 100000 [] p = "Medium" -> 120000 [] p = "Low" -> 200000]
MCDurations == {2000, 50000000}
MCDepths == {0, 12, 600}
=============================================================================
