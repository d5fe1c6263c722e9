---------------------------- MODULE MCElasticEDF ----------------------------
(* Three packets, in the orders of MCLoads: High ones in batches of one or  *)
(* two reach every channel, where they meet packets of its own class.       *)
EXTENDS ElasticEDF

MCPriority == {"High", "Medium", "Low", "BestEffort"}
MCBudget ==
  [p \in MCPriority |-> CASE p = "High" -> 1 [] p = "Medium" -> 2 [] p = "Low" -> 3 [] OTHER -> 4]
MCLoads ==
  {<<"High", "High", "Medium">>, <<"Medium", "Medium", "High">>,
   <<"Low", "BestEffort", "Low">>, <<"High", "High", "High">>}
=============================================================================
