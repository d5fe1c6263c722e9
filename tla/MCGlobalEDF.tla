---------------------------- MODULE MCGlobalEDF ----------------------------
(* Two workers and three packets of two priorities whose budgets make a     *)
(* later packet of High due before, with or after an earlier one of Medium. *)
EXTENDS GlobalEDF

MCPriority == {"High", "Medium"}
MCBudget == [p \in MCPriority |-> IF p = "High" THEN 0 ELSE 1]
MCInCapacity == [p \in MCPriority |-> 2]
MCSymmetry == {f \in [Workers -> Workers] : \A v, w \in Workers : v # w => f[v] # f[w]}
=============================================================================
