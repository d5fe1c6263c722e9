-------------------------- MODULE MCClairvoyantEDF --------------------------
(* Two workers and three packets.  A Low packet takes two units, so that it *)
(* can be preempted half done, by a High and then by a Medium packet; the   *)
(* budgets of Medium and Low are long enough for a guard window after a     *)
(* latency of one.  A queued task costs its worker one millisecond of two   *)
(* units, so that two units of idle time outweigh a longer queue.           *)
EXTENDS ClairvoyantEDF

MCPriority == {"High", "Medium", "Low"}
MCBudget == [p \in MCPriority |-> CASE p = "High" -> 1 [] p = "Medium" -> 3 [] p = "Low" -> 5]
MCNeed == [p \in MCPriority |-> IF p = "Low" THEN 2 ELSE 1]
MCGuardCap == [p \in {"Medium", "Low"} |-> IF p = "Low" THEN 2 ELSE 1]
MCLoads ==
  {<<"Medium", "High", "High">>, <<"Low", "High", "Medium">>, <<"Low", "Low", "Medium">>}
=============================================================================
