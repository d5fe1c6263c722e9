------------------------- MODULE AdaptiveController -------------------------
(***************************************************************************)
(* The adaptive load-balancing controller of the multi-worker EDF scheduler*)
(* (scheduler/multi_worker_edf.rs, AdaptiveController): workers report the *)
(* processing time of every packet, a moving average per priority turns    *)
(* into a capacity estimate, and a background thread rebalances the quotas *)
(* (module Quotas) and the guard windows.  Times are in nanoseconds and the*)
(* arithmetic is the integer arithmetic of the code.                       *)
(*                                                                         *)
(* A rebalance loads the counters of the workers one after the other while *)
(* packets move: the sums may be any here (MultiWorkerEDF has the loads).  *)
(* It reads one average after the other too; an observation of a priority  *)
(* it has already read is the same as one just after the last read.        *)
(***************************************************************************)
EXTENDS Quotas

CONSTANTS
  BudgetNs,         \* expected_latencies of High, Medium and Low
  InitialEma,       \* processing_ema_ns at the start
  Durations,        \* processing times that are observed
  MaxObservations,  \* bound on the observations
  Depths            \* what the loads of the workers' counters may add up to

Adaptive == {"High", "Medium", "Low"}

ASSUME ControllerAssumption ==
  /\ BudgetNs \in [Adaptive -> Nat \ {0}]
  /\ InitialEma \in [Adaptive -> Nat \ {0}]
  /\ Durations \subseteq Nat \ {0}
  /\ MaxObservations \in Nat
  /\ Depths \subseteq Nat /\ 0 \in Depths

VARIABLES
  ema,             \* processing_ema_ns
  observations,    \* observations so far, to bound them
  depth,           \* actual_depth of the last rebalance: the sum of its loads, per priority
  guardThreshold,  \* guard_threshold_us
  guardSlice,      \* guard_slice_us
  nextSlice        \* slice a rebalance will store last; 0 between rebalances

controllerVars == <<ema, observations, depth, guardThreshold, guardSlice, nextSlice>>
vars == <<quotaVars, controllerVars>>

Init ==
  /\ QuotaInit
  /\ ema = InitialEma
  /\ observations = 0
  /\ depth = [p \in Adaptive |-> 0]
  /\ guardThreshold = [p \in Adaptive |-> IF p = "High" THEN 0 ELSE 80]
  /\ guardSlice = 10
  /\ nextSlice = 0

\* Mutant: the weights do not add up to the divisor.
BugAverage(prev, new) == (Greatest(prev, 1) * 8 + new) \div 8

\* One turn of the moving average.
Average(prev, new) == (Greatest(prev, 1) * 7 + new) \div 8

\* observe_processing_time
Observe(p, ns) ==
  /\ observations < MaxObservations
  /\ observations' = observations + 1
  /\ ema' = [ema EXCEPT ![p] = Average(@, ns)]
  /\ UNCHANGED <<quotaVars, depth, guardThreshold, guardSlice, nextSlice>>

\* round(0.9 * budget / average), clamped to 1 .. 512
Capacity(p) ==
  Least(Greatest((9 * BudgetNs[p] + 5 * ema[p]) \div (10 * ema[p]), 1), 512)

\* Time a packet may spend waiting for High ones, in microseconds, before the cap.
GuardUs(p) == Least(2 * (ema[p] \div 1000), Greatest(BudgetNs[p] \div 1000, 1))

\* Mutant: the cap of 80 microseconds is forgotten.
BugNewThreshold(p) == IF p = "High" THEN 0 ELSE GuardUs(p)

NewThreshold(p) == IF p = "High" THEN 0 ELSE Least(GuardUs(p), 80)

NewSlice ==
  LET best == Least(GuardUs("High"), Least(NewThreshold("Medium"), NewThreshold("Low")))
  IN Least(Greatest(best, 5), 50)

\* autobalance_loop up to the stores: guard thresholds are stored at once.
StartRebalance ==
  /\ nextSlice = 0
  /\ depth' \in [Adaptive -> Depths]
  /\ Rebalance([p \in Adaptive |-> Capacity(p)], depth')
  /\ guardThreshold' = [p \in Adaptive |-> NewThreshold(p)]
  /\ nextSlice' = NewSlice
  /\ UNCHANGED <<ema, observations, guardSlice>>

PublishQuota == Publish /\ UNCHANGED controllerVars

\* The last store of a rebalance.
PublishSlice ==
  /\ nextSlice # 0
  /\ stores = {}
  /\ guardSlice' = nextSlice
  /\ nextSlice' = 0
  /\ UNCHANGED <<quotaVars, ema, observations, depth, guardThreshold>>

Next ==
  \/ \E p \in Adaptive, ns \in Durations : Observe(p, ns)
  \/ StartRebalance
  \/ PublishQuota
  \/ PublishSlice

Spec == Init /\ [][Next]_vars

-----------------------------------------------------------------------------

(***************************************************************************)
(* At every moment, in the middle of a publication too, each priority has a*)
(* worker whose quotas let it in: no rebalance starves a class.            *)
(***************************************************************************)
EveryPriorityServed ==
  \A p \in Priorities : \E w \in WorkerIds : priorityLimit[w][p] >= 1 /\ totalLimit[w] >= 1

(***************************************************************************)
(* Between publications the quotas of a worker fit its total: a priority   *)
(* can always use its whole quota, no other priority can use it up         *)
(* (new_totals is the sum of new_limits, raised to a minimum).             *)
(***************************************************************************)
LimitSum(w) ==
  priorityLimit[w]["High"] + priorityLimit[w]["Medium"] + priorityLimit[w]["Low"]
  + priorityLimit[w]["BestEffort"]

QuotasFitTotals == stores = {} => \A w \in WorkerIds : LimitSum(w) <= totalLimit[w]

(***************************************************************************)
(* The documented form of the same: "Step 8: Atomically update all quotas  *)
(* ... all quotas are updated together, avoiding intermediate states".     *)
(***************************************************************************)
NoIntermediateQuotas == \A w \in WorkerIds : LimitSum(w) <= totalLimit[w]

(***************************************************************************)
(* Whatever is observed next, the moving average goes towards it and not   *)
(* past it nor away from it, integer division included; so it stays within *)
(* what it was fed and the estimate never divides by zero                  *)
(* (observe_processing_time).                                              *)
(***************************************************************************)
EmaWithinObserved ==
  \A p \in Adaptive : \A ns \in Durations :
    /\ ema[p] > 0
    /\ Average(ema[p], ns) <= Greatest(ema[p], ns)
    /\ \/ ema[p] <= Average(ema[p], ns)
       \/ ns <= Average(ema[p], ns)

(***************************************************************************)
(* A rebalance leaves every priority quotas for the whole backlog that its *)
(* loads added up to, or for twice the estimate if that is larger, or for  *)
(* what the hard caps allow (target_depth).                                *)
(***************************************************************************)
HardCap == [High |-> HighPrimaryMax, Medium |-> MediumMax, Low |-> LowMax]

Planned(w, p) ==
  LET coming == {s \in stores : s.worker = w /\ s.field = p}
  IN IF coming = {} THEN priorityLimit[w][p] ELSE (CHOOSE s \in coming : TRUE).value

BacklogCovered ==
  [][nextSlice = 0 /\ nextSlice' # 0 =>
       \A p \in Adaptive :
         (Planned(0, p) + Planned(1, p) + Planned(2, p))'
           >= Least(depth'[p], Least(2 * Capacity(p), HardCap[p]))]_vars

(***************************************************************************)
(* The guard windows are disabled for High, never exceed the budget of a   *)
(* priority nor 80 microseconds, and are polled in slices of 5 to 50.      *)
(***************************************************************************)
GuardBounded ==
  /\ guardThreshold["High"] = 0
  /\ \A p \in Adaptive : guardThreshold[p] <= Least(80, Greatest(BudgetNs[p] \div 1000, 1))
  /\ guardSlice \in 5 .. 50

=============================================================================
