------------------------------- MODULE Quotas -------------------------------
(***************************************************************************)
(* The worker quotas of the adaptive controller                            *)
(* (scheduler/multi_worker_edf.rs, AdaptiveController): how a rebalance    *)
(* turns the capacity estimate and the backlog of each priority into       *)
(* limits, and how it publishes them, one atomic store at a time, while    *)
(* the workers read them without a lock.                                   *)
(*                                                                         *)
(* capacity[p] is the estimated safe backlog of priority p and depth[p]    *)
(* what the workers hold of it when the rebalance reads their counters.    *)
(***************************************************************************)
EXTENDS Integers

CONSTANTS
  HighPrimaryMax,  \* HIGH_PRIMARY_MAX: cap of High on worker 0
  HighSpillMax,    \* HIGH_SPILL_MAX: cap of High on workers 1 and 2
  MediumMax,       \* MEDIUM_W1_MAX and MEDIUM_W2_MAX
  LowMax,          \* LOW_MAX
  BestEffortMax,   \* BEST_EFFORT_MAX: the fixed quota of BestEffort
  MinTotal,        \* min_total of each worker
  InitialTotal,    \* AdaptiveController::new, total limits
  InitialLimit     \* AdaptiveController::new, per-priority limits

Priorities == {"High", "Medium", "Low", "BestEffort"}
WorkerIds == 0 .. 2

ASSUME QuotaAssumption ==
  /\ HighPrimaryMax \in Nat \ {0} /\ HighSpillMax \in Nat \ {0}
  /\ MediumMax \in Nat \ {0} /\ LowMax \in Nat \ {0} /\ BestEffortMax \in Nat \ {0}
  /\ MinTotal \in [WorkerIds -> Nat \ {0}]
  /\ InitialTotal \in [WorkerIds -> Nat \ {0}]
  /\ InitialLimit \in [WorkerIds -> [Priorities -> Nat]]
  /\ InitialLimit[0]["High"] > 0 /\ InitialLimit[1]["Medium"] > 0
  /\ InitialLimit[2]["Low"] > 0 /\ InitialLimit[2]["BestEffort"] > 0
  /\ \A w \in WorkerIds :
       InitialLimit[w]["High"] + InitialLimit[w]["Medium"] + InitialLimit[w]["Low"]
         + InitialLimit[w]["BestEffort"] <= InitialTotal[w]

VARIABLES
  totalLimit,     \* worker_total_limits
  priorityLimit,  \* worker_priority_limits
  stores          \* the stores a rebalance has computed and not made yet

quotaVars == <<totalLimit, priorityLimit, stores>>

Least(a, b) == IF a <= b THEN a ELSE b
Greatest(a, b) == IF a >= b THEN a ELSE b

QuotaInit ==
  /\ totalLimit = InitialTotal
  /\ priorityLimit = InitialLimit
  /\ stores = {}

\* Mutant: the backlog is not looked at.
BugTargetDepth(capacity, depth) == capacity

\* Follow a backlog larger than the estimate, up to twice the estimate.
TargetDepth(capacity, depth) ==
  Greatest(capacity, Greatest(Least(depth, 2 * capacity), 1))

\* Mutant: worker 0 gets what the spill-over leaves, even nothing.
BugHighShare(target) ==
  LET spill1 == IF target >= 2 THEN 1 ELSE 0
      spill2 == IF target >= 3 THEN 1 ELSE 0
  IN <<Least(target - spill1 - spill2, HighPrimaryMax) - 1, spill1, spill2>>

\* Workers 1 and 2 get one High packet each when there is room, worker 0 the rest.
HighShare(target) ==
  LET spill1 == IF target >= 2 THEN 1 ELSE 0
      spill2 == IF target >= 3 THEN 1 ELSE 0
  IN <<Greatest(Least(target - spill1 - spill2, HighPrimaryMax), 1),
       Least(spill1, HighSpillMax),
       Least(spill2, HighSpillMax)>>

\* Worker 1 is filled first; worker 2 takes what is left, at least one packet.
MediumShare(target) ==
  LET w1 == Least(target, MediumMax)
      w2 == Least(target - w1, MediumMax)
  IN IF target > 1 /\ w2 = 0 THEN <<w1 - 1, 1>> ELSE <<w1, w2>>

\* new_limits: the quota of worker w for priority p.
NewLimit(capacity, depth, w, p) ==
  LET target == TargetDepth(capacity[p], depth[p])
  IN CASE p = "High" -> HighShare(target)[w + 1]
       [] p = "Medium" -> IF w = 0 THEN 0 ELSE MediumShare(target)[w]
       [] p = "Low" -> IF w = 2 THEN Least(target, LowMax) ELSE 0
       [] p = "BestEffort" -> IF w = 2 THEN BestEffortMax ELSE 0

\* Mutant: the fixed quota of BestEffort is not added to the total.
BugNewTotal(capacity, depth, w) ==
  LET limit(p) == NewLimit(capacity, depth, w, p)
  IN Greatest(limit("High") + limit("Medium") + limit("Low"), MinTotal[w])

\* new_totals, raised to the minimum of the worker.
NewTotal(capacity, depth, w) ==
  LET limit(p) == NewLimit(capacity, depth, w, p)
  IN Greatest(limit("High") + limit("Medium") + limit("Low") + limit("BestEffort"),
              MinTotal[w])

\* What a rebalance gives field f of worker w: its total or one of its limits.
NewValue(capacity, depth, w, f) ==
  IF f = "total" THEN NewTotal(capacity, depth, w) ELSE NewLimit(capacity, depth, w, f)

Value(w, f) == IF f = "total" THEN totalLimit[w] ELSE priorityLimit[w][f]

\* The fields of a worker in the order in which they are stored.
Fields == <<"total", "High", "Medium", "Low", "BestEffort">>

(***************************************************************************)
(* The stores of one rebalance: "at" is the place of a store in program    *)
(* order, worker after worker.  Stores that change nothing are left out.   *)
(***************************************************************************)
Stores(capacity, depth) ==
  {s \in {[at |-> 5 * w + k, worker |-> w, field |-> Fields[k],
           value |-> NewValue(capacity, depth, w, Fields[k])] : w \in WorkerIds, k \in 1 .. 5} :
     s.value # Value(s.worker, s.field)}

\* One turn of autobalance_loop: sleep, read, compute.
Rebalance(capacity, depth) ==
  /\ stores = {}
  /\ stores' = Stores(capacity, depth)
  /\ UNCHANGED <<totalLimit, priorityLimit>>

\* set_total_limit / set_priority_limit: the next store in program order.
Publish ==
  \E s \in stores :
    /\ \A t \in stores : s.at <= t.at
    /\ stores' = stores \ {s}
    /\ IF s.field = "total"
       THEN /\ totalLimit' = [totalLimit EXCEPT ![s.worker] = s.value]
            /\ UNCHANGED priorityLimit
       ELSE /\ priorityLimit' = [priorityLimit EXCEPT ![s.worker][s.field] = s.value]
            /\ UNCHANGED totalLimit

=============================================================================
