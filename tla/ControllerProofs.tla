--------------------------- MODULE ControllerProofs ---------------------------
(***************************************************************************)
(* The controller, for any processing times, backlogs, caps and minima.    *)
(* The moving averages: one that starts above zero stays there, since seven*)
(* eighths of one and an eighth of one are one.  The quotas: a rebalance   *)
(* has a plan, and what is published and what is on its way follow it.     *)
(***************************************************************************)
EXTENDS AdaptiveController, QuotaProofs, TLAPS

\* The averages never become zero.
EmaPositive == ema \in [Adaptive -> Nat \ {0}]

\* One turn of the average moves towards what is observed, and not past it.
LEMMA AverageBetween ==
  ASSUME NEW prev \in Nat \ {0}, NEW new \in Nat \ {0}
  PROVE  /\ Average(prev, new) \in Nat \ {0}
         /\ Average(prev, new) <= Greatest(prev, new)
         /\ prev <= Average(prev, new) \/ new <= Average(prev, new)
<1>1. Average(prev, new) = (prev * 7 + new) \div 8
  BY DEF Average, Greatest
<1>. DEFINE a == (prev * 7 + new) \div 8
<1>2. a \in Int /\ 8 * a <= prev * 7 + new /\ prev * 7 + new < 8 * a + 8
  OBVIOUS
<1>. HIDE DEF a
<1>3. a >= 1
  BY <1>2
<1>4. a <= prev \/ a <= new
  BY <1>2
<1>5. prev <= a \/ new <= a
  BY <1>2
<1>6. a <= Greatest(prev, new)
  BY <1>2, <1>4 DEF Greatest
<1>. QED
  BY <1>1, <1>2, <1>3, <1>5, <1>6 DEF a

LEMMA EmaStep == EmaPositive /\ [Next]_vars => EmaPositive'
<1>. SUFFICES ASSUME EmaPositive, [Next]_vars PROVE EmaPositive'
  OBVIOUS
<1>. USE DEF EmaPositive
<1>1. ASSUME NEW p \in Adaptive, NEW ns \in Durations, Observe(p, ns) PROVE EmaPositive'
  <2>1. ema[p] \in Nat \ {0} /\ ns \in Nat \ {0}
    BY ControllerAssumption
  <2>2. Average(ema[p], ns) \in Nat \ {0}
    BY <2>1, AverageBetween
  <2>. QED
    BY <1>1, <2>2 DEF Observe
<1>3. CASE StartRebalance
  BY <1>3 DEF StartRebalance
<1>4. CASE PublishQuota
  BY <1>4 DEF PublishQuota, controllerVars
<1>5. CASE PublishSlice
  BY <1>5 DEF PublishSlice
<1>6. CASE UNCHANGED vars
  BY <1>6 DEF vars, controllerVars
<1>. QED
  BY <1>1, <1>3, <1>4, <1>5, <1>6 DEF Next

(***************************************************************************)
(* Whatever is observed, in any order, an average goes towards it and not  *)
(* past it, and the estimate of autobalance_loop never divides by zero     *)
(* (observe_processing_time).                                              *)
(***************************************************************************)
THEOREM EmaHolds == Spec => []EmaWithinObserved
<1>1. Init => EmaPositive
  BY ControllerAssumption DEF Init, EmaPositive
<1>2. EmaPositive => EmaWithinObserved
  <2>. SUFFICES ASSUME EmaPositive, NEW p \in Adaptive, NEW ns \in Durations
                PROVE  /\ ema[p] > 0
                       /\ Average(ema[p], ns) <= Greatest(ema[p], ns)
                       /\ ema[p] <= Average(ema[p], ns) \/ ns <= Average(ema[p], ns)
    BY DEF EmaWithinObserved
  <2>1. ema[p] \in Nat \ {0} /\ ns \in Nat \ {0}
    BY ControllerAssumption DEF EmaPositive
  <2>. QED
    BY <2>1, AverageBetween
<1>. QED
  BY <1>1, <1>2, EmaStep, PTL DEF Spec

-----------------------------------------------------------------------------

ControllerTypes ==
  /\ QuotaTypes
  /\ EmaPositive
  /\ depth \in [Adaptive -> Nat]
  /\ nextSlice \in Nat

\* An estimate is at least one packet and at most 512.
LEMMA CapacityIs ==
  ASSUME EmaPositive, NEW p \in Adaptive
  PROVE  Capacity(p) \in 1 .. 512
<1>1. PICK e \in Nat \ {0} : e = ema[p]
  BY DEF EmaPositive
<1>2. PICK b \in Nat \ {0} : b = BudgetNs[p]
  BY ControllerAssumption
<1>3. PICK n \in Nat \ {0} : n = 10 * e
  <2>1. 10 * e \in Nat \ {0}
    OBVIOUS
  <2>. QED
    BY <2>1
<1>4. (9 * b + 5 * e) \div n \in Int
  BY <1>3
<1>5. Capacity(p) = Least(Greatest((9 * b + 5 * e) \div n, 1), 512)
  BY <1>1, <1>2, <1>3 DEF Capacity
<1>. QED
  BY <1>4, <1>5 DEF Least, Greatest

\* The estimates and the backlog a rebalance begins with.
Capacities == [p \in Adaptive |-> Capacity(p)]

LEMMA CapacitiesAre ==
  ASSUME ControllerTypes, NEW d \in [Adaptive -> Nat]
  PROVE  Estimates(Capacities, d)
<1>1. \A p \in Adaptive : Capacities[p] = Capacity(p) /\ Capacity(p) \in Nat
  BY CapacityIs DEF Capacities, ControllerTypes
<1>. QED
  BY <1>1 DEF Estimates, Adaptive

\* What StartRebalance computes from the loads.
LEMMA StartReads ==
  ASSUME StartRebalance
  PROVE  depth' \in [Adaptive -> Nat] /\ Rebalance(Capacities, depth')
BY ControllerAssumption DEF StartRebalance, Capacities

\* What a slice will be: the least of three windows, raised to 5 and cut at 50.
LEMMA NewSliceIs == EmaPositive => NewSlice \in 5 .. 50
<1>. SUFFICES ASSUME EmaPositive PROVE NewSlice \in 5 .. 50
  OBVIOUS
<1>. DEFINE best == Least(GuardUs("High"), Least(NewThreshold("Medium"), NewThreshold("Low")))
<1>1. \A p \in Adaptive : GuardUs(p) \in Nat /\ NewThreshold(p) \in Nat
  BY ControllerAssumption DEF GuardUs, NewThreshold, EmaPositive, Least, Greatest
<1>2. best \in Nat
  BY <1>1 DEF Least, Adaptive
<1>. HIDE DEF best
<1>3. NewSlice = Least(Greatest(best, 5), 50)
  BY DEF NewSlice, best
<1>. QED
  BY <1>2, <1>3 DEF Least, Greatest

LEMMA ControllerInitTypes == Init => ControllerTypes
BY QuotaInitTypes, ControllerAssumption DEF Init, ControllerTypes, EmaPositive

LEMMA ControllerStepTypes == ControllerTypes /\ [Next]_vars => ControllerTypes'
<1>. SUFFICES ASSUME ControllerTypes, [Next]_vars PROVE ControllerTypes'
  OBVIOUS
<1>. USE DEF ControllerTypes
<1>0. EmaPositive'
  BY EmaStep
<1>u. ASSUME UNCHANGED quotaVars PROVE QuotaTypes'
  BY <1>u DEF quotaVars, QuotaTypes
<1>1. ASSUME NEW p \in Adaptive, NEW ns \in Durations, Observe(p, ns) PROVE ControllerTypes'
  BY <1>0, <1>1, <1>u DEF Observe
<1>3. CASE StartRebalance
  <2>1. PICK d \in [Adaptive -> Nat] : d = depth' /\ Rebalance(Capacities, d)
    BY <1>3, StartReads
  <2>2. QuotaTypes'
    BY <2>1, CapacitiesAre, RebalanceTypes
  <2>3. nextSlice' \in Nat
    BY <1>3, NewSliceIs DEF StartRebalance
  <2>. QED
    BY <1>0, <2>1, <2>2, <2>3
<1>4. CASE PublishQuota
  BY <1>0, <1>4, PublishTypes DEF PublishQuota, controllerVars
<1>5. CASE PublishSlice
  BY <1>0, <1>5, <1>u DEF PublishSlice
<1>6. CASE UNCHANGED vars
  BY <1>0, <1>6, <1>u DEF vars, controllerVars
<1>. QED
  BY <1>1, <1>3, <1>4, <1>5, <1>6 DEF Next

-----------------------------------------------------------------------------

(***************************************************************************)
(* What one rebalance decided: a value for each field of each worker, with *)
(* quotas that fit the totals and a worker for each priority.              *)
(***************************************************************************)
Sound(plan) ==
  /\ plan \in [WorkerIds -> [Field -> Nat]]
  /\ plan[0]["High"] > 0 /\ plan[1]["Medium"] > 0 /\ plan[2]["Low"] > 0
  /\ plan[2]["BestEffort"] > 0
  /\ \A w \in WorkerIds :
       /\ plan[w]["total"] > 0
       /\ plan[w]["High"] + plan[w]["Medium"] + plan[w]["Low"] + plan[w]["BestEffort"]
            <= plan[w]["total"]

\* What is to be stored is the plan's, and so is what has no store coming.
Follows(plan) ==
  /\ \A s \in stores : s.value = plan[s.worker][s.field]
  /\ \A w \in WorkerIds, f \in Field :
       (\A s \in stores : ~(s.worker = w /\ s.field = f)) => Value(w, f) = plan[w][f]

\* No priority and no worker is without a quota, whatever is published so far.
Served ==
  /\ priorityLimit[0]["High"] > 0 /\ priorityLimit[1]["Medium"] > 0
  /\ priorityLimit[2]["Low"] > 0 /\ priorityLimit[2]["BestEffort"] > 0
  /\ \A w \in WorkerIds : totalLimit[w] > 0

PlanInv ==
  /\ ControllerTypes
  /\ Served
  /\ \E plan : Sound(plan) /\ Follows(plan)

LEMMA PlanInit == Init => PlanInv
<1>. SUFFICES ASSUME Init PROVE PlanInv
  OBVIOUS
<1>. DEFINE plan == [w \in WorkerIds |->
                      [f \in Field |-> IF f = "total" THEN InitialTotal[w] ELSE InitialLimit[w][f]]]
<1>1. ControllerTypes /\ Served
  BY ControllerInitTypes, QuotaAssumption DEF Init, QuotaInit, Served
<1>2. \A w \in WorkerIds :
        /\ plan[w]["total"] = InitialTotal[w]
        /\ plan[w]["High"] = InitialLimit[w]["High"]
        /\ plan[w]["Medium"] = InitialLimit[w]["Medium"]
        /\ plan[w]["Low"] = InitialLimit[w]["Low"]
        /\ plan[w]["BestEffort"] = InitialLimit[w]["BestEffort"]
  BY DEF Field, Priorities
<1>3. plan \in [WorkerIds -> [Field -> Nat]]
  BY QuotaAssumption DEF Field
<1>4. \A w \in WorkerIds, f \in Field : Value(w, f) = plan[w][f]
  BY DEF Init, QuotaInit, Value
<1>5. stores = {}
  BY DEF Init, QuotaInit
<1>. HIDE DEF plan
<1>6. 0 \in WorkerIds /\ 1 \in WorkerIds /\ 2 \in WorkerIds
  BY DEF WorkerIds
<1>7. Sound(plan)
  BY <1>2, <1>3, <1>6, QuotaAssumption DEF Sound
<1>8. Follows(plan)
  BY <1>4, <1>5 DEF Follows
<1>. QED
  BY <1>1, <1>7, <1>8 DEF PlanInv

\* The plan of a rebalance, and the stores that lead to it.
LEMMA RebalancePlans ==
  ASSUME ControllerTypes, NEW d \in [Adaptive -> Nat], Rebalance(Capacities, d)
  PROVE  /\ Served => Served'
         /\ \E plan : Sound(plan) /\ Follows(plan)'
<1>1. PICK c : c = Capacities
  OBVIOUS
<1>3. Estimates(c, d)
  BY CapacitiesAre, <1>1
<1>4. /\ stores' = Stores(c, d)
      /\ totalLimit' = totalLimit /\ priorityLimit' = priorityLimit
  BY <1>1 DEF Rebalance
<1>5. Served => Served'
  BY <1>4 DEF Served
<1>. DEFINE plan == [w \in WorkerIds |-> [f \in Field |-> NewValue(c, d, w, f)]]
<1>6. \A w \in WorkerIds, f \in Field : NewValue(c, d, w, f) \in Nat
  BY <1>3, NewValueType
<1>7. /\ plan \in [WorkerIds -> [Field -> Nat]]
      /\ \A w \in WorkerIds, f \in Field : plan[w][f] = NewValue(c, d, w, f)
  BY <1>6
<1>. HIDE DEF plan
<1>8. Sound(plan)
  <2>1. ASSUME NEW w \in WorkerIds
        PROVE  /\ plan[w]["total"] = NewTotal(c, d, w)
               /\ plan[w]["High"] = NewLimit(c, d, w, "High")
               /\ plan[w]["Medium"] = NewLimit(c, d, w, "Medium")
               /\ plan[w]["Low"] = NewLimit(c, d, w, "Low")
               /\ plan[w]["BestEffort"] = NewLimit(c, d, w, "BestEffort")
    BY <1>7 DEF Field, Priorities, NewValue
  <2>2. \A w \in WorkerIds :
          /\ NewTotal(c, d, w) \in Nat \ {0}
          /\ NewLimit(c, d, w, "High") + NewLimit(c, d, w, "Medium")
               + NewLimit(c, d, w, "Low") + NewLimit(c, d, w, "BestEffort")
               <= NewTotal(c, d, w)
    BY <1>3, NewTotalIs
  <2>3. /\ NewLimit(c, d, 0, "High") > 0 /\ NewLimit(c, d, 1, "Medium") > 0
        /\ NewLimit(c, d, 2, "Low") > 0 /\ NewLimit(c, d, 2, "BestEffort") > 0
    BY <1>3, NewLimitIs
  <2>4. 0 \in WorkerIds /\ 1 \in WorkerIds /\ 2 \in WorkerIds
    BY DEF WorkerIds
  <2>5. /\ plan[0]["High"] > 0 /\ plan[1]["Medium"] > 0 /\ plan[2]["Low"] > 0
        /\ plan[2]["BestEffort"] > 0
    BY <2>1, <2>3, <2>4
  <2>6. ASSUME NEW w \in WorkerIds
        PROVE  /\ plan[w]["total"] > 0
               /\ plan[w]["High"] + plan[w]["Medium"] + plan[w]["Low"] + plan[w]["BestEffort"]
                    <= plan[w]["total"]
    BY <2>1, <2>2
  <2>. QED
    BY <1>7, <2>5, <2>6 DEF Sound
<1>9. Follows(plan)'
  <2>1. /\ Stores(c, d) \in SUBSET StoreRecord
        /\ \A s \in Stores(c, d) : s.value = NewValue(c, d, s.worker, s.field)
        /\ \A w \in WorkerIds, f \in Field :
             (\A s \in Stores(c, d) : ~(s.worker = w /\ s.field = f)) =>
               Value(w, f) = NewValue(c, d, w, f)
    BY <1>3, StoresAre
  <2>2. \A s \in stores' : s.value = plan[s.worker][s.field]
    BY <1>4, <1>7, <2>1 DEF StoreRecord
  <2>3. ASSUME NEW w \in WorkerIds, NEW f \in Field,
               \A s \in stores' : ~(s.worker = w /\ s.field = f)
        PROVE  Value(w, f)' = plan[w][f]
    <3>1. Value(w, f)' = Value(w, f)
      BY <1>4 DEF Value
    <3>. QED
      BY <1>4, <1>7, <2>1, <2>3, <3>1
  <2>. QED
    BY <2>2, <2>3 DEF Follows
<1>. QED
  BY <1>5, <1>8, <1>9

\* A store brings what is published one field closer to the plan.
LEMMA PublishFollows ==
  ASSUME ControllerTypes, Served, NEW plan, Sound(plan), Follows(plan), Publish
  PROVE  Served' /\ Follows(plan)'
<1>1. PICK s \in stores :
        /\ stores' = stores \ {s}
        /\ IF s.field = "total"
           THEN /\ totalLimit' = [totalLimit EXCEPT ![s.worker] = s.value]
                /\ UNCHANGED priorityLimit
           ELSE /\ priorityLimit' = [priorityLimit EXCEPT ![s.worker][s.field] = s.value]
                /\ UNCHANGED totalLimit
  BY DEF Publish
<1>2. QuotaTypes
  BY DEF ControllerTypes
<1>3. /\ s \in StoreRecord
      /\ \A w \in WorkerIds, f \in Field :
           Value(w, f)' = IF w = s.worker /\ f = s.field THEN s.value ELSE Value(w, f)
  BY <1>1, <1>2, PublishIs
<1>4. s.value = plan[s.worker][s.field]
  BY DEF Follows
<1>5. \A w \in WorkerIds, f \in Field :
        Value(w, f)' = Value(w, f) \/ Value(w, f)' = plan[w][f]
  BY <1>3, <1>4
<1>6. Served'
  <2>1. /\ 0 \in WorkerIds /\ 1 \in WorkerIds /\ 2 \in WorkerIds /\ "total" \in Field
        /\ "High" \in Field /\ "Medium" \in Field /\ "Low" \in Field /\ "BestEffort" \in Field
    BY DEF WorkerIds, Field, Priorities
  <2>2. /\ Value(0, "High") > 0 /\ Value(1, "Medium") > 0 /\ Value(2, "Low") > 0
        /\ Value(2, "BestEffort") > 0 /\ \A w \in WorkerIds : Value(w, "total") > 0
    BY DEF Served, Value
  <2>3. /\ Value(0, "High")' > 0 /\ Value(1, "Medium")' > 0 /\ Value(2, "Low")' > 0
        /\ Value(2, "BestEffort")' > 0 /\ \A w \in WorkerIds : Value(w, "total")' > 0
    BY <1>5, <2>1, <2>2 DEF Sound
  <2>. QED
    BY <2>3 DEF Served, Value
<1>7. \A t \in stores' : t.value = plan[t.worker][t.field]
  BY <1>1 DEF Follows
<1>8. ASSUME NEW w \in WorkerIds, NEW f \in Field,
             \A t \in stores' : ~(t.worker = w /\ t.field = f)
      PROVE  Value(w, f)' = plan[w][f]
  <2>1. CASE w = s.worker /\ f = s.field
    BY <1>3, <1>4, <2>1
  <2>2. CASE ~(w = s.worker /\ f = s.field)
    BY <1>1, <1>3, <1>8, <2>2 DEF Follows
  <2>. QED
    BY <2>1, <2>2
<1>. QED
  BY <1>6, <1>7, <1>8 DEF Follows

LEMMA PlanStep == PlanInv /\ [Next]_vars => PlanInv'
<1>. SUFFICES ASSUME PlanInv, [Next]_vars PROVE PlanInv'
  OBVIOUS
<1>1. ControllerTypes /\ Served
  BY DEF PlanInv
<1>2. ControllerTypes'
  BY <1>1, ControllerStepTypes
<1>3. PICK plan : Sound(plan) /\ Follows(plan)
  BY DEF PlanInv
<1>4. CASE StartRebalance
  <2>1. PICK d \in [Adaptive -> Nat] : Rebalance(Capacities, d)
    BY <1>4, StartReads
  <2>2. Served'
    BY <1>1, <2>1, RebalancePlans
  <2>3. PICK q : Sound(q) /\ Follows(q)'
    BY <1>1, <2>1, RebalancePlans
  <2>4. Sound(q)'
    BY <2>3 DEF Sound
  <2>. QED
    BY <1>2, <2>2, <2>3, <2>4 DEF PlanInv
<1>s. Sound(plan)'
  BY <1>3 DEF Sound
<1>5. CASE PublishQuota
  <2>1. Served' /\ Follows(plan)'
    BY <1>1, <1>3, <1>5, PublishFollows DEF PublishQuota
  <2>. QED
    BY <1>2, <1>s, <2>1 DEF PlanInv
<1>6. CASE UNCHANGED quotaVars
  <2>1. totalLimit' = totalLimit /\ priorityLimit' = priorityLimit /\ stores' = stores
    BY <1>6 DEF quotaVars
  <2>2. Served'
    BY <1>1, <2>1 DEF Served
  <2>3. Follows(plan)'
    BY <1>3, <2>1 DEF Follows, Value
  <2>. QED
    BY <1>2, <1>s, <2>2, <2>3 DEF PlanInv
<1>7. StartRebalance \/ PublishQuota \/ UNCHANGED quotaVars
  BY DEF Next, vars, Observe, PublishSlice
<1>. QED
  BY <1>4, <1>5, <1>6, <1>7

(***************************************************************************)
(* No rebalance starves a class, in the middle of a publication neither:   *)
(* each priority keeps the worker it is always served by                   *)
(* (autobalance_loop).                                                     *)
(***************************************************************************)
THEOREM PriorityServed == Spec => []EveryPriorityServed
<1>1. PlanInv => EveryPriorityServed
  <2>. SUFFICES ASSUME PlanInv, NEW p \in Priorities
                PROVE  \E w \in WorkerIds : priorityLimit[w][p] >= 1 /\ totalLimit[w] >= 1
    BY DEF EveryPriorityServed
  <2>1. Served /\ QuotaTypes
    BY DEF PlanInv, ControllerTypes
  <2>2. 0 \in WorkerIds /\ 1 \in WorkerIds /\ 2 \in WorkerIds
    BY DEF WorkerIds
  <2>3. ASSUME NEW w \in WorkerIds, priorityLimit[w][p] > 0
        PROVE  priorityLimit[w][p] >= 1 /\ totalLimit[w] >= 1
    <3>1. priorityLimit[w][p] \in Nat /\ totalLimit[w] \in Nat
      BY <2>1 DEF QuotaTypes
    <3>2. totalLimit[w] > 0
      BY <2>1 DEF Served
    <3>. QED
      BY <2>3, <3>1, <3>2
  <2>. QED
    BY <2>1, <2>2, <2>3 DEF Served, Priorities
<1>. QED
  BY <1>1, PlanInit, PlanStep, PTL DEF Spec

(***************************************************************************)
(* Once the last store of a rebalance is made, the quotas of a worker fit  *)
(* its total, whatever was published before (autobalance_loop, step 8).    *)
(***************************************************************************)
THEOREM QuotasFit == Spec => []QuotasFitTotals
<1>1. PlanInv => QuotasFitTotals
  <2>. SUFFICES ASSUME PlanInv, stores = {}, NEW w \in WorkerIds
                PROVE  LimitSum(w) <= totalLimit[w]
    BY DEF QuotasFitTotals
  <2>1. PICK plan : Sound(plan) /\ Follows(plan)
    BY DEF PlanInv
  <2>2. \A f \in Field : Value(w, f) = plan[w][f]
    BY <2>1 DEF Follows
  <2>3. /\ totalLimit[w] = plan[w]["total"]
        /\ priorityLimit[w]["High"] = plan[w]["High"]
        /\ priorityLimit[w]["Medium"] = plan[w]["Medium"]
        /\ priorityLimit[w]["Low"] = plan[w]["Low"]
        /\ priorityLimit[w]["BestEffort"] = plan[w]["BestEffort"]
    BY <2>2 DEF Field, Priorities, Value
  <2>. QED
    BY <2>1, <2>3 DEF LimitSum, Sound
<1>. QED
  BY <1>1, PlanInit, PlanStep, PTL DEF Spec

-----------------------------------------------------------------------------

\* The windows a rebalance leaves: never more than what GuardBounded allows.
LEMMA ThresholdIs ==
  ASSUME EmaPositive, NEW p \in Adaptive
  PROVE  NewThreshold(p) <= Least(80, Greatest(BudgetNs[p] \div 1000, 1))
<1>1. PICK e \in Nat \ {0} : e = ema[p]
  BY DEF EmaPositive
<1>2. PICK b \in Nat \ {0} : b = BudgetNs[p]
  BY ControllerAssumption
<1>3. /\ e \div 1000 \in Nat
      /\ b \div 1000 \in Nat
  OBVIOUS
<1>4. GuardUs(p) = Least(2 * (e \div 1000), Greatest(b \div 1000, 1))
  BY <1>1, <1>2 DEF GuardUs
<1>. QED
  BY <1>2, <1>3, <1>4 DEF NewThreshold, Least, Greatest

GuardInv ==
  /\ EmaPositive
  /\ GuardBounded
  /\ nextSlice = 0 \/ nextSlice \in 5 .. 50

LEMMA GuardInit ==
  ASSUME BudgetNs["Medium"] >= 80000, BudgetNs["Low"] >= 80000
  PROVE  Init => GuardInv
<1>. SUFFICES ASSUME Init PROVE GuardInv
  OBVIOUS
<1>1. EmaPositive
  BY ControllerAssumption DEF Init, EmaPositive
<1>2. PICK b \in Nat \ {0}, m \in Nat, l \in Nat :
        b = BudgetNs["High"] /\ m = BudgetNs["Medium"] /\ l = BudgetNs["Low"]
  BY ControllerAssumption DEF Adaptive
<1>3. b \div 1000 \in Nat /\ m \div 1000 >= 80 /\ l \div 1000 >= 80
  BY <1>2
<1>4. m \div 1000 \in Nat /\ l \div 1000 \in Nat
  BY <1>2
<1>5. \A p \in Adaptive : guardThreshold[p] <= Least(80, Greatest(BudgetNs[p] \div 1000, 1))
  BY <1>2, <1>3, <1>4 DEF Init, Adaptive, Least, Greatest
<1>. QED
  BY <1>1, <1>5 DEF Init, GuardInv, GuardBounded, Adaptive

LEMMA GuardStep == GuardInv /\ [Next]_vars => GuardInv'
<1>. SUFFICES ASSUME GuardInv, [Next]_vars PROVE GuardInv'
  OBVIOUS
<1>. USE DEF GuardInv
<1>1. EmaPositive'
  BY EmaStep
<1>2. CASE StartRebalance
  <2>1. \A p \in Adaptive : guardThreshold'[p] = NewThreshold(p)
    BY <1>2 DEF StartRebalance
  <2>2. "High" \in Adaptive /\ NewThreshold("High") = 0
    BY DEF Adaptive, NewThreshold
  <2>3. \A p \in Adaptive : guardThreshold'[p] <= Least(80, Greatest(BudgetNs[p] \div 1000, 1))
    BY <2>1, ThresholdIs
  <2>4. nextSlice' \in 5 .. 50 /\ guardSlice' = guardSlice
    BY <1>2, NewSliceIs DEF StartRebalance
  <2>. QED
    BY <1>1, <2>1, <2>2, <2>3, <2>4 DEF GuardBounded
<1>3. CASE PublishSlice
  BY <1>1, <1>3 DEF PublishSlice, GuardBounded
<1>4. CASE UNCHANGED <<guardThreshold, guardSlice, nextSlice>>
  BY <1>1, <1>4 DEF GuardBounded
<1>5. \/ StartRebalance \/ PublishSlice
      \/ UNCHANGED <<guardThreshold, guardSlice, nextSlice>>
  BY DEF Next, vars, controllerVars, Observe, PublishQuota
<1>. QED
  BY <1>2, <1>3, <1>4, <1>5

(***************************************************************************)
(* The guard windows of the controller stay within a priority's budget, 80 *)
(* microseconds and slices of 5 to 50, for any traffic.  The code starts   *)
(* with windows of 80 microseconds whatever the budgets are: the theorem   *)
(* is about budgets of at least that (pipeline.rs:267 has 10 ms and more).     *)
(***************************************************************************)
THEOREM GuardHolds ==
  ASSUME BudgetNs["Medium"] >= 80000, BudgetNs["Low"] >= 80000
  PROVE  Spec => []GuardBounded
<1>1. Init => GuardInv
  BY GuardInit
<1>2. GuardInv => GuardBounded
  BY DEF GuardInv
<1>. QED
  BY <1>1, <1>2, GuardStep, PTL DEF Spec

-----------------------------------------------------------------------------

\* What the workers together get for a priority covers what is to be covered.
LEMMA LimitsCover ==
  ASSUME NEW c, NEW d, Estimates(c, d), NEW p \in Adaptive
  PROVE  NewLimit(c, d, 0, p) + NewLimit(c, d, 1, p) + NewLimit(c, d, 2, p)
           >= Least(d[p], Least(2 * c[p], HardCap[p]))
<1>1. c[p] \in Nat /\ d[p] \in Int
  BY DEF Estimates, Adaptive
<1>2. PICK t \in Nat \ {0} : t = TargetDepth(c[p], d[p])
  BY <1>1, TargetDepthIs
<1>3. t >= Least(d[p], 2 * c[p])
  BY <1>1, <1>2, TargetDepthIs
<1>4. CASE p = "High"
  <2>1. /\ NewLimit(c, d, 0, p) = HighShare(t)[1]
        /\ NewLimit(c, d, 1, p) = HighShare(t)[2]
        /\ NewLimit(c, d, 2, p) = HighShare(t)[3]
    BY <1>2, <1>4 DEF NewLimit
  <2>2. /\ HighShare(t)[1] \in Nat /\ HighShare(t)[2] \in Nat /\ HighShare(t)[3] \in Nat
        /\ HighShare(t)[1] + HighShare(t)[2] + HighShare(t)[3] >= Least(t, HighPrimaryMax)
    BY HighShareIs
  <2>3. HardCap[p] = HighPrimaryMax /\ HighPrimaryMax \in Nat
    BY <1>4, QuotaAssumption DEF HardCap
  <2>. QED
    BY <1>1, <1>3, <2>1, <2>2, <2>3 DEF Least
<1>5. CASE p = "Medium"
  <2>1. /\ NewLimit(c, d, 0, p) = 0
        /\ NewLimit(c, d, 1, p) = MediumShare(t)[1]
        /\ NewLimit(c, d, 2, p) = MediumShare(t)[2]
    BY <1>2, <1>5 DEF NewLimit
  <2>2. /\ MediumShare(t)[1] \in Nat /\ MediumShare(t)[2] \in Nat
        /\ MediumShare(t)[1] + MediumShare(t)[2] >= Least(t, MediumMax)
    BY MediumShareIs
  <2>3. HardCap[p] = MediumMax /\ MediumMax \in Nat
    BY <1>5, QuotaAssumption DEF HardCap
  <2>. QED
    BY <1>1, <1>3, <2>1, <2>2, <2>3 DEF Least
<1>6. CASE p = "Low"
  <2>1. /\ NewLimit(c, d, 0, p) = 0
        /\ NewLimit(c, d, 1, p) = 0
        /\ NewLimit(c, d, 2, p) = Least(t, LowMax)
    BY <1>2, <1>6 DEF NewLimit
  <2>2. HardCap[p] = LowMax /\ LowMax \in Nat
    BY <1>6, QuotaAssumption DEF HardCap
  <2>. QED
    BY <1>1, <1>3, <2>1, <2>2 DEF Least
<1>. QED
  BY <1>4, <1>5, <1>6 DEF Adaptive

\* A rebalance plans what it computed, store or no store.
LEMMA PlannedIs ==
  ASSUME ControllerTypes, NEW c, NEW d, Estimates(c, d),
         stores' = Stores(c, d), priorityLimit' = priorityLimit,
         NEW w \in WorkerIds, NEW p \in Adaptive
  PROVE  Planned(w, p)' = NewLimit(c, d, w, p)
<1>1. p \in Field /\ p # "total" /\ p \in Priorities
  BY DEF Adaptive, Field, Priorities
<1>2. /\ \A s \in Stores(c, d) : s.value = NewValue(c, d, s.worker, s.field)
      /\ (\A s \in Stores(c, d) : ~(s.worker = w /\ s.field = p)) =>
           Value(w, p) = NewValue(c, d, w, p)
  BY <1>1, StoresAre
<1>3. NewValue(c, d, w, p) = NewLimit(c, d, w, p) /\ Value(w, p) = priorityLimit[w][p]
  BY <1>1 DEF NewValue, Value
<1>. DEFINE coming == {s \in Stores(c, d) : s.worker = w /\ s.field = p}
<1>4. Planned(w, p)' = IF coming = {} THEN priorityLimit[w][p]
                       ELSE (CHOOSE s \in coming : TRUE).value
  BY DEF Planned
<1>5. \A s \in coming : s.value = NewLimit(c, d, w, p)
  BY <1>2, <1>3
<1>6. coming = {} => priorityLimit[w][p] = NewLimit(c, d, w, p)
  BY <1>2, <1>3
<1>. HIDE DEF coming
<1>7. CASE coming = {}
  BY <1>4, <1>6, <1>7
<1>8. CASE coming # {}
  <2>1. (CHOOSE s \in coming : TRUE) \in coming
    BY <1>8
  <2>. QED
    BY <1>4, <1>5, <1>8, <2>1
<1>. QED
  BY <1>7, <1>8

(***************************************************************************)
(* Whatever the estimates, the backlog and the caps, a rebalance never     *)
(* plans quotas below the backlog it read, twice the estimate and the hard *)
(* caps permitting (target_depth and the shares of autobalance_loop).      *)
(***************************************************************************)
THEOREM BacklogHolds == Spec => BacklogCovered
<1>. DEFINE Cover ==
       nextSlice = 0 /\ nextSlice' # 0 =>
         \A p \in Adaptive :
           (Planned(0, p) + Planned(1, p) + Planned(2, p))'
             >= Least(depth'[p], Least(2 * Capacity(p), HardCap[p]))
<1>1. ControllerTypes /\ [Next]_vars => Cover
  <2>. SUFFICES ASSUME ControllerTypes, [Next]_vars, nextSlice = 0, nextSlice' # 0,
                       NEW p \in Adaptive
                PROVE  Planned(0, p)' + Planned(1, p)' + Planned(2, p)'
                         >= Least(depth'[p], Least(2 * Capacity(p), HardCap[p]))
    OBVIOUS
  <2>1. StartRebalance
    BY DEF Next, vars, controllerVars, Observe, PublishQuota, PublishSlice
  <2>2. PICK c : c = Capacities
    OBVIOUS
  <2>3. PICK d \in [Adaptive -> Nat] : d = depth' /\ Rebalance(Capacities, d)
    BY <2>1, StartReads
  <2>4. Estimates(c, d)
    BY CapacitiesAre, <2>2, <2>3
  <2>5. stores' = Stores(c, d) /\ priorityLimit' = priorityLimit
    BY <2>2, <2>3 DEF Rebalance
  <2>6. 0 \in WorkerIds /\ 1 \in WorkerIds /\ 2 \in WorkerIds
    BY DEF WorkerIds
  <2>7. \A w \in WorkerIds : Planned(w, p)' = NewLimit(c, d, w, p)
    BY <2>4, <2>5, PlannedIs
  <2>8. c[p] = Capacity(p)
    BY <2>2 DEF Capacities
  <2>9. NewLimit(c, d, 0, p) + NewLimit(c, d, 1, p) + NewLimit(c, d, 2, p)
          >= Least(d[p], Least(2 * c[p], HardCap[p]))
    BY <2>4, LimitsCover
  <2>. QED
    BY <2>3, <2>6, <2>7, <2>8, <2>9
<1>2. Spec => []ControllerTypes
  BY ControllerInitTypes, ControllerStepTypes, PTL DEF Spec
<1>. QED
  BY <1>1, <1>2, PTL DEF Spec, BacklogCovered

=============================================================================
