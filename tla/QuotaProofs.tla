------------------------------ MODULE QuotaProofs ------------------------------
(***************************************************************************)
(* What a rebalance computes and publishes, for any caps, minima and       *)
(* initial quotas: the lemmas the theorems of the controller and of the    *)
(* workers share.                                                          *)
(***************************************************************************)
EXTENDS Quotas, TLAPS

Field == {"total"} \cup Priorities

StoreRecord == [at : Nat, worker : WorkerIds, field : Field, value : Nat]

QuotaTypes ==
  /\ totalLimit \in [WorkerIds -> Nat]
  /\ priorityLimit \in [WorkerIds -> [Priorities -> Nat]]
  /\ stores \in SUBSET StoreRecord

\* An estimate and a backlog for each priority that adapts.
Estimates(capacity, depth) ==
  \A p \in {"High", "Medium", "Low"} : capacity[p] \in Nat /\ depth[p] \in Int

\* target_depth is at least one packet, and what the code comment says of it.
LEMMA TargetDepthIs ==
  ASSUME NEW c \in Nat, NEW d \in Int
  PROVE  /\ TargetDepth(c, d) \in Nat \ {0}
         /\ TargetDepth(c, d) >= c /\ TargetDepth(c, d) >= Least(d, 2 * c)
BY DEF TargetDepth, Greatest, Least

\* Worker 0 always gets a High packet; the spill-over is one packet a worker.
LEMMA HighShareIs ==
  ASSUME NEW t \in Nat \ {0}
  PROVE  /\ HighShare(t)[1] \in Nat \ {0}
         /\ HighShare(t)[2] \in Nat /\ HighShare(t)[3] \in Nat
         /\ HighShare(t)[1] + HighShare(t)[2] + HighShare(t)[3] >= Least(t, HighPrimaryMax)
BY QuotaAssumption DEF HighShare, Greatest, Least

\* Worker 1 always gets a Medium packet.
LEMMA MediumShareIs ==
  ASSUME NEW t \in Nat \ {0}
  PROVE  /\ MediumShare(t)[1] \in Nat \ {0} /\ MediumShare(t)[2] \in Nat
         /\ MediumShare(t)[1] + MediumShare(t)[2] >= Least(t, MediumMax)
BY QuotaAssumption DEF MediumShare, Least

\* Quotas are numbers, and each priority has a worker that keeps a quota for it.
LEMMA NewLimitIs ==
  ASSUME NEW capacity, NEW depth, Estimates(capacity, depth)
  PROVE  /\ \A w \in WorkerIds, p \in Priorities : NewLimit(capacity, depth, w, p) \in Nat
         /\ NewLimit(capacity, depth, 0, "High") > 0
         /\ NewLimit(capacity, depth, 1, "Medium") > 0
         /\ NewLimit(capacity, depth, 2, "Low") > 0
         /\ NewLimit(capacity, depth, 2, "BestEffort") > 0
<1>. DEFINE t(p) == TargetDepth(capacity[p], depth[p])
<1>1. t("High") \in Nat \ {0} /\ t("Medium") \in Nat \ {0} /\ t("Low") \in Nat \ {0}
  BY TargetDepthIs DEF Estimates
<1>. HIDE DEF t
<1>2. \A w \in WorkerIds :
        /\ NewLimit(capacity, depth, w, "High") = HighShare(t("High"))[w + 1]
        /\ NewLimit(capacity, depth, w, "Medium") =
             IF w = 0 THEN 0 ELSE MediumShare(t("Medium"))[w]
        /\ NewLimit(capacity, depth, w, "Low") = IF w = 2 THEN Least(t("Low"), LowMax) ELSE 0
        /\ NewLimit(capacity, depth, w, "BestEffort") = IF w = 2 THEN BestEffortMax ELSE 0
  BY DEF NewLimit, t
<1>3. \A w \in WorkerIds : w = 0 \/ w = 1 \/ w = 2
  BY DEF WorkerIds
<1>4. 0 \in WorkerIds /\ 1 \in WorkerIds /\ 2 \in WorkerIds
  BY DEF WorkerIds
<1>5. /\ HighShare(t("High"))[1] \in Nat \ {0}
      /\ HighShare(t("High"))[2] \in Nat /\ HighShare(t("High"))[3] \in Nat
      /\ MediumShare(t("Medium"))[1] \in Nat \ {0} /\ MediumShare(t("Medium"))[2] \in Nat
  BY <1>1, HighShareIs, MediumShareIs
<1>6. Least(t("Low"), LowMax) \in Nat \ {0} /\ BestEffortMax \in Nat \ {0}
  BY <1>1, QuotaAssumption DEF Least
<1>7. \A w \in WorkerIds :
        /\ NewLimit(capacity, depth, w, "High") \in Nat
        /\ NewLimit(capacity, depth, w, "Medium") \in Nat
        /\ NewLimit(capacity, depth, w, "Low") \in Nat
        /\ NewLimit(capacity, depth, w, "BestEffort") \in Nat
  <2>1. ASSUME NEW w \in WorkerIds
        PROVE  HighShare(t("High"))[w + 1] \in Nat
               /\ (w # 0 => MediumShare(t("Medium"))[w] \in Nat)
    BY <1>3, <1>5
  <2>. QED
    BY <1>2, <1>6, <2>1
<1>8. /\ NewLimit(capacity, depth, 0, "High") > 0
      /\ NewLimit(capacity, depth, 1, "Medium") > 0
      /\ NewLimit(capacity, depth, 2, "Low") > 0
      /\ NewLimit(capacity, depth, 2, "BestEffort") > 0
  BY <1>2, <1>4, <1>5, <1>6
<1>. QED
  BY <1>7, <1>8 DEF Priorities

\* A total is at least its minimum and the sum of the quotas it is for.
LEMMA NewTotalIs ==
  ASSUME NEW capacity, NEW depth, Estimates(capacity, depth), NEW w \in WorkerIds
  PROVE  /\ NewTotal(capacity, depth, w) \in Nat \ {0}
         /\ NewLimit(capacity, depth, w, "High") + NewLimit(capacity, depth, w, "Medium")
              + NewLimit(capacity, depth, w, "Low") + NewLimit(capacity, depth, w, "BestEffort")
              <= NewTotal(capacity, depth, w)
<1>1. /\ NewLimit(capacity, depth, w, "High") \in Nat
      /\ NewLimit(capacity, depth, w, "Medium") \in Nat
      /\ NewLimit(capacity, depth, w, "Low") \in Nat
      /\ NewLimit(capacity, depth, w, "BestEffort") \in Nat
  BY NewLimitIs DEF Priorities
<1>2. MinTotal[w] \in Nat \ {0}
  BY QuotaAssumption
<1>. QED
  BY <1>1, <1>2 DEF NewTotal, Greatest

LEMMA NewValueType ==
  ASSUME NEW capacity, NEW depth, Estimates(capacity, depth),
         NEW w \in WorkerIds, NEW f \in Field
  PROVE  NewValue(capacity, depth, w, f) \in Nat
<1>1. CASE f = "total"
  BY <1>1, NewTotalIs DEF NewValue
<1>2. CASE f # "total"
  BY <1>2, NewLimitIs DEF NewValue, Field
<1>. QED
  BY <1>1, <1>2

-----------------------------------------------------------------------------

(***************************************************************************)
(* The stores of a rebalance: at most one for each field of each worker, in*)
(* an order of their own, and all that differ from what is published.      *)
(***************************************************************************)
LEMMA StoresAre ==
  ASSUME NEW capacity, NEW depth, Estimates(capacity, depth)
  PROVE  /\ Stores(capacity, depth) \in SUBSET StoreRecord
         /\ \A s \in Stores(capacity, depth) :
              s.value = NewValue(capacity, depth, s.worker, s.field)
         /\ \A w \in WorkerIds, f \in Field :
              (\A s \in Stores(capacity, depth) : ~(s.worker = w /\ s.field = f)) =>
                Value(w, f) = NewValue(capacity, depth, w, f)
<1>. DEFINE new == [w \in WorkerIds |-> [f \in Field |-> NewValue(capacity, depth, w, f)]]
            record(w, k) == [at |-> 5 * w + k, worker |-> w, field |-> Fields[k],
                             value |-> NewValue(capacity, depth, w, Fields[k])]
            all == {record(w, k) : w \in WorkerIds, k \in 1 .. 5}
<1>1. \A k \in 1 .. 5 : Fields[k] \in Field
  BY DEF Fields, Field, Priorities
<1>2. \A f \in Field : \E k \in 1 .. 5 : f = Fields[k]
  <2>1. /\ Fields[1] = "total" /\ Fields[2] = "High" /\ Fields[3] = "Medium"
        /\ Fields[4] = "Low" /\ Fields[5] = "BestEffort"
    BY DEF Fields
  <2>. QED
    BY <2>1 DEF Field, Priorities
<1>3. ASSUME NEW w \in WorkerIds, NEW k \in 1 .. 5
      PROVE  /\ record(w, k) \in StoreRecord
             /\ record(w, k).worker = w /\ record(w, k).field = Fields[k]
             /\ record(w, k).value = new[w][Fields[k]]
  <2>1. 5 * w + k \in Nat
    BY DEF WorkerIds
  <2>2. NewValue(capacity, depth, w, Fields[k]) \in Nat /\ Fields[k] \in Field
    BY <1>1, NewValueType
  <2>3. new[w][Fields[k]] = NewValue(capacity, depth, w, Fields[k])
    BY <2>2
  <2>. QED
    BY <2>1, <2>2, <2>3 DEF StoreRecord
<1>. HIDE DEF record
<1>4. ASSUME NEW s \in all
      PROVE  s \in StoreRecord /\ s.value = new[s.worker][s.field]
  BY <1>3
<1>5. ASSUME NEW w \in WorkerIds, NEW f \in Field
      PROVE  /\ \E s \in all : s.worker = w /\ s.field = f
             /\ new[w][f] = NewValue(capacity, depth, w, f)
  <2>1. PICK k \in 1 .. 5 : f = Fields[k]
    BY <1>2
  <2>2. record(w, k) \in all
    OBVIOUS
  <2>. QED
    BY <1>3, <2>1, <2>2
<1>6. Stores(capacity, depth) = {s \in all : s.value # Value(s.worker, s.field)}
  BY DEF Stores, record
<1>. HIDE DEF all, new
<1>7. ASSUME NEW s \in Stores(capacity, depth)
      PROVE  s.value = NewValue(capacity, depth, s.worker, s.field)
  <2>1. s \in StoreRecord /\ s.value = new[s.worker][s.field]
    BY <1>4, <1>6
  <2>. QED
    BY <1>5, <2>1 DEF StoreRecord
<1>8. ASSUME NEW w \in WorkerIds, NEW f \in Field,
             \A s \in Stores(capacity, depth) : ~(s.worker = w /\ s.field = f)
      PROVE  Value(w, f) = NewValue(capacity, depth, w, f)
  <2>1. PICK s \in all : s.worker = w /\ s.field = f
    BY <1>5
  <2>2. s.value = Value(w, f)
    BY <1>6, <1>8, <2>1
  <2>. QED
    BY <1>4, <1>5, <2>1, <2>2
<1>. QED
  BY <1>4, <1>6, <1>7, <1>8

LEMMA QuotaInitTypes == QuotaInit => QuotaTypes
BY QuotaAssumption DEF QuotaInit, QuotaTypes

LEMMA RebalanceTypes ==
  ASSUME QuotaTypes, NEW capacity, NEW depth, Estimates(capacity, depth),
         Rebalance(capacity, depth)
  PROVE  QuotaTypes'
BY StoresAre DEF QuotaTypes, Rebalance

\* A store changes one field of one worker.
LEMMA PublishIs ==
  ASSUME QuotaTypes, NEW s \in stores, stores' = stores \ {s},
         IF s.field = "total"
         THEN /\ totalLimit' = [totalLimit EXCEPT ![s.worker] = s.value]
              /\ UNCHANGED priorityLimit
         ELSE /\ priorityLimit' = [priorityLimit EXCEPT ![s.worker][s.field] = s.value]
              /\ UNCHANGED totalLimit
  PROVE  /\ s \in StoreRecord /\ QuotaTypes'
         /\ \A w \in WorkerIds, f \in Field :
              Value(w, f)' = IF w = s.worker /\ f = s.field THEN s.value ELSE Value(w, f)
<1>1. s \in StoreRecord /\ s.worker \in WorkerIds /\ s.field \in Field /\ s.value \in Nat
  BY DEF QuotaTypes, StoreRecord
<1>2. CASE s.field = "total"
  BY <1>1, <1>2 DEF QuotaTypes, Value, Field
<1>3. CASE s.field # "total"
  <2>. DEFINE x == s.worker
              g == s.field
              n == s.value
  <2>1. x \in WorkerIds /\ g \in Priorities /\ n \in Nat /\ g # "total"
    BY <1>1, <1>3 DEF Field
  <2>2. priorityLimit' = [priorityLimit EXCEPT ![x][g] = n] /\ totalLimit' = totalLimit
    BY <1>3
  <2>. HIDE DEF x, g, n
  <2>3. priorityLimit \in [WorkerIds -> [Priorities -> Nat]]
    BY DEF QuotaTypes
  <2>4. /\ priorityLimit' \in [WorkerIds -> [Priorities -> Nat]]
        /\ \A w \in WorkerIds, f \in Priorities :
             priorityLimit'[w][f] = IF w = x /\ f = g THEN n ELSE priorityLimit[w][f]
    BY <2>1, <2>2, <2>3
  <2>5. \A w \in WorkerIds, f \in Field :
          Value(w, f)' = IF w = x /\ f = g THEN n ELSE Value(w, f)
    BY <2>1, <2>2, <2>4 DEF Value, Field
  <2>6. QuotaTypes'
    BY <2>2, <2>4 DEF QuotaTypes
  <2>. QED
    BY <1>1, <2>5, <2>6 DEF x, g, n
<1>. QED
  BY <1>1, <1>2, <1>3

LEMMA PublishTypes == QuotaTypes /\ Publish => QuotaTypes'
BY PublishIs DEF Publish

=============================================================================
