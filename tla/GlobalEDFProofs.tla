--------------------------- MODULE GlobalEDFProofs ---------------------------
(***************************************************************************)
(* No wake-up is lost around the shared heap, for any number of workers,   *)
(* priorities and packets.  NoTaskSleeps alone is not inductive: that a    *)
(* worker about to wait cannot strand a task rests on the mutex, which it  *)
(* keeps from the moment it finds the heap empty until it waits.           *)
(*                                                                         *)
(* Earliest deadline first, as GlobalOrder states it, rests on the order   *)
(* of the arrival times: what is further back in a class (the clock, its   *)
(* channel, the dispatcher's hand, the heap) is due no earlier than what   *)
(* is further on.                                                          *)
(*                                                                         *)
(* Conservation follows packets by id: each place has a set of ids, these  *)
(* sets are apart and make up all ids given out, and a step takes one id   *)
(* from one place to another.                                              *)
(***************************************************************************)
EXTENDS GlobalEDF, TLAPS

PcValues == {"pop", "check", "park", "waiting", "process", "done"}

PlaceInv == pc \in [Workers -> PcValues]

\* Whoever found the heap empty holds the mutex, and the heap is still empty.
LockedInv == \A w \in Workers : pc[w] \in {"check", "park"} => holder = w /\ heap = {}

SleepInv == PlaceInv /\ LockedInv /\ NoTaskSleeps

LEMMA InitEstablishes == Init => SleepInv
BY DEF Init, SleepInv, PlaceInv, PcValues, LockedInv, NoTaskSleeps

(***************************************************************************)
(* The steps that leave the heap, the mutex and the workers alone, and end *)
(* no notification that is due.                                            *)
(***************************************************************************)
LEMMA OthersPreserve ==
  ASSUME SleepInv, UNCHANGED <<heap, holder, pc>>,
         dispatchPc = "notify" => dispatchPc' = "notify"
  PROVE  SleepInv'
BY DEF SleepInv, PlaceInv, LockedInv, NoTaskSleeps, AllEnded

(***************************************************************************)
(* A push happens with the mutex free, so nobody is between its look at    *)
(* the heap and its wait; the notification is due from then on.            *)
(***************************************************************************)
LEMMA PushPreserves ==
  ASSUME SleepInv, Push
  PROVE  SleepInv'
<1>1. \A w \in Workers : pc[w] \notin {"check", "park"}
  BY GlobalAssumption DEF SleepInv, LockedInv, Push
<1>2. dispatchPc' = "notify" /\ pc' = pc
  BY DEF Push, workerVars
<1>. QED
  BY <1>1, <1>2 DEF SleepInv, PlaceInv, LockedInv, NoTaskSleeps

(***************************************************************************)
(* After notify_one a worker is awake, or none was asleep; with tasks in   *)
(* the heap none is on its way to sleep either.                            *)
(***************************************************************************)
LEMMA NotifyPreserves ==
  ASSUME SleepInv, NotifyOne
  PROVE  SleepInv'
<1>1. heap' = heap /\ holder' = holder
  BY DEF NotifyOne
<1>2. CASE Waiting = {}
  <2>1. pc' = pc
    BY <1>2 DEF NotifyOne
  <2>2. ASSUME heap # {}, ~AllEnded
        PROVE  \E w \in Workers : pc[w] \in {"pop", "process"}
    <3>1. PICK w \in Workers : pc[w] # "done"
      BY <2>2 DEF AllEnded
    <3>2. pc[w] \notin {"waiting", "check", "park"}
      BY <1>2, <2>2 DEF Waiting, SleepInv, LockedInv
    <3>. QED
      BY <3>1, <3>2 DEF SleepInv, PlaceInv, PcValues
  <2>. QED
    BY <1>1, <2>1, <2>2 DEF SleepInv, PlaceInv, LockedInv, NoTaskSleeps, AllEnded
<1>3. CASE Waiting # {}
  <2>1. PICK w \in Waiting : pc' = [pc EXCEPT ![w] = "pop"]
    BY <1>3 DEF NotifyOne
  <2>2. w \in Workers
    BY DEF Waiting
  <2>3. PlaceInv' /\ pc'[w] = "pop"
    BY <2>1, <2>2 DEF SleepInv, PlaceInv, PcValues
  <2>4. LockedInv'
    BY <1>1, <2>1, <2>2 DEF SleepInv, PlaceInv, LockedInv
  <2>. QED
    BY <2>2, <2>3, <2>4 DEF SleepInv, NoTaskSleeps
<1>. QED
  BY <1>2, <1>3

\* notify_all wakes workers and puts none to sleep.
LEMMA WakeAllPreserves ==
  ASSUME SleepInv, WakeAll
  PROVE  SleepInv'
<1>1. /\ heap' = heap /\ holder' = holder
      /\ dispatchPc # "notify"
      /\ pc' = [w \in Workers |-> IF w \in Waiting THEN "pop" ELSE pc[w]]
  BY DEF WakeAll
<1>2. PlaceInv' /\ LockedInv'
  BY <1>1 DEF SleepInv, PlaceInv, PcValues, LockedInv
<1>3. \A w \in Workers : pc[w] \in {"pop", "process", "done"} => pc'[w] = pc[w]
  BY <1>1 DEF Waiting
<1>4. NoTaskSleeps'
  BY <1>1, <1>3 DEF SleepInv, NoTaskSleeps, AllEnded
<1>. QED
  BY <1>2, <1>4 DEF SleepInv

(***************************************************************************)
(* The steps of a worker.  Those that put it to sleep or end it happen     *)
(* with the heap empty; the others leave it awake.                         *)
(***************************************************************************)
LEMMA WorkerPreserves ==
  ASSUME SleepInv, NEW w \in Workers, Worker(w)
  PROVE  SleepInv'
<1>1. CASE PopTask(w)
  <2>1. /\ pc' = [pc EXCEPT ![w] = "process"]
        /\ holder = NoWorker /\ holder' = holder
    BY <1>1 DEF PopTask
  <2>2. \A v \in Workers : pc[v] \notin {"check", "park"}
    BY <2>1, GlobalAssumption DEF SleepInv, LockedInv
  <2>. QED
    BY <2>1, <2>2 DEF SleepInv, PlaceInv, PcValues, LockedInv, NoTaskSleeps
<1>2. CASE PopEmpty(w)
  <2>1. /\ pc' = [pc EXCEPT ![w] = "check"]
        /\ holder = NoWorker /\ holder' = w
        /\ heap = {} /\ heap' = heap
    BY <1>2 DEF PopEmpty
  <2>2. \A v \in Workers : pc[v] \notin {"check", "park"}
    BY <2>1, GlobalAssumption DEF SleepInv, LockedInv
  <2>. QED
    BY <2>1, <2>2 DEF SleepInv, PlaceInv, PcValues, LockedInv, NoTaskSleeps
<1>3. CASE CheckStopped(w) \/ Park(w)
  <2>1. /\ pc[w] \in {"check", "park"}
        /\ \E place1 \in {"done", "waiting"} : pc' = [pc EXCEPT ![w] = place1]
        /\ heap' = heap
    BY <1>3 DEF CheckStopped, Park
  <2>2. heap = {} /\ \A v \in Workers : pc[v] \in {"check", "park"} => v = w
    BY <2>1 DEF SleepInv, LockedInv
  <2>. QED
    BY <2>1, <2>2 DEF SleepInv, PlaceInv, PcValues, LockedInv, NoTaskSleeps
<1>4. CASE CheckRunning(w)
  <2>1. /\ pc[w] = "check" /\ pc' = [pc EXCEPT ![w] = "park"]
        /\ heap' = heap /\ holder' = holder
    BY <1>4 DEF CheckRunning
  <2>2. heap = {}
    BY <2>1 DEF SleepInv, LockedInv
  <2>. QED
    BY <2>1, <2>2 DEF SleepInv, PlaceInv, PcValues, LockedInv, NoTaskSleeps
<1>5. CASE Forward(w)
  <2>1. /\ pc[w] = "process" /\ pc' = [pc EXCEPT ![w] = "pop"]
        /\ heap' = heap /\ holder' = holder
    BY <1>5 DEF Forward
  <2>. QED
    BY <2>1 DEF SleepInv, PlaceInv, PcValues, LockedInv, NoTaskSleeps
<1>. QED
  BY <1>1, <1>2, <1>3, <1>4, <1>5 DEF Worker

LEMMA StepPreserves == SleepInv /\ [Next]_vars => SleepInv'
<1>. SUFFICES ASSUME SleepInv, [Next]_vars
              PROVE  SleepInv'
  OBVIOUS
<1>1. CASE \E p \in Priority : Arrive(p)
  BY <1>1, OthersPreserve DEF Arrive, workerVars, dispatchVars
<1>2. CASE Stop
  BY <1>2, OthersPreserve DEF Stop, workerVars, dispatchVars
<1>3. CASE Dispatcher
  <2>1. CASE DispatchTop
    BY <2>1, OthersPreserve DEF DispatchTop, workerVars
  <2>2. CASE ScanEmpty
    BY <2>2, OthersPreserve DEF ScanEmpty, workerVars
  <2>3. CASE \E p \in Priority : ScanReceive(p)
    BY <2>3, OthersPreserve DEF ScanReceive, workerVars
  <2>. QED
    BY <1>3, <2>1, <2>2, <2>3, PushPreserves, NotifyPreserves, WakeAllPreserves
    DEF Dispatcher
<1>4. CASE \E w \in Workers : Worker(w)
  BY <1>4, WorkerPreserves
<1>5. CASE UNCHANGED vars
  BY <1>5, OthersPreserve DEF vars
<1>. QED
  BY <1>1, <1>2, <1>3, <1>4, <1>5 DEF Next

(***************************************************************************)
(* A task in the shared heap always has somebody who will look at the heap *)
(* again (SharedQueue::push and SharedQueue::pop lose no wake-up).         *)
(***************************************************************************)
THEOREM NoWakeupLost == Spec => []NoTaskSleeps
<1>1. SleepInv => NoTaskSleeps
  BY DEF SleepInv
<1>. QED
  BY <1>1, InitEstablishes, StepPreserves, PTL DEF Spec

-----------------------------------------------------------------------------
(* Earliest deadline first. *)

Packet == [id : Nat, ts : Nat]
Task == [id : Nat, of : Priority, due : Nat]

OrderTypes ==
  /\ arrived \in Nat /\ now \in Nat
  /\ inQueue \in [Priority -> Seq(Packet)]
  /\ inHand \in Task \cup {NoTask}
  /\ dispatchPc = "push" => inHand \in Task
  /\ heap \subseteq Task
  /\ task \in [Workers -> Task \cup {NoTask}]
  /\ since \in [Workers -> SUBSET Task]
  /\ pc \in [Workers -> PcValues]
  /\ \A w \in Workers : pc[w] = "process" => task[w] \in Task

\* No packet that is not dispatched yet will be due before d.
NotAfter(p, d) ==
  /\ d <= Due(p, now)
  /\ \A i \in 1 .. Len(inQueue[p]) : d <= Due(p, inQueue[p][i].ts)

QueueOrder ==
  \A p \in Priority : \A i \in 1 .. Len(inQueue[p]) :
    /\ inQueue[p][i].ts <= now
    /\ \A j \in i .. Len(inQueue[p]) : inQueue[p][i].ts <= inQueue[p][j].ts

HandOrder == inHand \in Task => NotAfter(inHand.of, inHand.due)

HeapOrder ==
  \A t \in heap :
    /\ NotAfter(t.of, t.due)
    /\ inHand.of = t.of => t.due <= inHand.due

WorkOrder ==
  \A w \in Workers : pc[w] = "process" =>
    /\ NotAfter(task[w].of, task[w].due)
    /\ inHand.of = task[w].of => task[w].due <= inHand.due
    /\ \A t \in heap : t.of = task[w].of => task[w].due <= t.due
    /\ \A t \in since[w] : task[w].due <= t.due

OrderInv == OrderTypes /\ QueueOrder /\ HandOrder /\ HeapOrder /\ WorkOrder

LEMMA NoneIsNoPriority == "none" \notin Priority
BY GlobalAssumption DEF AllPriorities

\* Due grows with the time of arrival.
LEMMA DueMonotone ==
  ASSUME NEW p \in Priority, NEW a \in Nat, NEW b \in Nat
  PROVE  /\ Due(p, a) \in Nat
         /\ a <= b => Due(p, a) <= Due(p, b)
<1>1. Scaling(p) \in Nat
  BY GlobalAssumption DEF Scaling, ScalingTable, AllPriorities
<1>2. PICK s \in Nat : s = Budget[p] * Scaling(p)
  BY <1>1, GlobalAssumption
<1>. QED
  BY <1>2 DEF Due

LEMMA OrderInitially == Init => OrderInv
<1>. SUFFICES ASSUME Init PROVE OrderInv
  OBVIOUS
<1>1. OrderTypes
  BY GlobalAssumption DEF Init, OrderTypes, PcValues, Packet
<1>2. NoTask \notin Task
  BY NoneIsNoPriority DEF NoTask, Task
<1>. QED
  BY <1>1, <1>2 DEF Init, OrderInv, QueueOrder, HandOrder, HeapOrder, WorkOrder

\* An arrival is stamped with a time no earlier than all before.
LEMMA ArriveKeepsOrder ==
  ASSUME OrderInv, NEW p \in Priority, Arrive(p)
  PROVE  OrderInv'
<1>0. now \in Nat /\ now' \in Nat /\ now <= now' /\ arrived \in Nat
  BY GlobalAssumption DEF OrderInv, OrderTypes, Arrive
<1>1. PICK e \in Packet :
         e.ts = now' /\ inQueue' = [inQueue EXCEPT ![p] = Append(@, e)]
  <2>1. [id |-> arrived, ts |-> now'] \in Packet
    BY <1>0 DEF Packet
  <2>. QED
    BY <2>1 DEF Arrive
<1>2. UNCHANGED <<inHand, dispatchPc, heap, pc, task, since>> /\ arrived' \in Nat
  BY DEF OrderInv, OrderTypes, Arrive, workerVars, dispatchVars
<1>3. inQueue' \in [Priority -> Seq(Packet)]
  BY <1>1 DEF OrderInv, OrderTypes
<1>4. OrderTypes'
  BY <1>0, <1>2, <1>3 DEF OrderInv, OrderTypes
<1>5. \A q \in Priority :
        /\ inQueue[q] \in Seq(Packet)
        /\ q # p => inQueue'[q] = inQueue[q]
        /\ q = p => inQueue'[q] = Append(inQueue[q], e)
  BY <1>1 DEF OrderInv, OrderTypes
<1>6. ASSUME NEW q \in Priority, NEW i \in 1 .. Len(inQueue'[q])
      PROVE  \/ i \in 1 .. Len(inQueue[q]) /\ inQueue'[q][i] = inQueue[q][i]
             \/ i = Len(inQueue'[q]) /\ inQueue'[q][i] = e
  BY <1>5
<1>7. \A q \in Priority : \A i \in 1 .. Len(inQueue[q]) : inQueue[q][i].ts \in Nat
  <2>1. \A q \in Priority : \A i \in 1 .. Len(inQueue[q]) : inQueue[q][i] \in Packet
    BY <1>5
  <2>. QED
    BY <2>1 DEF Packet
<1>8. QueueOrder'
  <2>. SUFFICES ASSUME NEW q \in Priority, NEW i \in 1 .. Len(inQueue'[q])
                PROVE  /\ inQueue'[q][i].ts <= now'
                       /\ \A j \in i .. Len(inQueue'[q]) :
                            inQueue'[q][i].ts <= inQueue'[q][j].ts
    BY DEF QueueOrder
  <2>1. inQueue'[q][i].ts \in Nat /\ inQueue'[q][i].ts <= now'
    BY <1>0, <1>1, <1>6, <1>7 DEF OrderInv, QueueOrder
  <2>2. ASSUME NEW j \in i .. Len(inQueue'[q])
        PROVE  inQueue'[q][i].ts <= inQueue'[q][j].ts
    <3>1. j \in 1 .. Len(inQueue'[q])
      BY <1>3
    <3>2. CASE j \in 1 .. Len(inQueue[q]) /\ inQueue'[q][j] = inQueue[q][j]
      <4>1. i \in 1 .. Len(inQueue[q]) /\ inQueue'[q][i] = inQueue[q][i]
        BY <1>3, <1>5, <1>6, <3>2
      <4>. QED
        BY <3>2, <4>1 DEF OrderInv, QueueOrder
    <3>3. CASE inQueue'[q][j] = e
      BY <1>1, <2>1, <3>3
    <3>. QED
      BY <1>6, <3>1, <3>2, <3>3
  <2>. QED
    BY <2>1, <2>2
<1>9. ASSUME NEW q \in Priority, NEW d \in Nat, NotAfter(q, d)
      PROVE  NotAfter(q, d)'
  <2>1. d <= Due(q, now')
    <3>1. /\ Due(q, now) \in Nat /\ Due(q, now') \in Nat
          /\ Due(q, now) <= Due(q, now')
      BY <1>0, DueMonotone
    <3>. QED
      BY <1>9, <3>1 DEF NotAfter
  <2>. QED
    BY <1>1, <1>6, <1>9, <2>1 DEF NotAfter
<1>. QED
  BY <1>2, <1>4, <1>8, <1>9
  DEF OrderInv, OrderTypes, HandOrder, HeapOrder, WorkOrder, Task

LEMMA TailOf ==
  ASSUME NEW s \in Seq(Packet), s # <<>>
  PROVE  /\ Len(s) \in Nat /\ Len(Tail(s)) = Len(s) - 1
         /\ \A i \in 1 .. Len(Tail(s)) : i + 1 \in 1 .. Len(s) /\ Tail(s)[i] = s[i + 1]
OBVIOUS

\* The dispatcher takes the oldest of a channel.
LEMMA ReceiveKeepsOrder ==
  ASSUME OrderInv, NEW p \in Priority, ScanReceive(p)
  PROVE  OrderInv'
<1>1. /\ inQueue[p] \in Seq(Packet) /\ inQueue[p] # <<>>
      /\ inHand' = [id |-> Head(inQueue[p]).id, of |-> p, due |-> Due(p, Head(inQueue[p]).ts)]
      /\ inQueue' = [inQueue EXCEPT ![p] = Tail(@)]
  BY DEF OrderInv, OrderTypes, ScanReceive
<1>2. UNCHANGED <<arrived, now, heap, pc, task, since>> /\ dispatchPc' = "push"
  BY DEF ScanReceive, workerVars
<1>3. Head(inQueue[p]) \in Packet /\ Head(inQueue[p]) = inQueue[p][1] /\ 1 \in 1 .. Len(inQueue[p])
  BY <1>1
<1>4. inHand' \in Task /\ inHand'.of = p /\ inHand'.due = Due(p, inQueue[p][1].ts)
  BY <1>1, <1>3, DueMonotone DEF Task, Packet
<1>5. OrderTypes'
  BY <1>1, <1>2, <1>4 DEF OrderInv, OrderTypes
<1>6. \A q \in Priority :
        /\ inQueue[q] \in Seq(Packet)
        /\ q # p => inQueue'[q] = inQueue[q]
        /\ q = p => inQueue'[q] = Tail(inQueue[q])
  BY <1>1 DEF OrderInv, OrderTypes
<1>7. ASSUME NEW q \in Priority, NEW i \in 1 .. Len(inQueue'[q])
      PROVE  \/ q # p /\ i \in 1 .. Len(inQueue[q]) /\ inQueue'[q][i] = inQueue[q][i]
             \/ q = p /\ i + 1 \in 1 .. Len(inQueue[q]) /\ inQueue'[q][i] = inQueue[q][i + 1]
  <2>1. CASE q # p
    BY <1>6, <2>1
  <2>2. CASE q = p
    <3>1. /\ inQueue[p] \in Seq(Packet) /\ inQueue[p] # <<>>
          /\ inQueue'[p] = Tail(inQueue[p]) /\ i \in 1 .. Len(Tail(inQueue[p]))
      BY <1>1, <1>6, <2>2
    <3>2. i + 1 \in 1 .. Len(inQueue[p]) /\ Tail(inQueue[p])[i] = inQueue[p][i + 1]
      BY <3>1, TailOf
    <3>. QED
      BY <2>2, <3>1, <3>2
  <2>. QED
    BY <2>1, <2>2
<1>8. QueueOrder'
  <2>. SUFFICES ASSUME NEW q \in Priority, NEW i \in 1 .. Len(inQueue'[q])
                PROVE  /\ inQueue'[q][i].ts <= now'
                       /\ \A j \in i .. Len(inQueue'[q]) :
                            inQueue'[q][i].ts <= inQueue'[q][j].ts
    BY DEF QueueOrder
  <2>1. CASE q # p
    BY <1>2, <1>6, <2>1 DEF OrderInv, QueueOrder
  <2>2. CASE q = p
    <3>1. Len(inQueue'[q]) = Len(inQueue[q]) - 1 /\ Len(inQueue[q]) \in Nat
      BY <1>1, <1>6, <2>2, TailOf
    <3>2. \A j \in i .. Len(inQueue'[q]) : j + 1 \in (i + 1) .. Len(inQueue[q])
                                           /\ inQueue'[q][j] = inQueue[q][j + 1]
      <4>1. \A j \in i .. Len(inQueue'[q]) : j \in 1 .. Len(inQueue'[q])
        BY <3>1
      <4>. QED
        BY <1>7, <2>2, <3>1, <4>1
    <3>3. i + 1 \in 1 .. Len(inQueue[q]) /\ inQueue'[q][i] = inQueue[q][i + 1]
      BY <1>7, <2>2
    <3>. QED
      BY <1>2, <3>2, <3>3 DEF OrderInv, QueueOrder
  <2>. QED
    BY <2>1, <2>2
<1>9. ASSUME NEW q \in Priority, NEW d, NotAfter(q, d)
      PROVE  NotAfter(q, d)'
  <2>1. \A i \in 1 .. Len(inQueue'[q]) : \E j \in 1 .. Len(inQueue[q]) :
          inQueue'[q][i] = inQueue[q][j]
    BY <1>7
  <2>2. d <= Due(q, now')
    BY <1>2, <1>9 DEF NotAfter
  <2>3. \A i \in 1 .. Len(inQueue'[q]) : d <= Due(q, inQueue'[q][i].ts)
    BY <1>9, <2>1 DEF NotAfter
  <2>. QED
    BY <2>2, <2>3 DEF NotAfter
<1>10. NotAfter(p, inHand.due)'
  <2>1. inHand'.due <= Due(p, now')
    BY <1>2, <1>3, <1>4, DueMonotone DEF OrderInv, OrderTypes, QueueOrder, Packet
  <2>2. ASSUME NEW i \in 1 .. Len(inQueue'[p])
        PROVE  inHand'.due <= Due(p, inQueue'[p][i].ts)
    <3>1. i + 1 \in 1 .. Len(inQueue[p]) /\ inQueue'[p][i] = inQueue[p][i + 1]
      BY <1>7, <2>2
    <3>2. inQueue[p][1].ts <= inQueue[p][i + 1].ts
      <4>1. i + 1 \in 1 .. Len(inQueue[p])
        BY <3>1
      <4>2. Len(inQueue[p]) \in Nat
        BY <1>1
      <4>. QED
        BY <1>3, <4>1, <4>2 DEF OrderInv, QueueOrder
    <3>3. inQueue[p][1].ts \in Nat /\ inQueue[p][i + 1].ts \in Nat
      <4>1. inQueue[p][1] \in Packet /\ inQueue[p][i + 1] \in Packet
        BY <1>1, <1>3, <3>1
      <4>. QED
        BY <4>1 DEF Packet
    <3>4. Due(p, inQueue[p][1].ts) <= Due(p, inQueue[p][i + 1].ts)
      BY <3>2, <3>3, DueMonotone
    <3>. QED
      BY <1>4, <3>1, <3>4
  <2>. QED
    BY <2>1, <2>2 DEF NotAfter
<1>11. ASSUME NEW d, NotAfter(p, d)
       PROVE  d <= inHand'.due
  <2>1. d <= Due(p, inQueue[p][1].ts)
    BY <1>3, <1>11 DEF NotAfter
  <2>. QED
    BY <1>4, <2>1
<1>12. HandOrder'
  BY <1>4, <1>10 DEF HandOrder
<1>13. HeapOrder'
  BY <1>2, <1>4, <1>9, <1>11 DEF OrderInv, OrderTypes, HeapOrder, Task
<1>14. WorkOrder'
  BY <1>2, <1>4, <1>9, <1>11 DEF OrderInv, OrderTypes, WorkOrder, Task
<1>. QED
  BY <1>5, <1>8, <1>12, <1>13, <1>14 DEF OrderInv

\* The task in the dispatcher's hand is due no earlier than those of its class in the heap.
LEMMA PushKeepsOrder ==
  ASSUME OrderInv, Push
  PROVE  OrderInv'
<1>1. /\ heap' = heap \cup {inHand} /\ inHand' = NoTask
      /\ inHand \in Task /\ dispatchPc' = "notify"
      /\ UNCHANGED <<arrived, now, inQueue, pc, task, since>>
  BY DEF Push, workerVars, OrderInv, OrderTypes
<1>2. OrderTypes'
  BY <1>1 DEF OrderInv, OrderTypes
<1>3. QueueOrder'
  BY <1>1 DEF OrderInv, QueueOrder
<1>4. \A q, d : NotAfter(q, d)' = NotAfter(q, d)
  BY <1>1 DEF NotAfter
<1>5. inHand' \notin Task /\ inHand'.of \notin Priority
  BY <1>1, NoneIsNoPriority DEF NoTask, Task
<1>6. HandOrder'
  BY <1>5 DEF HandOrder
<1>7. HeapOrder'
  BY <1>1, <1>4, <1>5 DEF OrderInv, OrderTypes, HandOrder, HeapOrder, Task
<1>8. WorkOrder'
  BY <1>1, <1>4, <1>5 DEF OrderInv, OrderTypes, WorkOrder, Task
<1>. QED
  BY <1>2, <1>3, <1>6, <1>7, <1>8 DEF OrderInv

\* A worker takes an earliest task.
LEMMA PopKeepsOrder ==
  ASSUME OrderInv, NEW w \in Workers, PopTask(w)
  PROVE  OrderInv'
<1>1. PICK t \in heap :
        /\ \A u \in heap : t.due <= u.due
        /\ task' = [task EXCEPT ![w] = t]
        /\ heap' = heap \ {t}
        /\ since' = [since EXCEPT ![w] = heap \ {t}]
  BY DEF PopTask, Earliest
<1>2. /\ pc' = [pc EXCEPT ![w] = "process"]
      /\ UNCHANGED <<arrived, now, inQueue, inHand, dispatchPc>>
  BY DEF PopTask, dispatchVars
<1>3. OrderTypes'
  <2>1. heap' \subseteq Task /\ task' \in [Workers -> Task \cup {NoTask}]
    BY <1>1 DEF OrderInv, OrderTypes
  <2>2. since' \in [Workers -> SUBSET Task] /\ pc' \in [Workers -> PcValues]
    BY <1>1, <1>2 DEF OrderInv, OrderTypes, PcValues
  <2>3. \A v \in Workers : pc'[v] = "process" => task'[v] \in Task
    BY <1>1, <1>2 DEF OrderInv, OrderTypes
  <2>. QED
    BY <1>2, <2>1, <2>2, <2>3 DEF OrderInv, OrderTypes
<1>4. \A q, d : NotAfter(q, d)' = NotAfter(q, d)
  BY <1>2 DEF NotAfter
<1>5. QueueOrder' /\ HandOrder'
  BY <1>2, <1>4 DEF OrderInv, QueueOrder, HandOrder
<1>6. HeapOrder'
  BY <1>1, <1>2, <1>4 DEF OrderInv, HeapOrder
<1>7. WorkOrder'
  <2>. SUFFICES ASSUME NEW v \in Workers, pc'[v] = "process"
                PROVE  /\ NotAfter(task[v].of, task[v].due)'
                       /\ inHand'.of = task'[v].of => task'[v].due <= inHand'.due
                       /\ \A u \in heap' : u.of = task'[v].of => task'[v].due <= u.due
                       /\ \A u \in since'[v] : task'[v].due <= u.due
    BY DEF WorkOrder
  <2>1. CASE v = w
    <3>1. task'[v] = t /\ since'[v] \subseteq heap
      BY <1>1, <2>1 DEF OrderInv, OrderTypes
    <3>. QED
      BY <1>1, <1>2, <1>4, <3>1 DEF OrderInv, HeapOrder
  <2>2. CASE v # w
    <3>1. task'[v] = task[v] /\ since'[v] = since[v] /\ pc[v] = "process"
      BY <1>1, <1>2, <2>2 DEF OrderInv, OrderTypes
    <3>. QED
      BY <1>1, <1>2, <1>4, <3>1 DEF OrderInv, WorkOrder
  <2>. QED
    BY <2>1, <2>2
<1>. QED
  BY <1>3, <1>5, <1>6, <1>7 DEF OrderInv

\* The steps that move no task, or let a worker's task go.
LEMMA OthersKeepOrder ==
  ASSUME OrderInv, UNCHANGED <<arrived, now, inQueue, inHand, heap>>,
         dispatchPc' = "push" => dispatchPc = "push",
         pc' \in [Workers -> PcValues], task' \in [Workers -> Task \cup {NoTask}],
         since' \in [Workers -> SUBSET Task],
         \A w \in Workers : pc'[w] = "process" =>
           pc[w] = "process" /\ task'[w] = task[w] /\ since'[w] = since[w]
  PROVE  OrderInv'
<1>1. \A q, d : NotAfter(q, d)' = NotAfter(q, d)
  BY DEF NotAfter
<1>2. OrderTypes'
  BY DEF OrderInv, OrderTypes
<1>3. QueueOrder' /\ HandOrder' /\ HeapOrder'
  BY <1>1 DEF OrderInv, QueueOrder, HandOrder, HeapOrder
<1>4. WorkOrder'
  BY <1>1 DEF OrderInv, WorkOrder
<1>. QED
  BY <1>2, <1>3, <1>4 DEF OrderInv

LEMMA WorkerKeepsOrder ==
  ASSUME OrderInv, NEW w \in Workers, Worker(w)
  PROVE  OrderInv'
<1>1. CASE PopTask(w)
  BY <1>1, PopKeepsOrder
<1>2. CASE PopEmpty(w) \/ CheckStopped(w) \/ CheckRunning(w) \/ Park(w)
  <2>1. /\ UNCHANGED <<arrived, now, inQueue, inHand, dispatchPc, heap, task, since>>
        /\ \E p \in PcValues \ {"process"} : pc' = [pc EXCEPT ![w] = p]
    BY <1>2 DEF PopEmpty, CheckStopped, CheckRunning, Park, dispatchVars, PcValues
  <2>2. pc' \in [Workers -> PcValues] /\ \A v \in Workers : pc'[v] = "process" => pc[v] = "process"
    BY <2>1 DEF OrderInv, OrderTypes
  <2>. QED
    BY <2>1, <2>2, OthersKeepOrder DEF OrderInv, OrderTypes
<1>3. CASE Forward(w)
  <2>1. /\ UNCHANGED <<arrived, now, inQueue, inHand, dispatchPc, heap>>
        /\ task' = [task EXCEPT ![w] = NoTask]
        /\ since' = [since EXCEPT ![w] = {}]
        /\ pc' = [pc EXCEPT ![w] = "pop"]
    BY <1>3 DEF Forward, dispatchVars
  <2>2. task' \in [Workers -> Task \cup {NoTask}] /\ since' \in [Workers -> SUBSET Task]
    BY <2>1 DEF OrderInv, OrderTypes
  <2>3. pc' \in [Workers -> PcValues]
    BY <2>1 DEF OrderInv, OrderTypes, PcValues
  <2>4. \A v \in Workers : pc'[v] = "process" =>
          pc[v] = "process" /\ task'[v] = task[v] /\ since'[v] = since[v]
    BY <2>1 DEF OrderInv, OrderTypes
  <2>. QED
    BY <2>1, <2>2, <2>3, <2>4, OthersKeepOrder
<1>. QED
  BY <1>1, <1>2, <1>3 DEF Worker

LEMMA StepKeepsOrder == OrderInv /\ [Next]_vars => OrderInv'
<1>. SUFFICES ASSUME OrderInv, [Next]_vars
              PROVE  OrderInv'
  OBVIOUS
<1>1. CASE \E p \in Priority : Arrive(p)
  BY <1>1, ArriveKeepsOrder
<1>2. CASE Stop \/ UNCHANGED vars
  <2>1. UNCHANGED <<arrived, now, inQueue, inHand, dispatchPc, heap, pc, task, since>>
    BY <1>2 DEF Stop, vars, workerVars, dispatchVars
  <2>. QED
    BY <2>1, OthersKeepOrder DEF OrderInv, OrderTypes
<1>3. CASE Dispatcher
  <2>1. CASE DispatchTop \/ ScanEmpty
    <3>1. /\ UNCHANGED <<arrived, now, inQueue, inHand, heap, pc, task, since>>
          /\ dispatchPc' # "push"
      BY <2>1 DEF DispatchTop, ScanEmpty, Advance, workerVars
    <3>. QED
      BY <3>1, OthersKeepOrder DEF OrderInv, OrderTypes
  <2>2. CASE \E p \in Priority : ScanReceive(p)
    BY <2>2, ReceiveKeepsOrder
  <2>3. CASE Push
    BY <2>3, PushKeepsOrder
  <2>4. CASE NotifyOne \/ WakeAll
    <3>1. /\ UNCHANGED <<arrived, now, inQueue, inHand, heap, task, since>>
          /\ dispatchPc' # "push"
      BY <2>4 DEF NotifyOne, WakeAll, Advance
    <3>2. /\ pc' \in [Workers -> PcValues]
          /\ \A w \in Workers : pc'[w] = "process" => pc[w] = "process"
      BY <2>4 DEF NotifyOne, WakeAll, Waiting, PcValues, OrderInv, OrderTypes
    <3>. QED
      BY <3>1, <3>2, OthersKeepOrder DEF OrderInv, OrderTypes
  <2>. QED
    BY <1>3, <2>1, <2>2, <2>3, <2>4 DEF Dispatcher
<1>4. CASE \E w \in Workers : Worker(w)
  BY <1>4, WorkerKeepsOrder
<1>. QED
  BY <1>1, <1>2, <1>3, <1>4 DEF Next

\* What is held now and was left behind was in the set left behind.
LEMMA OrderImplies == OrderInv => GlobalOrder
<1>. SUFFICES ASSUME OrderInv, NEW w \in Workers, pc[w] = "process"
              PROVE  /\ \A t \in since[w] :
                          t \in heap \cup {task[v] : v \in Workers} => t.due >= task[w].due
                     /\ \A t \in Undispatched \cup {inHand} \cup heap :
                          t.of = task[w].of => t.due >= task[w].due
  BY DEF GlobalOrder
<1>1. task[w] \in Task /\ task[w].due \in Nat
  BY DEF OrderInv, OrderTypes, Task
<1>2. ASSUME NEW t \in since[w]
      PROVE  t.due >= task[w].due
  <2>1. t \in Task /\ task[w].due <= t.due
    BY DEF OrderInv, OrderTypes, WorkOrder
  <2>. QED
    BY <1>1, <2>1 DEF Task
<1>3. ASSUME NEW t \in Undispatched, t.of = task[w].of
      PROVE  t.due >= task[w].due
  <2>0. PICK p \in Priority :
          t \in {[id |-> inQueue[p][i].id, of |-> p, due |-> Due(p, inQueue[p][i].ts)] :
                   i \in 1 .. Len(inQueue[p])}
    BY <1>3, Zenon DEF Undispatched
  <2>1. PICK i \in 1 .. Len(inQueue[p]) :
          t = [id |-> inQueue[p][i].id, of |-> p, due |-> Due(p, inQueue[p][i].ts)]
    BY <2>0
  <2>2. task[w].due <= Due(p, inQueue[p][i].ts)
    BY <1>3, <2>1 DEF OrderInv, WorkOrder, NotAfter
  <2>3. inQueue[p][i] \in Packet
    BY DEF OrderInv, OrderTypes
  <2>4. Due(p, inQueue[p][i].ts) \in Nat
    BY <2>3, DueMonotone DEF Packet
  <2>. QED
    BY <1>1, <2>1, <2>2, <2>4
<1>4. ASSUME NEW t \in {inHand} \cup heap, t.of = task[w].of
      PROVE  t.due >= task[w].due
  <2>1. t \in Task
    BY <1>1, <1>4, NoneIsNoPriority DEF OrderInv, OrderTypes, NoTask, Task
  <2>2. task[w].due <= t.due
    BY <1>4 DEF OrderInv, WorkOrder
  <2>. QED
    BY <1>1, <2>1, <2>2 DEF Task
<1>. QED
  BY <1>2, <1>3, <1>4

(***************************************************************************)
(* A worker's task is due no later than those it left in the heap and than *)
(* those of its class still on their way (SharedQueue::pop and the order   *)
(* dispatcher_loop reads the channels in), with either way of computing    *)
(* deadlines.                                                              *)
(***************************************************************************)
THEOREM OrderHolds == Spec => []GlobalOrder
<1>. QED
  BY OrderInitially, StepKeepsOrder, OrderImplies, PTL DEF Spec


-----------------------------------------------------------------------------
(* Conservation: a step moves at most one packet from a place to another.  *)

InputSpot(p) == <<"input", p>>
WorkerSpot(w) == <<"worker", w>>
HandSpot == <<"dispatcher", 0>>
HeapSpot == <<"heap", 0>>
SentSpot == <<"sent", 0>>
DropSpot == <<"dropped", 0>>

\* Each of the ids below n is in one place, and there are no others.
Apart(at, n) ==
  /\ \A l \in Spot : \A i \in at[l] : i \in 0 .. n - 1
  /\ \A i \in 0 .. n - 1 : \E l \in Spot : i \in at[l]
  /\ \A l, m \in Spot : \A i \in at[l] : i \in at[m] => l = m

LEMMA SpotsAre ==
  /\ \A p \in Priority : InputSpot(p) \in Spot
  /\ \A w \in Workers : WorkerSpot(w) \in Spot
  /\ HandSpot \in Spot /\ HeapSpot \in Spot /\ SentSpot \in Spot /\ DropSpot \in Spot
  /\ \A l \in Spot : \/ \E p \in Priority : l = InputSpot(p)
                     \/ \E w \in Workers : l = WorkerSpot(w)
                     \/ l = HandSpot \/ l = HeapSpot \/ l = SentSpot \/ l = DropSpot
BY DEF Spot, InputSpot, WorkerSpot, HandSpot, HeapSpot, SentSpot, DropSpot

LEMMA SpotsDiffer ==
  /\ \A p, w : /\ InputSpot(p) # WorkerSpot(w)
               /\ InputSpot(p) # HandSpot /\ InputSpot(p) # HeapSpot
               /\ InputSpot(p) # SentSpot /\ InputSpot(p) # DropSpot
               /\ WorkerSpot(p) # HandSpot /\ WorkerSpot(p) # HeapSpot
               /\ WorkerSpot(p) # SentSpot /\ WorkerSpot(p) # DropSpot
               /\ InputSpot(p) = InputSpot(w) => p = w
               /\ WorkerSpot(p) = WorkerSpot(w) => p = w
  /\ HandSpot # HeapSpot /\ HandSpot # SentSpot /\ HandSpot # DropSpot
  /\ HeapSpot # SentSpot /\ HeapSpot # DropSpot /\ SentSpot # DropSpot
BY DEF InputSpot, WorkerSpot, HandSpot, HeapSpot, SentSpot, DropSpot

\* From at to at2, the packet x goes from place a to place b.
Moved(at, at2, a, b, x) ==
  /\ a # b /\ x \in at[a]
  /\ at2[a] = at[a] \ {x} /\ at2[b] = at[b] \cup {x}
  /\ \A l \in Spot : l # a /\ l # b => at2[l] = at[l]

LEMMA Moves ==
  ASSUME NEW at, NEW at2, NEW n, NEW a \in Spot, NEW b \in Spot, NEW x,
         Apart(at, n), Moved(at, at2, a, b, x)
  PROVE  Apart(at2, n)
<1>. USE DEF Moved
<1>1. x \in 0 .. n - 1 /\ \A l \in Spot : x \in at[l] => l = a
  BY DEF Apart
<1>2. ASSUME NEW l \in Spot, NEW i \in at2[l]
      PROVE  i \in 0 .. n - 1 /\ (i = x => l = b) /\ (i # x => i \in at[l])
  <2>1. CASE l = a
    BY <1>1, <1>2, <2>1 DEF Apart
  <2>2. CASE l = b
    BY <1>1, <1>2, <2>2 DEF Apart
  <2>3. CASE l # a /\ l # b
    BY <1>1, <1>2, <2>3 DEF Apart
  <2>. QED
    BY <2>1, <2>2, <2>3
<1>3. ASSUME NEW i \in 0 .. n - 1
      PROVE  \E l \in Spot : i \in at2[l]
  <2>1. CASE i = x
    BY <2>1
  <2>2. CASE i # x
    <3>1. PICK l \in Spot : i \in at[l]
      BY DEF Apart
    <3>. QED
      BY <2>2, <3>1
  <2>. QED
    BY <2>1, <2>2
<1>4. ASSUME NEW l \in Spot, NEW m \in Spot, NEW i \in at2[l], i \in at2[m]
      PROVE  l = m
  <2>1. CASE i = x
    BY <1>2, <1>4, <2>1
  <2>2. CASE i # x
    BY <1>2, <1>4, <2>2 DEF Apart
  <2>. QED
    BY <2>1, <2>2
<1>. QED
  BY <1>2, <1>3, <1>4 DEF Apart

\* A packet that was nowhere comes.
LEMMA Comes ==
  ASSUME NEW at, NEW at2, NEW n \in Nat, NEW a \in Spot, Apart(at, n),
         at2[a] = at[a] \cup {n}, \A l \in Spot : l # a => at2[l] = at[l]
  PROVE  Apart(at2, n + 1)
<1>1. \A i : i \in 0 .. (n + 1) - 1 <=> i \in 0 .. n - 1 \/ i = n
  OBVIOUS
<1>2. n \notin 0 .. n - 1
  OBVIOUS
<1>3. ASSUME NEW l \in Spot, NEW i \in at2[l]
      PROVE  (i = n /\ l = a) \/ (i # n /\ i \in at[l] /\ i \in 0 .. n - 1)
  BY <1>2, <1>3 DEF Apart
<1>4. \A i \in 0 .. (n + 1) - 1 : \E l \in Spot : i \in at2[l]
  <2>. SUFFICES ASSUME NEW i \in 0 .. (n + 1) - 1 PROVE \E l \in Spot : i \in at2[l]
    OBVIOUS
  <2>1. CASE i = n
    BY <2>1
  <2>2. CASE i \in 0 .. n - 1
    <3>1. PICK l \in Spot : i \in at[l]
      BY <2>2 DEF Apart
    <3>. QED
      BY <3>1
  <2>. QED
    BY <1>1, <2>1, <2>2
<1>5. ASSUME NEW l \in Spot, NEW m \in Spot, NEW i \in at2[l], i \in at2[m]
      PROVE  l = m
  BY <1>3, <1>5 DEF Apart
<1>. QED
  BY <1>1, <1>3, <1>4, <1>5 DEF Apart


LEMMA NoTaskIsNone == NoTask \notin Task /\ NoTask.of = "none" /\ NoTask.id = -1
BY NoneIsNoPriority DEF NoTask, Task

\* The ids in a channel grow, and those in a heap differ.
Rising(s) == \A j, k \in DOMAIN s : j < k => s[j].id < s[k].id
OneEach(h) == \A t, u \in h : t.id = u.id => t = u

LEMMA QueueIds ==
  ASSUME NEW s \in Seq(Packet)
  PROVE  /\ \A i \in 1 .. Len(s) : s[i].id \in IdsOf(Range(s)) /\ s[i].id \in Nat
         /\ \A x \in IdsOf(Range(s)) : \E i \in 1 .. Len(s) : s[i].id = x
<1>1. DOMAIN s = 1 .. Len(s) /\ \A i \in 1 .. Len(s) : s[i] \in Packet
  OBVIOUS
<1>2. \A i \in 1 .. Len(s) : s[i].id \in Nat /\ s[i] \in Range(s)
  BY <1>1 DEF Packet, Range
<1>3. \A t \in Range(s) : \E i \in 1 .. Len(s) : t = s[i]
  BY <1>1 DEF Range
<1>4. NoTask.id \notin Nat
  BY NoTaskIsNone
<1>. QED
  BY <1>2, <1>3, <1>4 DEF IdsOf

LEMMA AppendIds ==
  ASSUME NEW s \in Seq(Packet), NEW e \in Packet, Rising(s),
         \A x \in IdsOf(Range(s)) : x < e.id
  PROVE  /\ IdsOf(Range(Append(s, e))) = IdsOf(Range(s)) \cup {e.id}
         /\ Rising(Append(s, e))
<1>. DEFINE g == Append(s, e)
<1>1. /\ g \in Seq(Packet) /\ Len(g) = Len(s) + 1 /\ g[Len(g)] = e /\ Len(s) \in Nat
      /\ \A i \in 1 .. Len(s) : g[i] = s[i]
      /\ DOMAIN g = 1 .. Len(g) /\ DOMAIN s = 1 .. Len(s)
  OBVIOUS
<1>. HIDE DEF g
<1>2. \A i \in 1 .. Len(g) : i \in 1 .. Len(s) \/ i = Len(g)
  BY <1>1
<1>3. \A i \in 1 .. Len(s) : i \in 1 .. Len(g)
  BY <1>1
<1>4. Len(g) \in 1 .. Len(g)
  BY <1>1
<1>5. \A x \in IdsOf(Range(g)) : x \in IdsOf(Range(s)) \cup {e.id}
  <2>. SUFFICES ASSUME NEW x \in IdsOf(Range(g)) PROVE x \in IdsOf(Range(s)) \cup {e.id}
    OBVIOUS
  <2>1. PICK i \in 1 .. Len(g) : g[i].id = x
    BY <1>1, QueueIds
  <2>2. CASE i \in 1 .. Len(s)
    BY <1>1, <2>1, <2>2, QueueIds
  <2>3. CASE i = Len(g)
    BY <1>1, <2>1, <2>3
  <2>. QED
    BY <1>2, <2>2, <2>3
<1>6. \A x \in IdsOf(Range(s)) : x \in IdsOf(Range(g))
  <2>. SUFFICES ASSUME NEW x \in IdsOf(Range(s)) PROVE x \in IdsOf(Range(g))
    OBVIOUS
  <2>1. PICK i \in 1 .. Len(s) : s[i].id = x
    BY QueueIds
  <2>2. g[i].id = x /\ i \in 1 .. Len(g)
    BY <1>1, <1>3, <2>1
  <2>. QED
    BY <1>1, <2>2, QueueIds
<1>7. e.id \in IdsOf(Range(g))
  <2>1. g[Len(g)].id \in IdsOf(Range(g))
    BY <1>1, <1>4, QueueIds
  <2>. QED
    BY <1>1, <2>1
<1>8. Rising(g)
  <2>. SUFFICES ASSUME NEW j \in 1 .. Len(g), NEW k \in 1 .. Len(g), j < k
                PROVE  g[j].id < g[k].id
    BY <1>1 DEF Rising
  <2>1. j \in 1 .. Len(s)
    BY <1>1
  <2>2. CASE k \in 1 .. Len(s)
    BY <1>1, <2>1, <2>2 DEF Rising
  <2>3. CASE k = Len(g)
    <3>1. s[j].id \in IdsOf(Range(s))
      BY <2>1, QueueIds
    <3>. QED
      BY <1>1, <2>1, <2>3, <3>1
  <2>. QED
    BY <1>2, <2>2, <2>3
<1>9. IdsOf(Range(g)) = IdsOf(Range(s)) \cup {e.id}
  BY <1>5, <1>6, <1>7
<1>. QED
  BY <1>8, <1>9 DEF g

LEMMA TailIds ==
  ASSUME NEW s \in Seq(Packet), s # <<>>, Rising(s)
  PROVE  /\ Head(s).id \in IdsOf(Range(s))
         /\ IdsOf(Range(Tail(s))) = IdsOf(Range(s)) \ {Head(s).id}
         /\ Rising(Tail(s))
<1>. DEFINE g == Tail(s)
<1>1. /\ g \in Seq(Packet) /\ Len(g) = Len(s) - 1 /\ Len(s) \in Nat /\ Len(s) >= 1
      /\ Head(s) = s[1]
      /\ \A i \in 1 .. Len(g) : g[i] = s[i + 1] /\ i + 1 \in 1 .. Len(s)
      /\ DOMAIN g = 1 .. Len(g) /\ DOMAIN s = 1 .. Len(s)
  OBVIOUS
<1>. HIDE DEF g
<1>2. 1 \in 1 .. Len(s) /\ \A i \in 1 .. Len(s) : i = 1 \/ i - 1 \in 1 .. Len(g)
  BY <1>1
<1>3. \A i \in 1 .. Len(s) : i # 1 => s[1].id < s[i].id /\ s[1].id \in Nat /\ s[i].id \in Nat
  <2>1. \A i \in 1 .. Len(s) : i # 1 => 1 < i
    BY <1>1
  <2>2. \A i \in 1 .. Len(s) : s[i].id \in Nat
    BY QueueIds
  <2>. QED
    BY <1>1, <1>2, <2>1, <2>2 DEF Rising
<1>4. Head(s).id \in IdsOf(Range(s))
  BY <1>1, <1>2, QueueIds
<1>5. ASSUME NEW x \in IdsOf(Range(g))
      PROVE  x \in IdsOf(Range(s)) /\ x # Head(s).id
  <2>1. PICK i \in 1 .. Len(g) : g[i].id = x
    BY <1>1, QueueIds
  <2>2. i + 1 \in 1 .. Len(s) /\ s[i + 1].id = x /\ i + 1 # 1
    BY <1>1, <2>1
  <2>3. x \in IdsOf(Range(s))
    BY <2>2, QueueIds
  <2>4. s[1].id < x /\ s[1].id \in Nat
    BY <1>3, <2>2
  <2>. QED
    BY <1>1, <2>3, <2>4
<1>6. ASSUME NEW x \in IdsOf(Range(s)), x # Head(s).id
      PROVE  x \in IdsOf(Range(g))
  <2>1. PICK i \in 1 .. Len(s) : s[i].id = x
    BY QueueIds
  <2>2. i # 1
    BY <1>1, <1>6, <2>1
  <2>3. i - 1 \in 1 .. Len(g) /\ (i - 1) + 1 = i
    BY <1>1, <1>2, <2>2
  <2>4. g[i - 1].id = x
    BY <1>1, <2>1, <2>3
  <2>. QED
    BY <1>1, <2>3, <2>4, QueueIds
<1>7. Rising(g)
  <2>. SUFFICES ASSUME NEW j \in 1 .. Len(g), NEW k \in 1 .. Len(g), j < k
                PROVE  g[j].id < g[k].id
    BY <1>1 DEF Rising
  <2>1. j + 1 \in 1 .. Len(s) /\ k + 1 \in 1 .. Len(s) /\ j + 1 < k + 1
    BY <1>1
  <2>. QED
    BY <1>1, <2>1 DEF Rising
<1>8. IdsOf(Range(g)) = IdsOf(Range(s)) \ {Head(s).id}
  BY <1>5, <1>6
<1>. QED
  BY <1>4, <1>7, <1>8 DEF g

LEMMA TaskIds ==
  /\ \A t \in Task : IdsOf({t}) = {t.id} /\ t.id \in Nat
  /\ IdsOf({NoTask}) = {}
<1>1. ASSUME NEW t \in Task PROVE IdsOf({t}) = {t.id} /\ t.id \in Nat
  <2>1. t.id \in Nat /\ t.id # NoTask.id
    BY NoTaskIsNone DEF Task
  <2>. QED
    BY <2>1 DEF IdsOf
<1>2. IdsOf({NoTask}) = {}
  BY DEF IdsOf
<1>. QED
  BY <1>1, <1>2

LEMMA HeapIds ==
  ASSUME NEW h \in SUBSET Task, OneEach(h), NEW t \in Task
  PROVE  /\ \A u \in h : u.id \in IdsOf(h)
         /\ IdsOf(h \cup {t}) = IdsOf(h) \cup {t.id}
         /\ t.id \notin IdsOf(h) => OneEach(h \cup {t})
         /\ t \in h => t.id \in IdsOf(h) /\ IdsOf(h \ {t}) = IdsOf(h) \ {t.id}
         /\ OneEach(h \ {t})
<1>1. \A u \in h \cup {t} : u.id # NoTask.id
  BY NoTaskIsNone DEF Task
<1>2. \A u \in h : u.id \in IdsOf(h)
  BY <1>1 DEF IdsOf
<1>3. IdsOf(h \cup {t}) = IdsOf(h) \cup {t.id}
  BY <1>1 DEF IdsOf
<1>4. t.id \notin IdsOf(h) => OneEach(h \cup {t})
  BY <1>2 DEF OneEach
<1>5. OneEach(h \ {t})
  BY DEF OneEach
<1>6. ASSUME t \in h
      PROVE  t.id \in IdsOf(h) /\ IdsOf(h \ {t}) = IdsOf(h) \ {t.id}
  <2>1. ASSUME NEW x \in IdsOf(h \ {t}) PROVE x \in IdsOf(h) \ {t.id}
    <3>1. PICK u \in h \ {t} : x = u.id
      BY DEF IdsOf
    <3>. QED
      BY <1>2, <1>6, <3>1 DEF OneEach
  <2>2. ASSUME NEW x \in IdsOf(h) \ {t.id} PROVE x \in IdsOf(h \ {t})
    <3>1. PICK u \in h : x = u.id
      BY DEF IdsOf
    <3>. QED
      BY <1>1, <3>1 DEF IdsOf
  <2>. QED
    BY <1>2, <1>6, <2>1, <2>2
<1>. QED
  BY <1>2, <1>3, <1>4, <1>5, <1>6


\* The id of the packet that is in hand, if any.
IdOf(t) == IdsOf({t})

LEMMA IdOfIs == IdOf(NoTask) = {} /\ \A t \in Task : IdOf(t) = {t.id} /\ t.id \in Nat
BY TaskIds DEF IdOf


\* The ids at each place, now and after a step.
LEMMA IdsAre ==
  /\ \A p \in Priority : IdsAt(InputSpot(p)) = IdsOf(Range(inQueue[p]))
  /\ \A w \in Workers : IdsAt(WorkerSpot(w)) = IdOf(task[w])
  /\ IdsAt(HandSpot) = IdOf(inHand)
  /\ IdsAt(HeapSpot) = IdsOf(heap)
  /\ IdsAt(SentSpot) = sent
  /\ IdsAt(DropSpot) = drops
BY DEF IdsAt, IdOf, InputSpot, WorkerSpot, HandSpot, HeapSpot, SentSpot, DropSpot

LEMMA IdsBecome ==
  /\ \A p \in Priority : IdsAt(InputSpot(p))' = IdsOf(Range(inQueue'[p]))
  /\ \A w \in Workers : IdsAt(WorkerSpot(w))' = IdOf(task'[w])
  /\ IdsAt(HandSpot)' = IdOf(inHand')
  /\ IdsAt(HeapSpot)' = IdsOf(heap')
  /\ IdsAt(SentSpot)' = sent'
  /\ IdsAt(DropSpot)' = drops'
BY DEF IdsAt, IdOf, InputSpot, WorkerSpot, HandSpot, HeapSpot, SentSpot, DropSpot


\* The ids at every place.
Where == [l \in Spot |-> IdsAt(l)]

\* Every packet that arrived is in one place; in a channel or in the heap it is once.
ConserveInv ==
  /\ Apart(Where, arrived)
  /\ \A p \in Priority : Rising(inQueue[p])
  /\ OneEach(heap)

\* Hands are empty when they should be.
IdleInv ==
  /\ dispatchPc # "push" => inHand = NoTask
  /\ \A w \in Workers : pc[w] # "process" => task[w] = NoTask

LEMMA IdleInitially == Init => IdleInv
BY DEF Init, IdleInv

LEMMA StepKeepsIdle == OrderTypes /\ IdleInv /\ [Next]_vars => IdleInv'
<1>. SUFFICES ASSUME OrderTypes, IdleInv, [Next]_vars
              PROVE  IdleInv'
  OBVIOUS
<1>1. CASE (\E p \in Priority : Arrive(p)) \/ Stop \/ UNCHANGED vars
  BY <1>1 DEF IdleInv, Arrive, Stop, vars, workerVars, dispatchVars
<1>2. CASE Dispatcher
  <2>1. CASE DispatchTop \/ ScanEmpty \/ NotifyOne \/ WakeAll
    <3>1. /\ dispatchPc # "push" /\ dispatchPc' # "push" /\ inHand' = inHand /\ task' = task
      BY <2>1 DEF DispatchTop, ScanEmpty, NotifyOne, WakeAll, Advance, workerVars
    <3>2. \A w \in Workers : pc'[w] # "process" => pc[w] # "process"
      BY <2>1 DEF OrderTypes, DispatchTop, ScanEmpty, NotifyOne, WakeAll, Waiting, workerVars
    <3>. QED
      BY <3>1, <3>2 DEF IdleInv
  <2>2. CASE Push \/ \E p \in Priority : ScanReceive(p)
    BY <2>2 DEF IdleInv, Push, ScanReceive, workerVars
  <2>. QED
    BY <1>2, <2>1, <2>2 DEF Dispatcher
<1>3. CASE \E w \in Workers : Worker(w)
  <2>1. PICK w \in Workers : Worker(w)
    BY <1>3
  <2>2. CASE PopTask(w) \/ Forward(w)
    BY <2>2 DEF IdleInv, OrderTypes, PopTask, Forward, dispatchVars
  <2>3. CASE PopEmpty(w) \/ CheckStopped(w) \/ CheckRunning(w) \/ Park(w)
    BY <2>3 DEF IdleInv, OrderTypes, PopEmpty, CheckStopped, CheckRunning, Park, dispatchVars
  <2>. QED
    BY <2>1, <2>2, <2>3 DEF Worker
<1>. QED
  BY <1>1, <1>2, <1>3 DEF Next

LEMMA WhereIs ==
  /\ \A l \in Spot : Where[l] = IdsAt(l)
  /\ \A l \in Spot : Where'[l] = IdsAt(l)'
BY DEF Where

\* A step that leaves all but two places alone, and moves one packet between these.
LEMMA StepMoves ==
  ASSUME NEW a \in Spot, NEW b \in Spot, NEW x, a # b, Apart(Where, arrived),
         x \in IdsAt(a), IdsAt(a)' = IdsAt(a) \ {x}, IdsAt(b)' = IdsAt(b) \cup {x},
         \A l \in Spot : l # a /\ l # b => IdsAt(l)' = IdsAt(l),
         arrived' = arrived
  PROVE  Apart(Where', arrived')
<1>1. Moved(Where, Where', a, b, x)
  BY WhereIs DEF Moved
<1>. QED
  BY <1>1, Moves

\* A step that leaves all places alone.
LEMMA StillConserved ==
  ASSUME ConserveInv, UNCHANGED <<inQueue, heap, task, inHand, sent, drops, arrived>>
  PROVE  ConserveInv'
<1>1. Where' = Where
  BY DEF Where, IdsAt
<1>. QED
  BY <1>1 DEF ConserveInv

LEMMA ArriveConserves ==
  ASSUME OrderTypes, ConserveInv, NEW p \in Priority, Arrive(p)
  PROVE  ConserveInv'
<1>1. /\ inQueue' = [inQueue EXCEPT ![p] = Append(@, [id |-> arrived, ts |-> now'])]
      /\ arrived' = arrived + 1 /\ heap' = heap
      /\ task' = task /\ inHand' = inHand /\ sent' = sent /\ drops' = drops
      /\ now' \in now .. MaxTime
  BY DEF Arrive, dispatchVars, workerVars
<1>2. inQueue \in [Priority -> Seq(Packet)] /\ arrived \in Nat /\ now \in Nat
  BY DEF OrderTypes
<1>3. PICK e \in Packet : e = [id |-> arrived, ts |-> now']
  <2>1. now' \in Nat
    BY <1>1, <1>2, GlobalAssumption
  <2>. QED
    BY <1>2, <2>1 DEF Packet
<1>4. e.id = arrived
  BY <1>3
<1>5. /\ inQueue'[p] = Append(inQueue[p], e) /\ inQueue[p] \in Seq(Packet)
      /\ \A r \in Priority \ {p} : inQueue'[r] = inQueue[r]
  BY <1>1, <1>2, <1>3
<1>6. \A x \in IdsOf(Range(inQueue[p])) : x < e.id
  <2>1. \A x \in IdsAt(InputSpot(p)) : x \in 0 .. arrived - 1
    BY SpotsAre, WhereIs DEF ConserveInv, Apart
  <2>. QED
    BY <1>2, <1>4, <2>1, IdsAre
<1>7. /\ IdsOf(Range(inQueue'[p])) = IdsOf(Range(inQueue[p])) \cup {e.id}
      /\ Rising(inQueue'[p])
  BY <1>5, <1>6, AppendIds DEF ConserveInv
<1>8. IdsAt(InputSpot(p))' = IdsAt(InputSpot(p)) \cup {arrived}
  BY <1>4, <1>7, IdsAre, IdsBecome
<1>9. ASSUME NEW l \in Spot, l # InputSpot(p) PROVE IdsAt(l)' = IdsAt(l)
  BY <1>1, <1>5, <1>9, SpotsAre, IdsAre, IdsBecome
<1>10. Apart(Where', arrived + 1)
  <2>1. Where'[InputSpot(p)] = Where[InputSpot(p)] \cup {arrived} /\ InputSpot(p) \in Spot
    BY <1>8, SpotsAre, WhereIs
  <2>2. \A l \in Spot : l # InputSpot(p) => Where'[l] = Where[l]
    BY <1>9, WhereIs
  <2>3. Apart(Where, arrived)
    BY DEF ConserveInv
  <2>. QED
    BY <1>2, <2>1, <2>2, <2>3, Comes
<1>. QED
  BY <1>1, <1>5, <1>7, <1>10 DEF ConserveInv

\* The first packet of a channel goes to the dispatcher's hand.
LEMMA ReceiveConserves ==
  ASSUME OrderTypes, IdleInv, ConserveInv, NEW p \in Priority, ScanReceive(p)
  PROVE  ConserveInv'
<1>1. /\ inQueue' = [inQueue EXCEPT ![p] = Tail(@)] /\ inQueue[p] # <<>>
      /\ inHand' = [id |-> Head(inQueue[p]).id, of |-> p, due |-> Due(p, Head(inQueue[p]).ts)]
      /\ arrived' = arrived /\ heap' = heap /\ task' = task /\ sent' = sent /\ drops' = drops
      /\ dispatchPc = "scan"
  BY DEF ScanReceive, workerVars
<1>2. inQueue \in [Priority -> Seq(Packet)] /\ inHand = NoTask
  BY <1>1 DEF OrderTypes, IdleInv
<1>3. /\ inQueue'[p] = Tail(inQueue[p]) /\ inQueue[p] \in Seq(Packet)
      /\ \A r \in Priority \ {p} : inQueue'[r] = inQueue[r]
  BY <1>1, <1>2
<1>4. PICK x : x = Head(inQueue[p]).id
  OBVIOUS
<1>5. /\ x \in IdsOf(Range(inQueue[p]))
      /\ IdsOf(Range(inQueue'[p])) = IdsOf(Range(inQueue[p])) \ {x}
      /\ Rising(inQueue'[p])
  BY <1>1, <1>3, <1>4, TailIds DEF ConserveInv
<1>6. IdOf(inHand) = {} /\ IdOf(inHand') = {x}
  <2>1. Head(inQueue[p]) \in Packet
    BY <1>1, <1>3
  <2>2. inHand' \in Task /\ inHand'.id = x
    BY <1>1, <1>4, <2>1, DueMonotone DEF Task, Packet
  <2>. QED
    BY <1>2, <2>2, IdOfIs
<1>7. ASSUME NEW l \in Spot, l # InputSpot(p), l # HandSpot PROVE IdsAt(l)' = IdsAt(l)
  BY <1>1, <1>3, <1>7, SpotsAre, IdsAre, IdsBecome
<1>8. /\ x \in IdsAt(InputSpot(p)) /\ IdsAt(InputSpot(p))' = IdsAt(InputSpot(p)) \ {x}
      /\ IdsAt(HandSpot)' = IdsAt(HandSpot) \cup {x}
  BY <1>5, <1>6, IdsAre, IdsBecome
<1>9. InputSpot(p) \in Spot /\ HandSpot \in Spot /\ InputSpot(p) # HandSpot
  BY SpotsAre, SpotsDiffer
<1>10. Apart(Where, arrived)
  BY DEF ConserveInv
<1>11. Apart(Where', arrived')
  BY <1>1, <1>7, <1>8, <1>9, <1>10, StepMoves
<1>. QED
  BY <1>1, <1>3, <1>5, <1>11 DEF ConserveInv

LEMMA PushConserves ==
  ASSUME OrderTypes, ConserveInv, Push
  PROVE  ConserveInv'
<1>1. /\ heap' = heap \cup {inHand} /\ inHand' = NoTask /\ inHand \in Task /\ heap \subseteq Task
      /\ arrived' = arrived /\ inQueue' = inQueue /\ task' = task
      /\ sent' = sent /\ drops' = drops
  BY DEF Push, OrderTypes, workerVars
<1>2. PICK x : x = inHand.id
  OBVIOUS
<1>3. IdOf(inHand) = {x} /\ IdOf(inHand') = {}
  BY <1>1, <1>2, IdOfIs
<1>4. x \in IdsAt(HandSpot) /\ IdsAt(HandSpot)' = IdsAt(HandSpot) \ {x}
  BY <1>3, IdsAre, IdsBecome
<1>5. HandSpot \in Spot /\ HeapSpot \in Spot /\ HandSpot # HeapSpot
  BY SpotsAre, SpotsDiffer
<1>6. Apart(Where, arrived) /\ OneEach(heap)
  BY DEF ConserveInv
<1>7. x \notin IdsOf(heap)
  BY <1>4, <1>5, <1>6, WhereIs, IdsAre DEF Apart
<1>8. IdsOf(heap') = IdsOf(heap) \cup {x} /\ OneEach(heap')
  BY <1>1, <1>2, <1>6, <1>7, HeapIds
<1>9. IdsAt(HeapSpot)' = IdsAt(HeapSpot) \cup {x}
  BY <1>8, IdsAre, IdsBecome
<1>10. ASSUME NEW l \in Spot, l # HandSpot, l # HeapSpot PROVE IdsAt(l)' = IdsAt(l)
  BY <1>1, <1>10, SpotsAre, IdsAre, IdsBecome
<1>11. Apart(Where', arrived')
  BY <1>1, <1>4, <1>5, <1>6, <1>9, <1>10, StepMoves
<1>. QED
  BY <1>1, <1>8, <1>11 DEF ConserveInv

LEMMA PopConserves ==
  ASSUME OrderTypes, IdleInv, ConserveInv, NEW w \in Workers, PopTask(w)
  PROVE  ConserveInv'
<1>1. PICK t \in heap : heap' = heap \ {t} /\ task' = [task EXCEPT ![w] = t]
  BY DEF PopTask, Earliest
<1>2. /\ arrived' = arrived /\ inQueue' = inQueue /\ inHand' = inHand
      /\ sent' = sent /\ drops' = drops /\ pc[w] = "pop"
  BY DEF PopTask, dispatchVars
<1>3. /\ heap \subseteq Task /\ t \in Task /\ task[w] = NoTask /\ task'[w] = t
      /\ \A v \in Workers \ {w} : task'[v] = task[v]
  BY <1>1, <1>2 DEF OrderTypes, IdleInv
<1>4. PICK x : x = t.id
  OBVIOUS
<1>5. IdOf(task[w]) = {} /\ IdOf(task'[w]) = {x}
  BY <1>3, <1>4, IdOfIs
<1>6. Apart(Where, arrived) /\ OneEach(heap)
  BY DEF ConserveInv
<1>7. x \in IdsOf(heap) /\ IdsOf(heap') = IdsOf(heap) \ {x} /\ OneEach(heap')
  BY <1>1, <1>3, <1>4, <1>6, HeapIds
<1>8. /\ x \in IdsAt(HeapSpot) /\ IdsAt(HeapSpot)' = IdsAt(HeapSpot) \ {x}
      /\ IdsAt(WorkerSpot(w))' = IdsAt(WorkerSpot(w)) \cup {x}
  BY <1>5, <1>7, IdsAre, IdsBecome
<1>9. HeapSpot \in Spot /\ WorkerSpot(w) \in Spot /\ HeapSpot # WorkerSpot(w)
  BY SpotsAre, SpotsDiffer
<1>10. ASSUME NEW l \in Spot, l # HeapSpot, l # WorkerSpot(w) PROVE IdsAt(l)' = IdsAt(l)
  BY <1>2, <1>3, <1>10, SpotsAre, IdsAre, IdsBecome
<1>11. Apart(Where', arrived')
  BY <1>2, <1>6, <1>8, <1>9, <1>10, StepMoves
<1>. QED
  BY <1>2, <1>7, <1>11 DEF ConserveInv

\* A packet that is forwarded leaves the hands of its worker, sent or counted as dropped.
LEMMA ForwardConserves ==
  ASSUME OrderTypes, ConserveInv, NEW w \in Workers, Forward(w)
  PROVE  ConserveInv'
<1>1. PICK x : x = task[w].id
  OBVIOUS
<1>2. /\ task' = [task EXCEPT ![w] = NoTask] /\ pc[w] = "process"
      /\ arrived' = arrived /\ inQueue' = inQueue /\ inHand' = inHand /\ heap' = heap
      /\ \/ sent' = sent \cup {x} /\ drops' = drops
         \/ drops' = drops \cup {x} /\ sent' = sent
  BY <1>1 DEF Forward, dispatchVars
<1>3. /\ task[w] \in Task /\ task'[w] = NoTask
      /\ \A v \in Workers \ {w} : task'[v] = task[v]
  BY <1>2 DEF OrderTypes
<1>4. IdOf(task[w]) = {x} /\ IdOf(task'[w]) = {}
  BY <1>1, <1>3, IdOfIs
<1>5. x \in IdsAt(WorkerSpot(w)) /\ IdsAt(WorkerSpot(w))' = IdsAt(WorkerSpot(w)) \ {x}
  BY <1>4, IdsAre, IdsBecome
<1>6. PICK b \in {SentSpot, DropSpot} :
        /\ IdsAt(b)' = IdsAt(b) \cup {x}
        /\ \A c \in {SentSpot, DropSpot} : c # b => IdsAt(c)' = IdsAt(c)
  BY <1>2, IdsAre, IdsBecome
<1>7. WorkerSpot(w) \in Spot /\ b \in Spot /\ WorkerSpot(w) # b
  BY SpotsAre, SpotsDiffer
<1>8. ASSUME NEW l \in Spot, l # WorkerSpot(w), l # b PROVE IdsAt(l)' = IdsAt(l)
  BY <1>2, <1>3, <1>6, <1>8, SpotsAre, IdsAre, IdsBecome
<1>9. Apart(Where, arrived)
  BY DEF ConserveInv
<1>10. Apart(Where', arrived')
  BY <1>2, <1>5, <1>6, <1>7, <1>8, <1>9, StepMoves
<1>. QED
  BY <1>2, <1>10 DEF ConserveInv

LEMMA ConserveInitially == Init => ConserveInv
<1>. SUFFICES ASSUME Init PROVE ConserveInv
  OBVIOUS
<1>1. /\ arrived = 0 /\ inQueue = [p \in Priority |-> <<>>] /\ heap = {}
      /\ task = [w \in Workers |-> NoTask] /\ inHand = NoTask /\ sent = {} /\ drops = {}
  BY DEF Init
<1>2. IdsOf({}) = {} /\ IdsOf(Range(<<>>)) = {} /\ IdOf(NoTask) = {}
  BY IdOfIs DEF IdsOf, Range
<1>3. ASSUME NEW l \in Spot PROVE Where[l] = {}
  BY <1>1, <1>2, SpotsAre, IdsAre, WhereIs
<1>4. Apart(Where, 0)
  BY <1>3 DEF Apart
<1>5. (\A p \in Priority : Rising(inQueue[p])) /\ OneEach(heap)
  BY <1>1 DEF Rising, OneEach
<1>. QED
  BY <1>1, <1>4, <1>5 DEF ConserveInv

LEMMA StepConserves == OrderTypes /\ IdleInv /\ ConserveInv /\ [Next]_vars => ConserveInv'
<1>. SUFFICES ASSUME OrderTypes, IdleInv, ConserveInv, [Next]_vars
              PROVE  ConserveInv'
  OBVIOUS
<1>1. CASE \E p \in Priority : Arrive(p)
  BY <1>1, ArriveConserves
<1>2. CASE Stop \/ UNCHANGED vars
  BY <1>2, StillConserved DEF Stop, vars, workerVars, dispatchVars
<1>3. CASE Dispatcher
  <2>1. CASE DispatchTop \/ ScanEmpty \/ NotifyOne \/ WakeAll
    BY <2>1, StillConserved DEF DispatchTop, ScanEmpty, NotifyOne, WakeAll, workerVars
  <2>2. CASE \E p \in Priority : ScanReceive(p)
    BY <2>2, ReceiveConserves
  <2>. QED
    BY <1>3, <2>1, <2>2, PushConserves DEF Dispatcher
<1>4. CASE \E w \in Workers : Worker(w)
  <2>1. PICK w \in Workers : Worker(w)
    BY <1>4
  <2>2. CASE PopEmpty(w) \/ CheckStopped(w) \/ CheckRunning(w) \/ Park(w)
    BY <2>2, StillConserved DEF PopEmpty, CheckStopped, CheckRunning, Park, dispatchVars
  <2>. QED
    BY <2>1, <2>2, PopConserves, ForwardConserves DEF Worker
<1>. QED
  BY <1>1, <1>2, <1>3, <1>4 DEF Next

\* Where a packet is, as the property puts it.
LEMMA ApartAreLocated ==
  ASSUME Apart(Where, arrived)
  PROVE  Places(Located, 0 .. arrived - 1)
<1>1. PICK at : at = Where
  OBVIOUS
<1>2. Apart(at, arrived)
  BY <1>1
<1>3. \A x : x \in Located <=> \E l \in Spot : \E i \in at[l] : x = <<i, l>>
  BY <1>1, WhereIs DEF Located
<1>4. \A x \in Located : x[2] \in Spot /\ x[1] \in at[x[2]] /\ x = <<x[1], x[2]>>
  BY <1>3
<1>5. ASSUME NEW x \in Located, NEW y \in Located, x[1] = y[1] PROVE x = y
  <2>1. /\ x[2] \in Spot /\ x[1] \in at[x[2]] /\ x = <<x[1], x[2]>>
        /\ y[2] \in Spot /\ y[1] \in at[y[2]] /\ y = <<y[1], y[2]>>
    BY <1>4
  <2>2. x[2] = y[2]
    BY <1>2, <1>5, <2>1 DEF Apart
  <2>. QED
    BY <1>5, <2>1, <2>2
<1>6. \A x \in Located : x[1] \in 0 .. arrived - 1
  BY <1>2, <1>4 DEF Apart
<1>7. ASSUME NEW i \in 0 .. arrived - 1 PROVE \E x \in Located : x[1] = i
  <2>1. PICK l \in Spot : i \in at[l]
    BY <1>2 DEF Apart
  <2>2. <<i, l>> \in Located /\ <<i, l>>[1] = i
    BY <1>3, <2>1
  <2>. QED
    BY <2>2
<1>. QED
  BY <1>5, <1>6, <1>7 DEF Places

(***************************************************************************)
(* Between the input channels, the shared heap and the workers of gedf.rs  *)
(* and gedf_vd.rs no packet is lost and none is processed twice: each one  *)
(* that arrived is in exactly one place, and there once.                   *)
(***************************************************************************)
THEOREM TasksAreConserved == Spec => []TasksConserved
<1>1. ConserveInv => TasksConserved
  BY ApartAreLocated DEF ConserveInv, TasksConserved, Rising, OneEach
<1>2. Init => OrderInv /\ IdleInv /\ ConserveInv
  BY OrderInitially, IdleInitially, ConserveInitially
<1>3. OrderInv /\ IdleInv /\ ConserveInv /\ [Next]_vars => (OrderInv /\ IdleInv /\ ConserveInv)'
  BY StepKeepsOrder, StepKeepsIdle, StepConserves DEF OrderInv
<1>. QED
  BY <1>1, <1>2, <1>3, PTL DEF Spec

=============================================================================
