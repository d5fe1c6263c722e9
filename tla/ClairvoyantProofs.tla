-------------------------- MODULE ClairvoyantProofs --------------------------
(***************************************************************************)
(* Theorems of the clairvoyant scheduler, for any number of workers, any   *)
(* budgets, processing times, guard windows and traffic.  What a worker    *)
(* and the dispatcher hold fits the place where they are; on that rest the *)
(* accounts of the work done, of the queues that were read, of the         *)
(* latencies measured and of the packets.                                  *)
(***************************************************************************)
EXTENDS ClairvoyantEDF, FiniteSetTheorems, WellFoundedInduction, TLAPS

Packet == [id : Nat, ts : Nat]
QueuedTask ==
  [id : Nat, of : Priority, ts : Nat, slack : Nat, est : Nat, worked : Nat]

Held == {"guard", "process"}
\* Where the dispatcher has a task in hand.
Placing == {"estimate", "measure", "push"}
Places4 == {"top", "done"} \cup Held

SharedTypes ==
  /\ arrived \in Nat
  /\ coming \in Seq(Priority)
  /\ clock \in Nat
  /\ inQueue \in [Priority -> Seq(Packet)]
  /\ heap \in [Worker -> SUBSET QueuedTask]

DispatchTypes ==
  /\ dispatchPc \in {"top", "drain", "done"} \cup Placing
  /\ passTime \in Nat
  /\ IF dispatchPc \in Placing
     THEN inHand \in QueuedTask /\ inHand.worked + inHand.est = Need[inHand.of]
     ELSE inHand = NoTask

\* What a worker holds, and how much of it is done.
WorkerTypes ==
  /\ pc \in [Worker -> Places4]
  /\ task \in [Worker -> QueuedTask \cup {NoTask}]
  /\ left \in [Worker -> Nat]
  /\ \A w \in Worker :
       IF pc[w] \in Held
       THEN /\ task[w] \in QueuedTask
            /\ pc[w] = "guard" => task[w].worked + task[w].est = Need[task[w].of]
            /\ pc[w] = "process" => task[w].worked + left[w] = Need[task[w].of]
       ELSE task[w] = NoTask
  /\ \A w \in Worker : finalPriority[w] = task[w].of
  /\ finalPriority \in [Worker -> Priority \cup {"none"}]

HeapWork == \A w \in Worker : \A t \in heap[w] : t.worked + t.est = Need[t.of]

WorkInv == SharedTypes /\ DispatchTypes /\ WorkerTypes /\ HeapWork

LEMMA NoneIsNoPriority == "none" \notin Priority
<1>1. Priority \subseteq {AllPriorities[i] : i \in 1 .. 4}
  BY ClairvoyantAssumption
<1>2. \A i \in 1 .. 4 : AllPriorities[i] # "none"
  BY DEF AllPriorities
<1>. QED
  BY <1>1, <1>2

LEMMA NoTaskIsNone == NoTask \notin QueuedTask /\ NoTask.of = "none" /\ NoTask.id = -1
BY DEF NoTask, QueuedTask

LEMMA MinusIsNatural ==
  ASSUME NEW a \in Nat, NEW b \in Nat
  PROVE  Minus(a, b) \in Nat
BY DEF Minus

\* A task made of a packet has all its work to do.
LEMMA NewTaskIs ==
  ASSUME NEW p \in Priority, NEW x \in Packet, NEW t \in Nat
  PROVE  /\ NewTask(p, x, t) \in QueuedTask
         /\ NewTask(p, x, t).id = x.id /\ NewTask(p, x, t).of = p
         /\ NewTask(p, x, t).ts = x.ts
         /\ NewTask(p, x, t).est = Need[p] /\ NewTask(p, x, t).worked = 0
<1>1. x.id \in Nat /\ x.ts \in Nat /\ Budget[p] \in Nat /\ Need[p] \in Nat
  BY ClairvoyantAssumption DEF Packet
<1>2. Minus(x.ts + Budget[p], t + Need[p]) \in Nat
  <2>1. x.ts + Budget[p] \in Nat /\ t + Need[p] \in Nat
    BY <1>1
  <2>. QED
    BY <2>1, MinusIsNatural
<1>. QED
  BY <1>1, <1>2 DEF NewTask, Task, QueuedTask

\* What is put back is the task in hand, with what is left to do.
LEMMA PutBackIs ==
  ASSUME NEW w \in Worker, task[w] \in QueuedTask, left[w] \in Nat
  PROVE  /\ PutBack(w) \in QueuedTask
         /\ PutBack(w).id = task[w].id /\ PutBack(w).of = task[w].of
         /\ PutBack(w).est = left[w] /\ PutBack(w).worked = task[w].worked
BY DEF PutBack, Task, QueuedTask

LEMMA WorkedIs ==
  ASSUME NEW t \in QueuedTask
  PROVE  /\ Worked(t) \in QueuedTask
         /\ Worked(t).id = t.id /\ Worked(t).of = t.of
         /\ Worked(t).est = t.est /\ Worked(t).worked = t.worked + 1
BY DEF Worked, Task, QueuedTask

LEMMA IntruderIs ==
  ASSUME NEW q, NEW p \in Intruder(q)
  PROVE  p \in Priority /\ inQueue[p] # <<>>
<1>1. p \in {"High", "Medium"} /\ inQueue[p] # <<>>
  BY DEF Intruder, Above
<1>. QED
  BY <1>1, ClairvoyantAssumption

LEMMA HeadIs ==
  ASSUME NEW s \in Seq(Packet), s # <<>>
  PROVE  Head(s) \in Packet /\ Tail(s) \in Seq(Packet)
OBVIOUS

LEMMA WorkInitially == Init => WorkInv
<1>. SUFFICES ASSUME Init PROVE WorkInv
  OBVIOUS
<1>1. SharedTypes
  BY ClairvoyantAssumption DEF Init, SharedTypes, Packet
<1>2. DispatchTypes
  BY DEF Init, DispatchTypes, Placing
<1>3. WorkerTypes
  BY DEF Init, WorkerTypes, Places4, Held, NoTask
<1>4. HeapWork
  BY DEF Init, HeapWork
<1>. QED
  BY <1>1, <1>2, <1>3, <1>4 DEF WorkInv


(***************************************************************************)
(* The steps of the dispatcher, of time and of arrivals.                   *)
(***************************************************************************)
LEMMA ArriveKeepsWork ==
  ASSUME WorkInv, NEW p \in Priority, Arrive(p)
  PROVE  WorkInv'
<1>1. /\ UNCHANGED <<clock, heap>> /\ UNCHANGED dispatchVars /\ UNCHANGED workerVars
      /\ arrived' = arrived + 1 /\ coming' = Tail(coming) /\ coming # <<>>
  BY DEF Arrive, queueVars
<1>2. PICK e : e = [id |-> arrived, ts |-> clock] /\ inQueue' = [inQueue EXCEPT ![p] = Append(@, e)]
  BY DEF Arrive
<1>3. e \in Packet
  BY <1>2 DEF WorkInv, SharedTypes, Packet
<1>4. SharedTypes'
  BY <1>1, <1>2, <1>3 DEF WorkInv, SharedTypes
<1>5. DispatchTypes'
  BY <1>1 DEF WorkInv, DispatchTypes, dispatchVars
<1>6. WorkerTypes' /\ HeapWork'
  BY <1>1 DEF WorkInv, WorkerTypes, HeapWork, workerVars
<1>. QED
  BY <1>4, <1>5, <1>6 DEF WorkInv

LEMMA TickKeepsWork ==
  ASSUME WorkInv, Tick
  PROVE  WorkInv'
<1>1. /\ UNCHANGED <<arrived, coming, inQueue, heap, pc, finalPriority>> /\ UNCHANGED dispatchVars
      /\ clock' = Least(clock + 1, MaxTime)
      /\ left' = [w \in Worker |-> Minus(left[w], 1)]
      /\ task' = [w \in Worker |->
                    IF pc[w] = "process" /\ left[w] > 0 THEN Worked(task[w]) ELSE task[w]]
  BY DEF Tick, queueVars
<1>2. clock' \in Nat
  BY <1>1, ClairvoyantAssumption DEF WorkInv, SharedTypes, Least
<1>3. SharedTypes'
  BY <1>1, <1>2 DEF WorkInv, SharedTypes
<1>4. DispatchTypes'
  BY <1>1 DEF WorkInv, DispatchTypes, dispatchVars
<1>5. HeapWork'
  BY <1>1 DEF WorkInv, HeapWork
<1>6. ASSUME NEW w \in Worker
      PROVE  /\ left'[w] \in Nat /\ task'[w] \in QueuedTask \cup {NoTask}
             /\ task'[w].of = task[w].of
             /\ pc[w] \notin Held => task'[w] = NoTask
             /\ pc[w] \in Held => task'[w] \in QueuedTask
             /\ pc[w] = "guard" => task'[w] = task[w]
             /\ pc[w] = "process" => task'[w].worked + left'[w] = Need[task'[w].of]
  <2>1. left[w] \in Nat /\ left'[w] = Minus(left[w], 1)
    BY <1>1 DEF WorkInv, WorkerTypes
  <2>2. left'[w] \in Nat /\ left'[w] = IF left[w] > 0 THEN left[w] - 1 ELSE left[w]
    BY <2>1 DEF Minus
  <2>3. CASE pc[w] = "process" /\ left[w] > 0
    <3>1. task[w] \in QueuedTask /\ task[w].worked + left[w] = Need[task[w].of]
      BY <2>3 DEF WorkInv, WorkerTypes, Held
    <3>2. task'[w] = Worked(task[w])
      BY <1>1, <2>3
    <3>3. task[w].worked \in Nat
      BY <3>1 DEF QueuedTask
    <3>4. /\ task'[w] \in QueuedTask /\ task'[w].of = task[w].of
          /\ task'[w].worked = task[w].worked + 1
      BY <3>1, <3>2, WorkedIs
    <3>. QED
      BY <2>1, <2>2, <2>3, <3>1, <3>3, <3>4 DEF Held
  <2>4. CASE ~(pc[w] = "process" /\ left[w] > 0)
    <3>1. task'[w] = task[w]
      BY <1>1, <2>4
    <3>. QED
      BY <2>1, <2>2, <2>4, <3>1 DEF WorkInv, WorkerTypes, Held
  <2>. QED
    BY <2>3, <2>4
<1>7. left' \in [Worker -> Nat] /\ task' \in [Worker -> QueuedTask \cup {NoTask}]
  BY <1>1, <1>6
<1>8. WorkerTypes'
  BY <1>1, <1>6, <1>7 DEF WorkInv, WorkerTypes, Held
<1>. QED
  BY <1>3, <1>4, <1>5, <1>8 DEF WorkInv

LEMMA ReceiveKeepsWork ==
  ASSUME WorkInv, NEW p \in Priority, ReceiveNext(p)
  PROVE  WorkInv'
<1>1. /\ UNCHANGED <<arrived, coming, clock, heap, passTime>> /\ UNCHANGED workerVars
      /\ inHand' = NewTask(p, Head(inQueue[p]), passTime)
      /\ inQueue' = [inQueue EXCEPT ![p] = Tail(@)]
      /\ dispatchPc' = "estimate"
      /\ p \in Chosen
  BY DEF ReceiveNext, queueVars
<1>2. inQueue[p] # <<>>
  BY <1>1 DEF Chosen
<1>3. inQueue[p] \in Seq(Packet) /\ passTime \in Nat
  BY DEF WorkInv, SharedTypes, DispatchTypes
<1>4. Head(inQueue[p]) \in Packet /\ Tail(inQueue[p]) \in Seq(Packet)
  BY <1>2, <1>3, HeadIs
<1>5. SharedTypes'
  BY <1>1, <1>4 DEF WorkInv, SharedTypes
<1>6. /\ inHand' \in QueuedTask /\ inHand'.of = p /\ inHand'.worked = 0
      /\ inHand'.est = Need[p] /\ Need[p] \in Nat
  <2>1. /\ inHand' \in QueuedTask /\ inHand'.of = p /\ inHand'.worked = 0
        /\ inHand'.est = Need[p]
    BY <1>1, <1>3, <1>4, NewTaskIs
  <2>2. Need[p] \in Nat
    BY ClairvoyantAssumption
  <2>. QED
    BY <2>1, <2>2
<1>7. DispatchTypes'
  BY <1>1, <1>3, <1>6 DEF DispatchTypes, Placing
<1>8. WorkerTypes' /\ HeapWork'
  BY <1>1 DEF WorkInv, WorkerTypes, HeapWork, workerVars
<1>. QED
  BY <1>5, <1>7, <1>8 DEF WorkInv

LEMMA PlaceKeepsWork ==
  ASSUME WorkInv, Place, best \in Worker
  PROVE  WorkInv'
<1>1. /\ UNCHANGED <<arrived, coming, clock, inQueue>> /\ UNCHANGED workerVars
      /\ heap' = [heap EXCEPT ![best] = @ \cup {inHand}]
      /\ dispatchPc = "push" /\ dispatchPc' \in {"drain", "top"}
      /\ passTime' \in {passTime, 0} /\ inHand' = NoTask
  BY DEF Place, Enqueue
<1>2. inHand \in QueuedTask /\ inHand.worked + inHand.est = Need[inHand.of] /\ passTime \in Nat
  BY <1>1 DEF WorkInv, DispatchTypes
<1>3. SharedTypes' /\ HeapWork'
  BY <1>1, <1>2 DEF WorkInv, SharedTypes, HeapWork
<1>4. DispatchTypes'
  BY <1>1, <1>2 DEF DispatchTypes, Placing
<1>5. WorkerTypes'
  BY <1>1 DEF WorkInv, WorkerTypes, workerVars
<1>. QED
  BY <1>3, <1>4, <1>5 DEF WorkInv

\* The steps that take up no task and let go of none.
LEMMA OthersKeepWork ==
  ASSUME WorkInv, UNCHANGED <<arrived, coming, clock, inQueue, heap, inHand>>,
         UNCHANGED workerVars, passTime' \in Nat,
         dispatchPc' \in {"top", "drain", "done"} \cup Placing,
         dispatchPc \in Placing <=> dispatchPc' \in Placing
  PROVE  WorkInv'
<1>1. SharedTypes' /\ HeapWork'
  BY DEF WorkInv, SharedTypes, HeapWork
<1>2. DispatchTypes'
  BY DEF WorkInv, DispatchTypes
<1>3. WorkerTypes'
  BY DEF WorkInv, WorkerTypes, workerVars
<1>. QED
  BY <1>1, <1>2, <1>3 DEF WorkInv


\* A task that fits the place l of a worker with n left of it.
Fits(l, t, n) ==
  IF l \in Held
  THEN /\ t \in QueuedTask
       /\ l = "guard" => t.worked + t.est = Need[t.of]
       /\ l = "process" => t.worked + n = Need[t.of]
  ELSE t = NoTask

\* Whatever a worker does to its own heap and hands, as long as it fits.
LEMMA WorkerMoves ==
  ASSUME WorkInv, NEW w \in Worker, NEW H \in SUBSET QueuedTask, NEW t, NEW l \in Places4,
         NEW n \in Nat, NEW q \in [Priority -> Seq(Packet)],
         \A u \in H : u.worked + u.est = Need[u.of],
         Fits(l, t, n),
         UNCHANGED <<arrived, coming, clock, dispatchVars>>,
         inQueue' = q, heap' = [heap EXCEPT ![w] = H], task' = [task EXCEPT ![w] = t],
         pc' = [pc EXCEPT ![w] = l], left' = [left EXCEPT ![w] = n],
         finalPriority' = [finalPriority EXCEPT ![w] = t.of]
  PROVE  WorkInv'
<1>1. SharedTypes' /\ HeapWork'
  BY DEF WorkInv, SharedTypes, HeapWork
<1>2. DispatchTypes'
  BY DEF WorkInv, DispatchTypes, dispatchVars
<1>3. t \in QueuedTask \cup {NoTask} /\ t.of \in Priority \cup {"none"}
  BY NoTaskIsNone DEF Fits, QueuedTask
<1>4. /\ pc' \in [Worker -> Places4] /\ task' \in [Worker -> QueuedTask \cup {NoTask}]
      /\ left' \in [Worker -> Nat] /\ finalPriority' \in [Worker -> Priority \cup {"none"}]
  BY <1>3 DEF WorkInv, WorkerTypes
<1>5. ASSUME NEW v \in Worker
      PROVE  /\ Fits(pc'[v], task'[v], left'[v])
             /\ finalPriority'[v] = task'[v].of
  <2>1. CASE v = w
    BY <2>1 DEF WorkInv, WorkerTypes
  <2>2. CASE v # w
    <3>1. /\ pc'[v] = pc[v] /\ task'[v] = task[v] /\ left'[v] = left[v]
          /\ finalPriority'[v] = finalPriority[v]
      BY <2>2 DEF WorkInv, WorkerTypes
    <3>2. Fits(pc[v], task[v], left[v]) /\ finalPriority[v] = task[v].of
      BY DEF WorkInv, WorkerTypes, Fits
    <3>. QED
      BY <3>1, <3>2
  <2>. QED
    BY <2>1, <2>2
<1>6. WorkerTypes'
  BY <1>4, <1>5 DEF WorkerTypes, Fits
<1>. QED
  BY <1>1, <1>2, <1>6 DEF WorkInv

LEMMA SameEntry ==
  ASSUME NEW S, NEW T, NEW f \in [S -> T], NEW x \in S
  PROVE  f = [f EXCEPT ![x] = f[x]]
OBVIOUS

LEMMA ThresholdIsNatural ==
  ASSUME WorkInv, maximum \in [Tracked -> Nat], NEW t \in QueuedTask
  PROVE  GuardThreshold(t) \in Nat
<1>1. Budget[t.of] \in Nat /\ Need[t.of] \in Nat /\ t.ts \in Nat /\ clock \in Nat
  BY ClairvoyantAssumption DEF QueuedTask, WorkInv, SharedTypes
<1>2. Minus(clock, t.ts) \in Nat
  BY <1>1, MinusIsNatural
<1>3. Remaining(t) \in Nat
  BY <1>1, <1>2, MinusIsNatural DEF Remaining
<1>4. Margin(t) \in Nat
  BY <1>1 DEF Margin
<1>5. Minus(Remaining(t), Margin(t)) \in Nat
  BY <1>3, <1>4, MinusIsNatural
<1>6. CASE t.of \in Tracked /\ maximum[t.of] > 0 /\ maximum[t.of] < Budget[t.of]
  <2>1. Budget[t.of] - maximum[t.of] \in Nat /\ GuardCap[t.of] \in Nat
    BY <1>1, <1>6, ClairvoyantAssumption DEF Tracked
  <2>2. PICK a \in Nat, b \in Nat, c \in Nat :
          /\ a = Budget[t.of] - maximum[t.of] /\ b = Minus(Remaining(t), Margin(t))
          /\ c = GuardCap[t.of]
    BY <1>5, <2>1
  <2>3. Least(Least(a, b), c) \in Nat
    BY DEF Least
  <2>. QED
    BY <1>6, <2>2, <2>3 DEF GuardThreshold
<1>7. CASE ~(t.of \in Tracked /\ maximum[t.of] > 0 /\ maximum[t.of] < Budget[t.of])
  BY <1>7 DEF GuardThreshold
<1>. QED
  BY <1>6, <1>7

LEMMA PopKeepsWork ==
  ASSUME WorkInv, maximum \in [Tracked -> Nat], NEW w \in Worker, Pop(w)
  PROVE  WorkInv'
<1>1. PICK t \in heap[w] :
        /\ heap' = [heap EXCEPT ![w] = @ \ {t}]
        /\ task' = [task EXCEPT ![w] = t]
        /\ finalPriority' = [finalPriority EXCEPT ![w] = t.of]
        /\ \/ /\ GuardThreshold(t) > 0
              /\ left' = [left EXCEPT ![w] = GuardThreshold(t)]
              /\ pc' = [pc EXCEPT ![w] = "guard"]
           \/ /\ left' = [left EXCEPT ![w] = t.est]
              /\ pc' = [pc EXCEPT ![w] = "process"]
  BY DEF Pop, Urgent, StartWork
<1>2. UNCHANGED <<arrived, coming, clock, dispatchVars, inQueue>>
  BY DEF Pop
<1>3. /\ t \in QueuedTask /\ t.worked + t.est = Need[t.of] /\ heap[w] \in SUBSET QueuedTask
      /\ \A u \in heap[w] : u.worked + u.est = Need[u.of]
      /\ inQueue' \in [Priority -> Seq(Packet)]
  BY <1>2 DEF WorkInv, SharedTypes, HeapWork
<1>. DEFINE H == heap[w] \ {t}
<1>4. /\ H \in SUBSET QueuedTask /\ heap' = [heap EXCEPT ![w] = H]
      /\ \A u \in H : u.worked + u.est = Need[u.of]
  BY <1>1, <1>3
<1>. HIDE DEF H
<1>5. PICK g \in Nat : g = GuardThreshold(t)
  BY <1>3, ThresholdIsNatural
<1>6. t.est \in Nat /\ Fits("process", t, t.est) /\ Fits("guard", t, g)
  BY <1>3 DEF Fits, Held, QueuedTask
<1>7. "process" \in Places4 /\ "guard" \in Places4
  BY DEF Places4, Held
<1>8. CASE pc' = [pc EXCEPT ![w] = "guard"] /\ left' = [left EXCEPT ![w] = g]
  BY <1>1, <1>2, <1>3, <1>4, <1>6, <1>7, <1>8, WorkerMoves
<1>9. CASE pc' = [pc EXCEPT ![w] = "process"] /\ left' = [left EXCEPT ![w] = t.est]
  BY <1>1, <1>2, <1>3, <1>4, <1>6, <1>7, <1>9, WorkerMoves
<1>. QED
  BY <1>1, <1>5, <1>8, <1>9

LEMMA WorkerExitKeepsWork ==
  ASSUME WorkInv, NEW w \in Worker, WorkerExit(w)
  PROVE  WorkInv'
<1>1. /\ UNCHANGED <<arrived, coming, clock, dispatchVars, inQueue, heap, task, finalPriority, left>>
      /\ pc[w] = "top" /\ pc' = [pc EXCEPT ![w] = "done"]
  BY DEF WorkerExit, queueVars
<1>2. SharedTypes' /\ HeapWork' /\ DispatchTypes'
  BY <1>1 DEF WorkInv, SharedTypes, HeapWork, DispatchTypes, dispatchVars
<1>3. WorkerTypes'
  BY <1>1 DEF WorkInv, WorkerTypes, Places4, Held
<1>. QED
  BY <1>2, <1>3 DEF WorkInv

\* Putting a task back and taking a packet instead; n is left of that.
LEMMA ReplaceKeepsWork ==
  ASSUME WorkInv, NEW w \in Worker, NEW q, NEW p \in Intruder(q), NEW t \in QueuedTask,
         t.worked + t.est = Need[t.of],
         Replace(w, p, t),
         left' = [left EXCEPT ![w] = Need[p]],
         pc' = [pc EXCEPT ![w] = "process"],
         UNCHANGED <<arrived, coming, clock, dispatchVars>>
  PROVE  WorkInv'
<1>1. /\ heap' = [heap EXCEPT ![w] = @ \cup {t}]
      /\ task' = [task EXCEPT ![w] = NewTask(p, Head(inQueue[p]), clock)]
      /\ inQueue' = [inQueue EXCEPT ![p] = Tail(@)]
      /\ finalPriority' = [finalPriority EXCEPT ![w] = p]
  BY DEF Replace, Enqueue
<1>2. p \in Priority /\ inQueue[p] # <<>>
  BY IntruderIs
<1>3. inQueue[p] \in Seq(Packet) /\ clock \in Nat
  BY <1>2 DEF WorkInv, SharedTypes
<1>4. Head(inQueue[p]) \in Packet /\ Tail(inQueue[p]) \in Seq(Packet)
  BY <1>2, <1>3, HeadIs
<1>5. PICK n : n = NewTask(p, Head(inQueue[p]), clock)
  OBVIOUS
<1>6. n \in QueuedTask /\ n.of = p /\ n.worked = 0 /\ Need[p] \in Nat
  <2>1. n \in QueuedTask /\ n.of = p /\ n.worked = 0
    BY <1>2, <1>3, <1>4, <1>5, NewTaskIs
  <2>2. Need[p] \in Nat
    BY <1>2, ClairvoyantAssumption
  <2>. QED
    BY <2>1, <2>2
<1>7. Fits("process", n, Need[p])
  BY <1>6 DEF Fits, Held
<1>. DEFINE H == heap[w] \cup {t}
<1>8. /\ H \in SUBSET QueuedTask /\ heap' = [heap EXCEPT ![w] = H]
      /\ \A u \in H : u.worked + u.est = Need[u.of]
  BY <1>1 DEF WorkInv, SharedTypes, HeapWork
<1>. HIDE DEF H
<1>9. inQueue' \in [Priority -> Seq(Packet)]
  BY <1>1, <1>4 DEF WorkInv, SharedTypes
<1>10. "process" \in Places4
  BY DEF Places4, Held
<1>11. task' = [task EXCEPT ![w] = n] /\ finalPriority' = [finalPriority EXCEPT ![w] = n.of]
  BY <1>1, <1>5, <1>6
<1>. QED
  BY <1>6, <1>7, <1>8, <1>9, <1>10, <1>11, WorkerMoves

LEMMA GuardTakeKeepsWork ==
  ASSUME WorkInv, NEW w \in Worker, GuardTake(w)
  PROVE  WorkInv'
<1>1. PICK p \in Intruder(task[w].of) :
        /\ Replace(w, p, task[w])
        /\ pc' = [pc EXCEPT ![w] = "process"]
        /\ left' = [left EXCEPT ![w] = NewTask(p, Head(inQueue[p]), clock).est]
  BY DEF GuardTake, StartWork
<1>2. pc[w] = "guard" /\ UNCHANGED <<arrived, coming, clock, dispatchVars>>
  BY DEF GuardTake
<1>3. task[w] \in QueuedTask /\ task[w].worked + task[w].est = Need[task[w].of]
  BY <1>2 DEF WorkInv, WorkerTypes, Held
<1>4. left' = [left EXCEPT ![w] = Need[p]]
  BY <1>1 DEF NewTask, Task
<1>. QED
  BY <1>1, <1>2, <1>3, <1>4, ReplaceKeepsWork

LEMMA GuardEndKeepsWork ==
  ASSUME WorkInv, NEW w \in Worker, GuardEnd(w)
  PROVE  WorkInv'
<1>1. /\ pc[w] = "guard" /\ pc' = [pc EXCEPT ![w] = "process"]
      /\ left' = [left EXCEPT ![w] = task[w].est]
      /\ UNCHANGED <<arrived, coming, clock, dispatchVars, inQueue, heap, task, finalPriority>>
  BY DEF GuardEnd, StartWork, queueVars
<1>2. /\ task[w] \in QueuedTask /\ task[w].worked + task[w].est = Need[task[w].of]
      /\ task[w].est \in Nat
  BY <1>1 DEF WorkInv, WorkerTypes, Held, QueuedTask
<1>3. SharedTypes' /\ HeapWork' /\ DispatchTypes'
  BY <1>1 DEF WorkInv, SharedTypes, HeapWork, DispatchTypes, dispatchVars
<1>4. WorkerTypes'
  BY <1>1, <1>2 DEF WorkInv, WorkerTypes, Places4, Held
<1>. QED
  BY <1>3, <1>4 DEF WorkInv

LEMMA PreemptKeepsWork ==
  ASSUME WorkInv, NEW w \in Worker, Preempt(w)
  PROVE  WorkInv'
<1>1. PICK p \in Intruder(original[w].of) :
        /\ Replace(w, p, PutBack(w))
        /\ left' = [left EXCEPT ![w] = Need[p]]
  BY DEF Preempt
<1>2. pc[w] = "process" /\ UNCHANGED <<arrived, coming, clock, dispatchVars, pc>>
  BY DEF Preempt
<1>3. /\ task[w] \in QueuedTask /\ task[w].worked + left[w] = Need[task[w].of]
      /\ left[w] \in Nat /\ pc \in [Worker -> Places4]
  BY <1>2 DEF WorkInv, WorkerTypes, Held
<1>4. PICK t \in QueuedTask : t = PutBack(w) /\ t.worked + t.est = Need[t.of]
  BY <1>3, PutBackIs
<1>5. pc' = [pc EXCEPT ![w] = "process"]
  BY <1>2, <1>3, SameEntry
<1>. QED
  BY <1>1, <1>2, <1>4, <1>5, ReplaceKeepsWork

LEMMA FinishKeepsWork ==
  ASSUME WorkInv, NEW w \in Worker, Finish(w)
  PROVE  WorkInv'
<1>1. /\ UNCHANGED <<arrived, coming, clock, dispatchVars, inQueue, heap, left>>
      /\ task' = [task EXCEPT ![w] = NoTask]
      /\ finalPriority' = [finalPriority EXCEPT ![w] = "none"]
      /\ pc' = [pc EXCEPT ![w] = "top"]
  BY DEF Finish
<1>2. SharedTypes' /\ HeapWork' /\ DispatchTypes'
  BY <1>1 DEF WorkInv, SharedTypes, HeapWork, DispatchTypes, dispatchVars
<1>3. WorkerTypes'
  BY <1>1, NoTaskIsNone DEF WorkInv, WorkerTypes, Places4, Held
<1>. QED
  BY <1>2, <1>3 DEF WorkInv


-----------------------------------------------------------------------------
(* What the dispatcher reads of the workers. *)

Reading == [completion : Nat, depth : Nat]

\* What find_best_worker has read of the queues, and what became of them since.
DepthInv ==
  /\ completion \in [Worker -> Nat]
  /\ estimate \in Nat
  /\ seen \in Seq(Reading) /\ Len(seen) <= Workers
  /\ best \in Worker
  /\ returned \in [Worker -> Nat]
  /\ dispatchPc \in {"estimate", "measure"} => Len(seen) < Workers
  /\ dispatchPc = "push" => Len(seen) = Workers
  /\ dispatchPc \notin Placing => seen = <<>>
  /\ seen # <<>> =>
       /\ best \in 1 .. Len(seen)
       /\ \A w \in 1 .. Len(seen) : Score(inHand, seen[w]) <= Score(inHand, seen[best])
  /\ \A w \in Worker : IsFiniteSet(heap[w])
  /\ \A w \in 1 .. Len(seen) : Cardinality(heap[w]) <= seen[w].depth + returned[w]

LEMMA ReadingIs ==
  ASSUME NEW e \in Nat, NEW d \in Nat, NEW r, r = [completion |-> e, depth |-> d]
  PROVE  r \in Reading /\ r.completion = e /\ r.depth = d
BY DEF Reading

\* x is t in units of m, rounded down.
Whole(x, t, m) == m * x <= t /\ t < m * x + m

LEMMA MillisIs ==
  ASSUME NEW t \in Nat
  PROVE  Millis(t) \in Int /\ Whole(Millis(t), t, Millisecond)
<1>1. Millisecond \in Nat \ {0}
  BY ClairvoyantAssumption
<1>2. ASSUME NEW m \in Nat \ {0} PROVE t \div m \in Int /\ m * (t \div m) <= t /\ t < m * (t \div m) + m
  BY <1>2
<1>. QED
  BY <1>1, <1>2 DEF Millis, Whole

\* What t would have left on a worker.
Spare(t, reading) == Minus(t.ts + Budget[t.of], reading.completion + t.est)

LEMMA SpareIsNatural ==
  ASSUME NEW t \in QueuedTask, NEW r \in Reading
  PROVE  Spare(t, r) \in Nat
<1>1. t.ts \in Nat /\ t.est \in Nat /\ t.of \in Priority /\ r.completion \in Nat
  BY DEF QueuedTask, Reading
<1>2. Budget[t.of] \in Nat
  BY <1>1, ClairvoyantAssumption
<1>3. t.ts + Budget[t.of] \in Nat /\ r.completion + t.est \in Nat
  BY <1>1, <1>2
<1>. QED
  BY <1>3, MinusIsNatural DEF Spare

LEMMA ScoreIs ==
  ASSUME NEW t \in QueuedTask, NEW r \in Reading
  PROVE  /\ Score(t, r) = Millis(Spare(t, r)) - DepthPenalty * r.depth
         /\ Score(t, r) \in Int
<1>1. Millis(Spare(t, r)) \in Int
  BY SpareIsNatural, MillisIs
<1>2. DepthPenalty * r.depth \in Int
  <2>1. r.depth \in Nat /\ DepthPenalty \in Nat
    BY ClairvoyantAssumption DEF Reading
  <2>. QED
    BY <2>1
<1>3. Score(t, r) = Millis(Spare(t, r)) - DepthPenalty * r.depth
  BY DEF Score, Spare
<1>. QED
  BY <1>1, <1>2, <1>3

LEMMA DepthInitially == Init => DepthInv
<1>. SUFFICES ASSUME Init PROVE DepthInv
  OBVIOUS
<1>1. /\ completion \in [Worker -> Nat] /\ estimate \in Nat /\ returned \in [Worker -> Nat]
      /\ \A w \in Worker : heap[w] = {}
      /\ best = 1 /\ seen = <<>> /\ dispatchPc = "top"
  BY DEF Init
<1>2. seen \in Seq(Reading) /\ Len(seen) = 0 /\ 1 .. Len(seen) = {}
  BY <1>1
<1>3. best \in Worker /\ Len(seen) <= Workers
  BY <1>1, <1>2, ClairvoyantAssumption DEF Worker
<1>4. \A w \in Worker : IsFiniteSet(heap[w])
  BY <1>1, FS_EmptySet
<1>. QED
  BY <1>1, <1>2, <1>3, <1>4 DEF DepthInv, Placing

LEMMA DepthUntouched ==
  ASSUME DepthInv, UNCHANGED <<estimate, seen, best, inHand, returned, heap>>,
         completion' \in [Worker -> Nat],
         dispatchPc' = dispatchPc \/ {dispatchPc, dispatchPc'} \cap Placing = {}
  PROVE  DepthInv'
BY DEF DepthInv, Placing

LEMMA DepthsRead ==
  ASSUME DepthInv
  PROVE  \A w \in 1 .. Len(seen) : seen[w] \in Reading /\ seen[w].depth \in Nat
<1>1. \A w \in 1 .. Len(seen) : seen[w] \in Reading
  BY DEF DepthInv
<1>2. \A x \in Reading : x.depth \in Nat
  BY DEF Reading
<1>. QED
  BY <1>1, <1>2

\* One heap, and what its worker put back: H is the heap, r the account of it.
LEMMA DepthOfOne ==
  ASSUME DepthInv, UNCHANGED <<estimate, seen, best, inHand, dispatchPc>>,
         NEW w \in Worker, NEW H, NEW r \in Nat,
         IsFiniteSet(H), heap' = [heap EXCEPT ![w] = H], returned' = [returned EXCEPT ![w] = r],
         DOMAIN heap = Worker, completion' \in [Worker -> Nat],
         w \in 1 .. Len(seen) => Cardinality(H) <= seen[w].depth + r
  PROVE  DepthInv'
<1>1. 1 .. Len(seen) \subseteq Worker
  BY ClairvoyantAssumption DEF DepthInv, Worker
<1>2. returned' \in [Worker -> Nat]
  BY DEF DepthInv
<1>3. \A v \in Worker : IsFiniteSet(heap'[v])
  BY DEF DepthInv
<1>4. ASSUME NEW v \in 1 .. Len(seen)
      PROVE  Cardinality(heap'[v]) <= seen[v].depth + returned'[v]
  <2>1. v \in Worker
    BY <1>1
  <2>2. CASE v = w
    BY <2>1, <2>2 DEF DepthInv
  <2>3. CASE v # w
    BY <2>1, <2>3 DEF DepthInv
  <2>. QED
    BY <2>2, <2>3
<1>. QED
  BY <1>2, <1>3, <1>4 DEF DepthInv

LEMMA PopKeepsDepth ==
  ASSUME WorkInv, DepthInv, NEW w \in Worker, Pop(w)
  PROVE  DepthInv'
<1>1. PICK t \in heap[w] : heap' = [heap EXCEPT ![w] = @ \ {t}]
  BY DEF Pop, Urgent
<1>2. UNCHANGED <<estimate, seen, best, inHand, dispatchPc, returned, completion>>
  BY DEF Pop, dispatchVars
<1>3. /\ IsFiniteSet(heap[w]) /\ returned \in [Worker -> Nat] /\ DOMAIN heap = Worker
      /\ completion' \in [Worker -> Nat]
  BY <1>2 DEF DepthInv, WorkInv, SharedTypes
<1>. DEFINE H == heap[w] \ {t}
<1>4. /\ IsFiniteSet(H) /\ Cardinality(H) = Cardinality(heap[w]) - 1
      /\ Cardinality(heap[w]) \in Nat
  BY <1>3, FS_RemoveElement, FS_CardinalityType
<1>5. heap' = [heap EXCEPT ![w] = H]
  BY <1>1
<1>. HIDE DEF H
<1>6. returned' = [returned EXCEPT ![w] = returned[w]] /\ returned[w] \in Nat
  BY <1>2, <1>3
<1>7. w \in 1 .. Len(seen) => Cardinality(H) <= seen[w].depth + returned[w]
  <2>. SUFFICES ASSUME w \in 1 .. Len(seen) PROVE Cardinality(H) <= seen[w].depth + returned[w]
    OBVIOUS
  <2>1. Cardinality(heap[w]) <= seen[w].depth + returned[w] /\ seen[w].depth \in Nat
    BY DepthsRead DEF DepthInv
  <2>. QED
    BY <1>4, <1>6, <2>1
<1>. QED
  BY <1>2, <1>3, <1>4, <1>5, <1>6, <1>7, DepthOfOne

LEMMA EnqueueKeepsEstimates ==
  ASSUME DepthInv, NEW w \in Worker, NEW t, t.est \in Nat, Enqueue(w, t)
  PROVE  completion' \in [Worker -> Nat]
BY DEF DepthInv, Enqueue

LEMMA ReplaceKeepsDepth ==
  ASSUME WorkInv, DepthInv, NEW w \in Worker, NEW p, NEW t \in QueuedTask, Replace(w, p, t),
         UNCHANGED <<estimate, seen, best, inHand, dispatchPc>>
  PROVE  DepthInv'
<1>1. /\ heap' = [heap EXCEPT ![w] = @ \cup {t}]
      /\ returned' = [returned EXCEPT ![w] = @ + One(w \in DOMAIN seen)]
  BY DEF Replace, Enqueue
<1>2. /\ IsFiniteSet(heap[w]) /\ returned[w] \in Nat /\ DOMAIN heap = Worker
      /\ DOMAIN seen = 1 .. Len(seen) /\ seen \in Seq(Reading)
  BY DEF DepthInv, WorkInv, SharedTypes
<1>. DEFINE H == heap[w] \cup {t}
<1>. DEFINE r == returned[w] + One(w \in DOMAIN seen)
<1>3. /\ IsFiniteSet(H) /\ Cardinality(H) <= Cardinality(heap[w]) + 1
      /\ Cardinality(heap[w]) \in Nat /\ Cardinality(H) \in Nat
  <2>1. /\ IsFiniteSet(H)
        /\ Cardinality(H) = IF t \in heap[w] THEN Cardinality(heap[w]) ELSE Cardinality(heap[w]) + 1
    BY <1>2, FS_AddElement
  <2>2. Cardinality(heap[w]) \in Nat
    BY <1>2, FS_CardinalityType
  <2>. HIDE DEF H
  <2>. QED
    BY <2>1, <2>2
<1>4. r \in Nat /\ w \in 1 .. Len(seen) => r = returned[w] + 1
  BY <1>2 DEF One
<1>5. r \in Nat
  BY <1>2 DEF One
<1>6. heap' = [heap EXCEPT ![w] = H] /\ returned' = [returned EXCEPT ![w] = r]
  BY <1>1
<1>. HIDE DEF H, r
<1>7. w \in 1 .. Len(seen) => Cardinality(H) <= seen[w].depth + r
  <2>. SUFFICES ASSUME w \in 1 .. Len(seen) PROVE Cardinality(H) <= seen[w].depth + r
    OBVIOUS
  <2>1. Cardinality(heap[w]) <= seen[w].depth + returned[w] /\ seen[w].depth \in Nat
    BY DepthsRead DEF DepthInv
  <2>2. r = returned[w] + 1
    BY <1>4, <1>5
  <2>. QED
    BY <1>2, <1>3, <2>1, <2>2
<1>8. completion' \in [Worker -> Nat]
  <2>1. t.est \in Nat /\ Enqueue(w, t)
    BY DEF Replace, QueuedTask
  <2>. QED
    BY <2>1, EnqueueKeepsEstimates
<1>. QED
  BY <1>2, <1>3, <1>5, <1>6, <1>7, <1>8, DepthOfOne

LEMMA PlaceKeepsDepth ==
  ASSUME WorkInv, DepthInv, Place
  PROVE  DepthInv'
<1>1. /\ heap' = [heap EXCEPT ![best] = @ \cup {inHand}]
      /\ dispatchPc = "push" /\ dispatchPc' \in {"drain", "top"}
      /\ best' = 1 /\ seen' = <<>> /\ returned' = [w \in Worker |-> 0]
      /\ estimate' = estimate /\ Enqueue(best, inHand)
  BY DEF Place, Enqueue
<1>2. DOMAIN heap = Worker /\ \A w \in Worker : IsFiniteSet(heap[w])
  BY DEF DepthInv, WorkInv, SharedTypes
<1>3. \A w \in Worker : IsFiniteSet(heap'[w])
  BY <1>1, <1>2, FS_AddElement
<1>4. seen' \in Seq(Reading) /\ Len(seen') = 0 /\ 1 .. Len(seen') = {}
  BY <1>1
<1>5. best' \in Worker /\ returned' \in [Worker -> Nat] /\ 0 <= Workers
  BY <1>1, ClairvoyantAssumption DEF Worker
<1>6. completion' \in [Worker -> Nat] /\ estimate' \in Nat
  <2>1. inHand.est \in Nat /\ best \in Worker
    BY <1>1 DEF WorkInv, DispatchTypes, Placing, QueuedTask, DepthInv
  <2>. QED
    BY <1>1, <2>1, EnqueueKeepsEstimates DEF DepthInv
<1>. QED
  BY <1>1, <1>3, <1>4, <1>5, <1>6 DEF DepthInv, Placing

LEMMA ReceiveKeepsDepth ==
  ASSUME DepthInv, NEW p \in Priority, ReceiveNext(p)
  PROVE  DepthInv'
<1>1. /\ UNCHANGED <<completion, estimate, heap, returned>>
      /\ best' = 1 /\ seen' = <<>> /\ dispatchPc' = "estimate"
  BY DEF ReceiveNext, queueVars
<1>2. seen' \in Seq(Reading) /\ Len(seen') = 0 /\ 1 .. Len(seen') = {}
  BY <1>1
<1>3. best' \in Worker /\ Len(seen') < Workers /\ Len(seen') <= Workers
  BY <1>1, <1>2, ClairvoyantAssumption DEF Worker
<1>. QED
  BY <1>1, <1>2, <1>3 DEF DepthInv, Placing

LEMMA EstimateKeepsDepth ==
  ASSUME DepthInv, Estimate
  PROVE  DepthInv'
<1>1. /\ UNCHANGED <<completion, seen, best, inHand, heap, returned>>
      /\ estimate' = completion[Len(seen) + 1]
      /\ dispatchPc = "estimate" /\ dispatchPc' = "measure"
  BY DEF Estimate, queueVars
<1>2. Len(seen) + 1 \in Worker
  <2>1. Len(seen) < Workers /\ Workers \in Nat /\ seen \in Seq(Reading)
    BY <1>1, ClairvoyantAssumption DEF DepthInv
  <2>2. Len(seen) \in Nat
    BY <2>1
  <2>. HIDE DEF DepthInv
  <2>. QED
    BY <2>1, <2>2 DEF Worker
<1>3. estimate' \in Nat
  BY <1>1, <1>2 DEF DepthInv
<1>. QED
  BY <1>1, <1>3 DEF DepthInv, Placing

\* The best of those read so far has the highest score of those read so far.
LEMMA MeasureKeepsDepth ==
  ASSUME WorkInv, DepthInv, Measure
  PROVE  DepthInv'
<1>. DEFINE w == Len(seen) + 1
            d == Cardinality(heap[w])
            r == [completion |-> estimate, depth |-> d]
<1>1. /\ best' = IF w = 1 \/ Score(inHand, r) > Score(inHand, seen[best]) THEN w ELSE best
      /\ seen' = Append(seen, r) /\ estimate' = 0 /\ inHand' = inHand
      /\ dispatchPc = "measure" /\ dispatchPc' = IF w < Workers THEN "estimate" ELSE "push"
      /\ UNCHANGED <<heap, completion, returned>>
  BY DEF Measure, queueVars
<1>2. seen \in Seq(Reading) /\ Len(seen) \in Nat /\ Len(seen) < Workers /\ Workers \in Nat
  BY <1>1, ClairvoyantAssumption DEF DepthInv
<1>3. w \in Worker /\ w \in Nat
  BY <1>2 DEF Worker
<1>4. d \in Nat
  BY <1>3, FS_CardinalityType DEF DepthInv
<1>5. r \in Reading /\ r.depth = d
  BY <1>4, ReadingIs DEF DepthInv
<1>6. inHand \in QueuedTask
  BY <1>1 DEF WorkInv, DispatchTypes, Placing
<1>7. /\ seen' \in Seq(Reading) /\ Len(seen') = w /\ seen'[w] = r
      /\ \A v \in 1 .. Len(seen) : seen'[v] = seen[v] /\ seen[v] \in Reading
  BY <1>1, <1>2, <1>5
<1>8. \A v \in 1 .. w : v \in 1 .. Len(seen) \/ v = w
  BY <1>2
<1>9. w # 1 => /\ best \in 1 .. Len(seen)
               /\ \A v \in 1 .. Len(seen) : Score(inHand, seen[v]) <= Score(inHand, seen[best])
  BY <1>2 DEF DepthInv
<1>10. returned \in [Worker -> Nat] /\ returned[w] \in Nat
  BY <1>3 DEF DepthInv
<1>11. \A v \in 1 .. Len(seen) : Cardinality(heap[v]) <= seen[v].depth + returned[v]
  BY DEF DepthInv
<1>12. Cardinality(heap[w]) = d
  OBVIOUS
<1>. HIDE DEF w, d, r
<1>13. Len(seen) = w - 1
  BY <1>2 DEF w
<1>14. best' \in 1 .. w
  BY <1>1, <1>3, <1>9, <1>13
<1>15. \A v \in 1 .. w : Score(inHand, seen'[v]) <= Score(inHand, seen'[best'])
  <2>1. Score(inHand, r) \in Int /\ \A v \in 1 .. Len(seen) : Score(inHand, seen[v]) \in Int
    BY <1>5, <1>6, <1>7, ScoreIs
  <2>2. CASE w = 1
    <3>1. \A v \in 1 .. w : v = w
      BY <2>2
    <3>. QED
      BY <1>1, <1>7, <2>1, <2>2, <3>1
  <2>3. CASE w # 1 /\ Score(inHand, r) > Score(inHand, seen[best])
    <3>1. best' = w /\ seen'[best'] = r
      BY <1>1, <1>7, <2>3
    <3>2. ASSUME NEW v \in 1 .. Len(seen) PROVE Score(inHand, seen[v]) <= Score(inHand, r)
      BY <1>9, <2>1, <2>3
    <3>. QED
      BY <1>7, <1>8, <2>1, <3>1, <3>2
  <2>4. CASE w # 1 /\ ~(Score(inHand, r) > Score(inHand, seen[best]))
    <3>1. best' = best /\ seen'[best'] = seen[best]
      BY <1>1, <1>7, <1>9, <2>4
    <3>2. Score(inHand, r) <= Score(inHand, seen[best])
      BY <1>9, <2>1, <2>4
    <3>. QED
      BY <1>7, <1>8, <1>9, <2>4, <3>1, <3>2
  <2>. QED
    BY <2>2, <2>3, <2>4
<1>16. \A v \in 1 .. w : Cardinality(heap[v]) <= seen'[v].depth + returned[v]
  BY <1>4, <1>5, <1>7, <1>8, <1>10, <1>11, <1>12
<1>17. w <= Workers /\ best' \in Worker
  BY <1>2, <1>3, <1>14 DEF Worker
<1>18. \/ dispatchPc' = "estimate" /\ w < Workers
       \/ dispatchPc' = "push" /\ w = Workers
  BY <1>1, <1>2, <1>3, <1>17
<1>. QED
  BY <1>1, <1>7, <1>10, <1>14, <1>15, <1>16, <1>17, <1>18 DEF DepthInv, Placing


-----------------------------------------------------------------------------
(* The latency trackers. *)

\* m is the greatest of the latencies in s, 0 if there is none.
Tops(m, s) ==
  /\ m \in Nat
  /\ \A i \in 1 .. Len(s) : s[i] <= m
  /\ m = 0 \/ \E i \in 1 .. Len(s) : s[i] = m

LatencyInv ==
  /\ latencies \in [Tracked -> Seq(Nat)]
  /\ maximum \in [Tracked -> Nat]
  /\ \A p \in Tracked : Len(latencies[p]) <= Window /\ Tops(maximum[p], latencies[p])

\* A set of natural numbers has a least element.
LEMMA LeastNatural ==
  ASSUME NEW S \in SUBSET Nat, S # {}
  PROVE  \E m \in S : \A n \in S : m <= n
<1>. DEFINE R == {ss \in Nat \X Nat : ss[1] < ss[2]}
<1>1. IsWellFoundedOn(R, Nat)
  BY NatLessThanWellFounded, Zenon DEF OpToRel
<1>. HIDE DEF R
<1>2. PICK m \in S : \A n \in S : ~(<<n, m>> \in R)
  BY <1>1, WFMin
<1>3. \A n \in S : ~(n < m)
  BY <1>2 DEF R
<1>. QED
  BY <1>3

\* Latencies below a bound have a greatest: the least of their bounds.
LEMMA TopsExists ==
  ASSUME NEW s \in Seq(Nat), NEW b \in Nat, \A i \in 1 .. Len(s) : s[i] <= b
  PROVE  \E m \in Nat : Tops(m, s)
<1>. DEFINE Bounds == {n \in Nat : \A i \in 1 .. Len(s) : s[i] <= n}
<1>1. PICK m \in Bounds : \A n \in Bounds : m <= n
  <2>1. b \in Bounds
    OBVIOUS
  <2>2. Bounds \in SUBSET Nat /\ Bounds # {}
    BY <2>1
  <2>. HIDE DEF Bounds
  <2>. QED
    BY <2>2, LeastNatural
<1>2. m \in Nat /\ \A i \in 1 .. Len(s) : s[i] \in Nat /\ s[i] <= m
  OBVIOUS
<1>3. ASSUME m # 0, \A i \in 1 .. Len(s) : s[i] # m
      PROVE  FALSE
  <2>1. m - 1 \in Nat /\ \A i \in 1 .. Len(s) : s[i] <= m - 1
    BY <1>2, <1>3
  <2>2. m - 1 \in Bounds
    BY <2>1
  <2>3. m <= m - 1
    BY <1>1, <2>2
  <2>. QED
    BY <1>2, <2>3
<1>. QED
  BY <1>2, <1>3 DEF Tops

\* The maximum of a set that holds its greatest element.
LEMMA MaxIs ==
  ASSUME NEW S \in SUBSET Nat, NEW m \in S, \A n \in S : n <= m
  PROVE  Max(S) = m
<1>1. \A x \in S : (\A y \in S : x >= y) => x = m
  <2>. SUFFICES ASSUME NEW x \in S, \A y \in S : x >= y
                PROVE  x = m
    OBVIOUS
  <2>1. x >= m /\ x <= m /\ x \in Nat /\ m \in Nat
    OBVIOUS
  <2>. QED
    BY <2>1
<1>2. \A y \in S : m >= y
  OBVIOUS
<1>3. Max(S) \in S /\ \A y \in S : Max(S) >= y
  BY <1>2 DEF Max
<1>. QED
  BY <1>1, <1>3

LEMMA TopsIsMax ==
  ASSUME NEW s \in Seq(Nat), NEW m, Tops(m, s)
  PROVE  m = Max({s[i] : i \in 1 .. Len(s)} \cup {0})
<1>. DEFINE S == {s[i] : i \in 1 .. Len(s)} \cup {0}
<1>1. S \in SUBSET Nat /\ m \in Nat
  BY DEF Tops
<1>2. m \in S /\ \A n \in S : n <= m
  BY DEF Tops
<1>. HIDE DEF S
<1>3. m = Max(S)
  BY <1>1, <1>2, MaxIs
<1>. QED
  BY <1>3 DEF S

\* record_latency keeps the maximum that of the window, also when the window slides.
LEMMA MaximumOfTops ==
  ASSUME NEW s \in Seq(Nat), NEW old, Tops(old, s), Len(s) <= Window, NEW new \in Nat,
         NEW g, g = Append(s, new)
  PROVE  LET kept == IF Len(g) > Window THEN Tail(g) ELSE g
         IN kept \in Seq(Nat) /\ Len(kept) <= Window /\ Tops(MaximumOf(old, g), kept)
<1>1. /\ g \in Seq(Nat) /\ Len(g) = Len(s) + 1 /\ g[Len(g)] = new /\ Len(s) \in Nat
      /\ \A i \in 1 .. Len(s) : g[i] = s[i] /\ s[i] \in Nat
      /\ g # <<>>
  OBVIOUS
<1>2. Window \in Nat /\ Window >= 1
  BY ClairvoyantAssumption
<1>. DEFINE higher == IF new > old THEN new ELSE old
<1>3. /\ old \in Nat /\ higher \in Nat /\ new <= higher /\ old <= higher
      /\ higher = new \/ higher = old
  BY DEF Tops
<1>4. \A i \in 1 .. Len(g) : i \in 1 .. Len(s) \/ i = Len(g)
  BY <1>1
<1>5. \A i \in 1 .. Len(g) : g[i] \in Nat /\ g[i] <= higher
  BY <1>1, <1>3, <1>4 DEF Tops
<1>6. higher = 0 \/ \E i \in 1 .. Len(g) : g[i] = higher
  <2>1. CASE higher = new
    <3>1. Len(g) \in 1 .. Len(g)
      BY <1>1
    <3>. QED
      BY <1>1, <2>1, <3>1
  <2>2. CASE higher = old /\ old # 0
    <3>1. PICK i \in 1 .. Len(s) : s[i] = old
      BY <2>2 DEF Tops
    <3>2. i \in 1 .. Len(g) /\ g[i] = s[i]
      BY <1>1
    <3>. QED
      BY <2>2, <3>1, <3>2
  <2>. QED
    BY <1>3, <2>1, <2>2
<1>7. MaximumOf(old, g) = IF Len(g) > Window /\ g[1] = higher
                          THEN Max({g[i] : i \in 2 .. Len(g)} \cup {0}) ELSE higher
  BY <1>1 DEF MaximumOf
<1>. HIDE DEF higher
<1>8. CASE ~(Len(g) > Window)
  BY <1>1, <1>2, <1>3, <1>5, <1>6, <1>7, <1>8 DEF Tops
<1>9. CASE Len(g) > Window
  <2>. DEFINE r == Tail(g)
  <2>1. /\ r \in Seq(Nat) /\ Len(r) = Len(g) - 1 /\ Len(r) <= Window
        /\ \A i \in 1 .. Len(r) : i + 1 \in 2 .. Len(g) /\ r[i] = g[i + 1]
    BY <1>1, <1>2
  <2>2. \A i \in 2 .. Len(g) : i - 1 \in 1 .. Len(r) /\ r[i - 1] = g[i]
    <3>1. \A i \in 2 .. Len(g) : i - 1 \in 1 .. Len(r) /\ (i - 1) + 1 = i
      BY <1>1, <2>1
    <3>. QED
      BY <2>1, <3>1
  <2>. HIDE DEF r
  <2>3. \A i \in 1 .. Len(r) : r[i] <= higher
    <3>1. \A i \in 2 .. Len(g) : i \in 1 .. Len(g)
      BY <1>1
    <3>. QED
      BY <1>5, <2>1, <3>1
  <2>4. CASE g[1] = higher
    <3>1. PICK m \in Nat : Tops(m, r)
      BY <1>3, <2>1, <2>3, TopsExists
    <3>2. m = Max({r[i] : i \in 1 .. Len(r)} \cup {0})
      BY <2>1, <3>1, TopsIsMax
    <3>3. {r[i] : i \in 1 .. Len(r)} = {g[i] : i \in 2 .. Len(g)}
      <4>1. \A x \in {r[i] : i \in 1 .. Len(r)} : x \in {g[i] : i \in 2 .. Len(g)}
        BY <2>1
      <4>2. \A x \in {g[i] : i \in 2 .. Len(g)} : x \in {r[i] : i \in 1 .. Len(r)}
        BY <2>2
      <4>. QED
        BY <4>1, <4>2
    <3>4. MaximumOf(old, g) = m
      BY <1>7, <1>9, <2>4, <3>2, <3>3
    <3>. QED
      BY <1>9, <2>1, <3>1, <3>4 DEF r
  <2>5. CASE g[1] # higher
    <3>1. MaximumOf(old, g) = higher
      BY <1>7, <2>5
    <3>2. ASSUME NEW i \in 1 .. Len(g), g[i] = higher
          PROVE  i \in 2 .. Len(g)
      <4>1. i # 1
        BY <2>5, <3>2
      <4>. QED
        BY <1>1, <4>1
    <3>3. higher = 0 \/ \E i \in 1 .. Len(r) : r[i] = higher
      BY <1>6, <2>2, <3>2
    <3>4. Tops(higher, r)
      BY <1>3, <2>3, <3>3 DEF Tops
    <3>. QED
      BY <1>9, <2>1, <3>1, <3>4 DEF r
  <2>. QED
    BY <2>4, <2>5
<1>. QED
  BY <1>8, <1>9

LEMMA LatencyInitially == Init => LatencyInv
BY ClairvoyantAssumption DEF Init, LatencyInv, Tops

LEMMA RecordKeepsLatency ==
  ASSUME LatencyInv, NEW p, NEW n \in Nat, Record(p, n)
  PROVE  LatencyInv'
<1>1. CASE p \notin Tracked
  BY <1>1 DEF Record, LatencyInv, trackerVars
<1>2. CASE p \in Tracked
  <2>. DEFINE g == Append(latencies[p], n)
              kept == IF Len(g) > Window THEN Tail(g) ELSE g
  <2>1. /\ maximum' = [maximum EXCEPT ![p] = MaximumOf(maximum[p], g)]
        /\ latencies' = [latencies EXCEPT ![p] = kept]
    BY <1>2 DEF Record
  <2>2. /\ latencies[p] \in Seq(Nat) /\ Tops(maximum[p], latencies[p])
        /\ Len(latencies[p]) <= Window
    BY <1>2 DEF LatencyInv
  <2>3. kept \in Seq(Nat) /\ Len(kept) <= Window /\ Tops(MaximumOf(maximum[p], g), kept)
    BY <2>2, MaximumOfTops
  <2>. HIDE DEF g, kept
  <2>4. MaximumOf(maximum[p], g) \in Nat
    BY <2>3 DEF Tops
  <2>5. latencies' \in [Tracked -> Seq(Nat)] /\ maximum' \in [Tracked -> Nat]
    BY <2>1, <2>3, <2>4 DEF LatencyInv
  <2>6. ASSUME NEW q \in Tracked
        PROVE  Len(latencies'[q]) <= Window /\ Tops(maximum'[q], latencies'[q])
    <3>1. CASE q = p
      BY <2>1, <2>3, <3>1 DEF LatencyInv
    <3>2. CASE q # p
      <4>1. latencies'[q] = latencies[q] /\ maximum'[q] = maximum[q]
        BY <2>1, <3>2 DEF LatencyInv
      <4>. QED
        BY <4>1 DEF LatencyInv
    <3>. QED
      BY <3>1, <3>2
  <2>. QED
    BY <2>5, <2>6 DEF LatencyInv
<1>. QED
  BY <1>1, <1>2

\* A worker records the time since the arrival of the packet it finished.
LEMMA FinishKeepsLatency ==
  ASSUME WorkInv, LatencyInv, NEW w \in Worker, Finish(w)
  PROVE  LatencyInv'
<1>1. pc[w] = "process" /\ Record(finalPriority[w], Minus(clock, task[w].ts))
  BY DEF Finish
<1>2. clock \in Nat /\ task[w].ts \in Nat
  BY <1>1 DEF WorkInv, SharedTypes, WorkerTypes, Held, QueuedTask
<1>3. Minus(clock, task[w].ts) \in Nat
  BY <1>2, MinusIsNatural
<1>. QED
  BY <1>1, <1>3, RecordKeepsLatency


-----------------------------------------------------------------------------
(* The invariant, and what follows from it. *)

ClairvoyantInv == WorkInv /\ DepthInv /\ LatencyInv

LEMMA InitEstablishes == Init => ClairvoyantInv
BY WorkInitially, DepthInitially, LatencyInitially DEF ClairvoyantInv

LEMMA LatencyUntouched ==
  ASSUME LatencyInv, UNCHANGED trackerVars
  PROVE  LatencyInv'
BY DEF LatencyInv, trackerVars

LEMMA DispatcherPreserves ==
  ASSUME ClairvoyantInv, Dispatcher
  PROVE  ClairvoyantInv'
<1>. USE DEF ClairvoyantInv
<1>1. LatencyInv'
  BY LatencyUntouched DEF Dispatcher, DispatchTop, NothingToReceive, Estimate, Measure, Place,
     ReceiveNext
<1>2. CASE DispatchTop \/ NothingToReceive
  <2>1. /\ UNCHANGED <<arrived, coming, clock, inQueue, heap, inHand>> /\ UNCHANGED workerVars
        /\ UNCHANGED <<estimate, seen, best, returned, completion>>
        /\ passTime' \in {clock, 0}
        /\ dispatchPc \in {"top", "drain"} /\ dispatchPc' \in {"top", "drain", "done"}
    BY <1>2 DEF DispatchTop, NothingToReceive, queueVars
  <2>2. passTime' \in Nat /\ completion' \in [Worker -> Nat]
    BY <2>1 DEF WorkInv, SharedTypes, DepthInv
  <2>3. WorkInv'
    BY <2>1, <2>2, OthersKeepWork DEF Placing
  <2>4. DepthInv'
    BY <2>1, <2>2, DepthUntouched DEF Placing
  <2>. QED
    BY <1>1, <2>3, <2>4
<1>3. CASE Estimate \/ Measure
  <2>1. /\ UNCHANGED <<arrived, coming, clock, inQueue, heap, inHand>> /\ UNCHANGED workerVars
        /\ passTime' = passTime
        /\ dispatchPc \in Placing /\ dispatchPc' \in Placing
    BY <1>3 DEF Estimate, Measure, queueVars, Placing
  <2>2. passTime' \in Nat
    BY <2>1 DEF WorkInv, DispatchTypes
  <2>3. WorkInv'
    BY <2>1, <2>2, OthersKeepWork
  <2>. QED
    BY <1>1, <1>3, <2>3, EstimateKeepsDepth, MeasureKeepsDepth
<1>4. CASE Place
  <2>1. best \in Worker
    BY DEF DepthInv
  <2>. QED
    BY <1>1, <1>4, <2>1, PlaceKeepsWork, PlaceKeepsDepth
<1>5. CASE \E p \in Priority : ReceiveNext(p)
  BY <1>1, <1>5, ReceiveKeepsWork, ReceiveKeepsDepth
<1>. QED
  BY <1>2, <1>3, <1>4, <1>5 DEF Dispatcher

LEMMA WorkerPreserves ==
  ASSUME ClairvoyantInv, NEW w \in Worker, WorkerStep(w)
  PROVE  ClairvoyantInv'
<1>. USE DEF ClairvoyantInv
<1>1. CASE Pop(w)
  <2>1. LatencyInv'
    BY <1>1, LatencyUntouched DEF Pop
  <2>2. maximum \in [Tracked -> Nat]
    BY DEF LatencyInv
  <2>. QED
    BY <1>1, <2>1, <2>2, PopKeepsWork, PopKeepsDepth
<1>2. CASE WorkerExit(w) \/ GuardEnd(w)
  <2>1. /\ UNCHANGED trackerVars
        /\ UNCHANGED <<estimate, seen, best, inHand, returned, heap, dispatchPc, completion>>
    BY <1>2 DEF WorkerExit, GuardEnd, dispatchVars, queueVars
  <2>2. completion' \in [Worker -> Nat]
    BY <2>1 DEF DepthInv
  <2>. QED
    BY <1>2, <2>1, <2>2, LatencyUntouched, DepthUntouched, WorkerExitKeepsWork, GuardEndKeepsWork
<1>3. CASE GuardTake(w)
  <2>1. /\ UNCHANGED trackerVars /\ UNCHANGED <<estimate, seen, best, inHand, dispatchPc>>
        /\ \E p \in Intruder(task[w].of) : Replace(w, p, task[w])
        /\ pc[w] = "guard"
    BY <1>3 DEF GuardTake, dispatchVars
  <2>2. task[w] \in QueuedTask
    BY <2>1 DEF WorkInv, WorkerTypes, Held
  <2>. QED
    BY <1>3, <2>1, <2>2, LatencyUntouched, ReplaceKeepsDepth, GuardTakeKeepsWork
<1>4. CASE Preempt(w)
  <2>1. /\ UNCHANGED trackerVars /\ UNCHANGED <<estimate, seen, best, inHand, dispatchPc>>
        /\ \E p \in Intruder(original[w].of) : Replace(w, p, PutBack(w))
        /\ pc[w] = "process"
    BY <1>4 DEF Preempt, dispatchVars
  <2>2. PutBack(w) \in QueuedTask
    BY <2>1, PutBackIs DEF WorkInv, WorkerTypes, Held
  <2>. QED
    BY <1>4, <2>1, <2>2, LatencyUntouched, ReplaceKeepsDepth, PreemptKeepsWork
<1>5. CASE Finish(w)
  <2>1. /\ UNCHANGED <<estimate, seen, best, inHand, returned, heap, dispatchPc>>
        /\ completion' = [completion EXCEPT ![w] = clock]
    BY <1>5 DEF Finish, dispatchVars
  <2>2. completion' \in [Worker -> Nat]
    BY <2>1 DEF WorkInv, SharedTypes, DepthInv
  <2>. QED
    BY <1>5, <2>1, <2>2, DepthUntouched, FinishKeepsWork, FinishKeepsLatency
<1>. QED
  BY <1>1, <1>2, <1>3, <1>4, <1>5 DEF WorkerStep

LEMMA StepPreserves == ClairvoyantInv /\ [Next]_vars => ClairvoyantInv'
<1>. SUFFICES ASSUME ClairvoyantInv, [Next]_vars
              PROVE  ClairvoyantInv'
  OBVIOUS
<1>. USE DEF ClairvoyantInv
<1>1. CASE \E p \in Priority : Arrive(p)
  <2>1. /\ UNCHANGED trackerVars
        /\ UNCHANGED <<estimate, seen, best, inHand, returned, heap, dispatchPc, completion>>
    BY <1>1 DEF Arrive, dispatchVars, queueVars
  <2>2. completion' \in [Worker -> Nat]
    BY <2>1 DEF DepthInv
  <2>. QED
    BY <1>1, <2>1, <2>2, LatencyUntouched, DepthUntouched, ArriveKeepsWork
<1>2. CASE Tick
  <2>1. /\ UNCHANGED trackerVars
        /\ UNCHANGED <<estimate, seen, best, inHand, returned, heap, dispatchPc, completion>>
    BY <1>2 DEF Tick, dispatchVars, queueVars
  <2>2. completion' \in [Worker -> Nat]
    BY <2>1 DEF DepthInv
  <2>. QED
    BY <1>2, <2>1, <2>2, LatencyUntouched, DepthUntouched, TickKeepsWork
<1>3. CASE Stop \/ UNCHANGED vars
  <2>1. /\ UNCHANGED trackerVars
        /\ UNCHANGED <<estimate, seen, best, inHand, returned, heap, dispatchPc, completion>>
        /\ UNCHANGED <<arrived, coming, clock, inQueue, heap, inHand>> /\ UNCHANGED workerVars
        /\ UNCHANGED <<passTime, dispatchPc>>
    BY <1>3 DEF Stop, vars, dispatchVars, queueVars
  <2>2. passTime' \in Nat /\ dispatchPc' \in {"top", "drain", "done"} \cup Placing
    BY <2>1 DEF WorkInv, DispatchTypes
  <2>3. completion' \in [Worker -> Nat]
    BY <2>1 DEF DepthInv
  <2>. QED
    BY <2>1, <2>2, <2>3, LatencyUntouched, DepthUntouched, OthersKeepWork
<1>. QED
  BY <1>1, <1>2, <1>3, DispatcherPreserves, WorkerPreserves DEF Next

(***************************************************************************)
(* Preemption neither repeats nor skips work (put back in worker_loop with *)
(* remaining_processing_time): done and left make up processing_duration,  *)
(* in every heap and in every busy wait.                                   *)
\* The scores of two readings compared, without the rounding.
LEMMA ScoresCompared ==
  ASSUME NEW t \in QueuedTask, NEW a \in Reading, NEW b \in Reading,
         Score(t, a) <= Score(t, b)
  PROVE  Millisecond * (DepthPenalty * (b.depth - a.depth))
           < Minus(a.completion, b.completion) + Millisecond
<1>1. PICK s \in Nat, u \in Nat : s = Spare(t, a) /\ u = Spare(t, b)
  BY SpareIsNatural
<1>2. PICK x \in Int, y \in Int :
        x = Millis(s) /\ y = Millis(u) /\ Whole(x, s, Millisecond) /\ Whole(y, u, Millisecond)
  BY MillisIs
<1>3. PICK c \in Nat, d \in Nat, e \in Nat, h \in Nat :
        a.completion = c /\ b.completion = d /\ a.depth = e /\ b.depth = h
  BY DEF Reading
<1>4. PICK m \in Nat \ {0}, p \in Nat : m = Millisecond /\ p = DepthPenalty
  BY ClairvoyantAssumption
<1>5. x - p * e <= y - p * h
  BY <1>1, <1>2, <1>3, <1>4, ScoreIs
<1>6. p * (h - e) <= y - x
  <2>1. p * (h - e) = p * h - p * e /\ p * h \in Int /\ p * e \in Int
    OBVIOUS
  <2>. QED
    BY <1>5, <2>1
<1>7. m * (p * (h - e)) <= m * y - m * x
  <2>1. PICK k \in Int : k = p * (h - e)
    OBVIOUS
  <2>2. m * k <= m * (y - x)
    BY <1>6, <2>1
  <2>3. m * (y - x) = m * y - m * x
    OBVIOUS
  <2>. QED
    BY <2>1, <2>2, <2>3
<1>8. m * y <= u /\ s < m * x + m
  BY <1>2, <1>4 DEF Whole
<1>9. u - s <= Minus(c, d)
  <2>1. PICK v \in Nat, n \in Nat : v = t.ts + Budget[t.of] /\ n = t.est
    <3>1. t.ts \in Nat /\ t.est \in Nat /\ Budget[t.of] \in Nat
      BY ClairvoyantAssumption DEF QueuedTask
    <3>. QED
      BY <3>1
  <2>2. s = Minus(v, c + n) /\ u = Minus(v, d + n)
    BY <1>1, <1>3, <2>1 DEF Spare
  <2>. QED
    BY <2>2 DEF Minus
<1>10. PICK k \in Int, i \in Int, j \in Int :
         k = m * (p * (h - e)) /\ i = m * y /\ j = m * x
  OBVIOUS
<1>11. Minus(c, d) \in Nat
  BY MinusIsNatural
<1>12. k < Minus(c, d) + m
  BY <1>7, <1>8, <1>9, <1>10, <1>11
<1>. QED
  BY <1>3, <1>4, <1>10, <1>12

LEMMA ProductGrows ==
  ASSUME NEW m \in Nat, NEW p \in Nat, NEW x \in Int, NEW y \in Int, x <= y
  PROVE  m * (p * x) <= m * (p * y) /\ m * (p * x) \in Int /\ m * (p * y) \in Int
<1>1. p * x <= p * y
  OBVIOUS
<1>2. PICK u \in Int, v \in Int : u = p * x /\ v = p * y
  OBVIOUS
<1>3. m * u <= m * v
  BY <1>1, <1>2
<1>. QED
  BY <1>2, <1>3

(***************************************************************************)
(* The queue find_best_worker chose, also on stale readings, is longer     *)
(* than another one was only if that worker's estimated_completion was     *)
(* later, by the penalty for each further task within a millisecond; what  *)
(* its own worker put back since does not count.                           *)
(***************************************************************************)
THEOREM LongerIsEarlier == Spec => []LongerQueueEarlier
<1>1. ClairvoyantInv => LongerQueueEarlier
  <2>. SUFFICES ASSUME WorkInv, DepthInv, dispatchPc = "push", NEW w \in Worker
                PROVE  Millisecond * (DepthPenalty * Overlong(w))
                         < Minus(seen[w].completion, seen[best].completion) + Millisecond
    BY DEF ClairvoyantInv, LongerQueueEarlier
  <2>1. Len(seen) = Workers /\ Workers \in Nat \ {0}
    BY ClairvoyantAssumption DEF DepthInv
  <2>2. w \in 1 .. Len(seen) /\ best \in 1 .. Len(seen) /\ seen # <<>>
    BY <2>1 DEF DepthInv, Worker
  <2>3. inHand \in QueuedTask
    BY DEF WorkInv, DispatchTypes, Placing
  <2>4. PICK a \in Reading, b \in Reading : a = seen[w] /\ b = seen[best]
    BY <2>2, DepthsRead
  <2>5. Score(inHand, a) <= Score(inHand, b)
    BY <2>2, <2>4 DEF DepthInv
  <2>6. Millisecond * (DepthPenalty * (b.depth - a.depth))
          < Minus(a.completion, b.completion) + Millisecond
    BY <2>3, <2>5, ScoresCompared
  <2>7. /\ Cardinality(heap[best]) \in Nat /\ returned[best] \in Nat
        /\ Cardinality(heap[best]) <= b.depth + returned[best]
        /\ a.depth \in Nat /\ b.depth \in Nat /\ a.completion \in Nat /\ b.completion \in Nat
    <3>1. Cardinality(heap[best]) <= seen[best].depth + returned[best]
      BY <2>2 DEF DepthInv
    <3>2. Cardinality(heap[best]) \in Nat
      BY FS_CardinalityType DEF DepthInv
    <3>3. returned[best] \in Nat
      BY DEF DepthInv
    <3>4. a.depth \in Nat /\ b.depth \in Nat /\ a.completion \in Nat /\ b.completion \in Nat
      BY DEF Reading
    <3>. QED
      BY <2>4, <3>1, <3>2, <3>3, <3>4
  <2>8. PICK x \in Int, y \in Int : x = Overlong(w) /\ y = b.depth - a.depth /\ x <= y
    <3>1. Overlong(w) = Cardinality(heap[best]) - returned[best] - a.depth
      BY <2>4 DEF Overlong
    <3>. QED
      BY <2>7, <3>1
  <2>9. Millisecond \in Nat /\ DepthPenalty \in Nat
    BY ClairvoyantAssumption
  <2>10. PICK i \in Int, j \in Int :
           i = Millisecond * (DepthPenalty * x) /\ j = Millisecond * (DepthPenalty * y) /\ i <= j
    BY <2>8, <2>9, ProductGrows
  <2>11. PICK n \in Nat : n = Minus(a.completion, b.completion)
    BY <2>7, MinusIsNatural
  <2>12. j < n + Millisecond
    BY <2>6, <2>8, <2>10, <2>11
  <2>13. i < n + Millisecond
    BY <2>9, <2>10, <2>12
  <2>. QED
    BY <2>4, <2>8, <2>10, <2>11, <2>13
<1>. QED
  BY <1>1, InitEstablishes, StepPreserves, PTL DEF Spec

(***************************************************************************)
(* Preemption neither repeats nor skips work (put back in worker_loop with *)
(* remaining_processing_time): done and left make up processing_duration,  *)
(* in every heap and in every busy wait.                                   *)
(***************************************************************************)
THEOREM WorkIsConserved == Spec => []WorkConserved
<1>1. ClairvoyantInv => WorkConserved
  BY DEF ClairvoyantInv, WorkInv, HeapWork, WorkerTypes, Held, WorkConserved
<1>. QED
  BY <1>1, InitEstablishes, StepPreserves, PTL DEF Spec

(***************************************************************************)
(* max_latency_us of a LatencyTracker is the maximum of the measurements   *)
(* in its window (record_latency), whichever workers recorded them.        *)
(***************************************************************************)
THEOREM MaximumIsExact == Spec => []MaximumExact
<1>1. ClairvoyantInv => MaximumExact
  <2>. SUFFICES ASSUME LatencyInv, NEW p \in Tracked
                PROVE  maximum[p] = Max({latencies[p][i] : i \in DOMAIN latencies[p]} \cup {0})
    BY DEF ClairvoyantInv, MaximumExact
  <2>1. latencies[p] \in Seq(Nat) /\ Tops(maximum[p], latencies[p])
    BY DEF LatencyInv
  <2>2. maximum[p] = Max({latencies[p][i] : i \in 1 .. Len(latencies[p])} \cup {0})
    BY <2>1, TopsIsMax
  <2>3. DOMAIN latencies[p] = 1 .. Len(latencies[p])
    BY <2>1
  <2>. QED
    BY <2>2, <2>3
<1>. QED
  BY <1>1, InitEstablishes, StepPreserves, PTL DEF Spec


-----------------------------------------------------------------------------
(* The places of the packets, as a function of what is in the channels q,  *)
(* the heaps h, the workers' hands k, the dispatcher's hand d and the      *)
(* decided packets c.                                                      *)

AtOf(q, h, k, d, c) ==
  [l \in Spot |->
     CASE l[1] = "input" -> IdsOf(Range(q[l[2]]))
       [] l[1] = "heap" -> IdsOf(h[l[2]])
       [] l[1] = "worker" -> IdsOf({k[l[2]]})
       [] l[1] = "dispatcher" -> IdsOf({d})
       [] OTHER -> c]

InputSpot(p) == <<"input", p>>
HeapSpot(w) == <<"heap", w>>
WorkerSpot(w) == <<"worker", w>>
HandSpot == <<"dispatcher", 0>>
DecidedSpot == <<"decided", 0>>

\* Each of the ids below n is in one place, and there are no others.
Apart(at, n) ==
  /\ \A l \in Spot : \A i \in at[l] : i \in 0 .. n - 1
  /\ \A i \in 0 .. n - 1 : \E l \in Spot : i \in at[l]
  /\ \A l, m \in Spot : \A i \in at[l] : i \in at[m] => l = m

LEMMA SpotsAre ==
  /\ \A p \in Priority : InputSpot(p) \in Spot
  /\ \A w \in Worker : HeapSpot(w) \in Spot /\ WorkerSpot(w) \in Spot
  /\ HandSpot \in Spot /\ DecidedSpot \in Spot
  /\ \A l \in Spot : \/ \E p \in Priority : l = InputSpot(p)
                     \/ \E w \in Worker : l = HeapSpot(w)
                     \/ \E w \in Worker : l = WorkerSpot(w)
                     \/ l = HandSpot \/ l = DecidedSpot
BY DEF Spot, InputSpot, HeapSpot, WorkerSpot, HandSpot, DecidedSpot

LEMMA SpotsDiffer ==
  /\ \A p, w : /\ InputSpot(p) # HeapSpot(w) /\ InputSpot(p) # WorkerSpot(w)
               /\ InputSpot(p) # HandSpot /\ InputSpot(p) # DecidedSpot
               /\ HeapSpot(p) # WorkerSpot(w) /\ HeapSpot(p) # HandSpot
               /\ HeapSpot(p) # DecidedSpot /\ WorkerSpot(p) # HandSpot
               /\ WorkerSpot(p) # DecidedSpot
               /\ InputSpot(p) = InputSpot(w) => p = w
               /\ HeapSpot(p) = HeapSpot(w) => p = w
               /\ WorkerSpot(p) = WorkerSpot(w) => p = w
  /\ HandSpot # DecidedSpot
BY DEF InputSpot, HeapSpot, WorkerSpot, HandSpot, DecidedSpot

\* From at to at2, the packet x goes from place a to place b.
Moved(at, at2, a, b, x) ==
  /\ a # b /\ x \in at[a]
  /\ at2[a] = at[a] \ {x} /\ at2[b] = at[b] \cup {x}
  /\ \A l \in Spot : l # a /\ l # b => at2[l] = at[l]

LEMMA Moves ==
  ASSUME NEW at, NEW at2, NEW n, NEW a \in Spot, NEW b \in Spot, NEW x,
         Apart(at, n), Moved(at, at2, a, b, x)
  PROVE  Apart(at2, n)
<1>. USE DEF Moved
<1>1. x \in 0 .. n - 1 /\ \A l \in Spot : x \in at[l] => l = a
  BY DEF Apart
<1>2. ASSUME NEW l \in Spot, NEW i \in at2[l]
      PROVE  i \in 0 .. n - 1 /\ (i = x => l = b) /\ (i # x => i \in at[l])
  <2>1. CASE l = a
    BY <1>1, <1>2, <2>1 DEF Apart
  <2>2. CASE l = b
    BY <1>1, <1>2, <2>2 DEF Apart
  <2>3. CASE l # a /\ l # b
    BY <1>1, <1>2, <2>3 DEF Apart
  <2>. QED
    BY <2>1, <2>2, <2>3
<1>3. ASSUME NEW i \in 0 .. n - 1
      PROVE  \E l \in Spot : i \in at2[l]
  <2>1. CASE i = x
    BY <2>1
  <2>2. CASE i # x
    <3>1. PICK l \in Spot : i \in at[l]
      BY DEF Apart
    <3>. QED
      BY <2>2, <3>1
  <2>. QED
    BY <2>1, <2>2
<1>4. ASSUME NEW l \in Spot, NEW m \in Spot, NEW i \in at2[l], i \in at2[m]
      PROVE  l = m
  <2>1. CASE i = x
    BY <1>2, <1>4, <2>1
  <2>2. CASE i # x
    BY <1>2, <1>4, <2>2 DEF Apart
  <2>. QED
    BY <2>1, <2>2
<1>. QED
  BY <1>2, <1>3, <1>4 DEF Apart

\* A packet that was nowhere comes.
LEMMA Comes ==
  ASSUME NEW at, NEW at2, NEW n \in Nat, NEW a \in Spot, Apart(at, n),
         at2[a] = at[a] \cup {n}, \A l \in Spot : l # a => at2[l] = at[l]
  PROVE  Apart(at2, n + 1)
<1>1. \A i : i \in 0 .. (n + 1) - 1 <=> i \in 0 .. n - 1 \/ i = n
  OBVIOUS
<1>2. n \notin 0 .. n - 1
  OBVIOUS
<1>3. ASSUME NEW l \in Spot, NEW i \in at2[l]
      PROVE  (i = n /\ l = a) \/ (i # n /\ i \in at[l] /\ i \in 0 .. n - 1)
  BY <1>2, <1>3 DEF Apart
<1>4. \A i \in 0 .. (n + 1) - 1 : \E l \in Spot : i \in at2[l]
  <2>. SUFFICES ASSUME NEW i \in 0 .. (n + 1) - 1 PROVE \E l \in Spot : i \in at2[l]
    OBVIOUS
  <2>1. CASE i = n
    BY <2>1
  <2>2. CASE i \in 0 .. n - 1
    <3>1. PICK l \in Spot : i \in at[l]
      BY <2>2 DEF Apart
    <3>. QED
      BY <3>1
  <2>. QED
    BY <1>1, <2>1, <2>2
<1>5. ASSUME NEW l \in Spot, NEW m \in Spot, NEW i \in at2[l], i \in at2[m]
      PROVE  l = m
  BY <1>3, <1>5 DEF Apart
<1>. QED
  BY <1>1, <1>3, <1>4, <1>5 DEF Apart


\* The ids in a channel grow, and those in a heap differ.
Rising(s) == \A j, k \in DOMAIN s : j < k => s[j].id < s[k].id
OneEach(h) == \A t, u \in h : t.id = u.id => t = u

LEMMA QueueIds ==
  ASSUME NEW s \in Seq(Packet)
  PROVE  /\ \A i \in 1 .. Len(s) : s[i].id \in IdsOf(Range(s)) /\ s[i].id \in Nat
         /\ \A x \in IdsOf(Range(s)) : \E i \in 1 .. Len(s) : s[i].id = x
<1>1. DOMAIN s = 1 .. Len(s) /\ \A i \in 1 .. Len(s) : s[i] \in Packet
  OBVIOUS
<1>2. \A i \in 1 .. Len(s) : s[i].id \in Nat /\ s[i] \in Range(s)
  BY <1>1 DEF Packet, Range
<1>3. \A t \in Range(s) : \E i \in 1 .. Len(s) : t = s[i]
  BY <1>1 DEF Range
<1>4. NoTask.id \notin Nat
  BY NoTaskIsNone
<1>. QED
  BY <1>2, <1>3, <1>4 DEF IdsOf

LEMMA AppendIds ==
  ASSUME NEW s \in Seq(Packet), NEW e \in Packet, Rising(s),
         \A x \in IdsOf(Range(s)) : x < e.id
  PROVE  /\ IdsOf(Range(Append(s, e))) = IdsOf(Range(s)) \cup {e.id}
         /\ Rising(Append(s, e))
<1>. DEFINE g == Append(s, e)
<1>1. /\ g \in Seq(Packet) /\ Len(g) = Len(s) + 1 /\ g[Len(g)] = e /\ Len(s) \in Nat
      /\ \A i \in 1 .. Len(s) : g[i] = s[i]
      /\ DOMAIN g = 1 .. Len(g) /\ DOMAIN s = 1 .. Len(s)
  OBVIOUS
<1>. HIDE DEF g
<1>2. \A i \in 1 .. Len(g) : i \in 1 .. Len(s) \/ i = Len(g)
  BY <1>1
<1>3. \A i \in 1 .. Len(s) : i \in 1 .. Len(g)
  BY <1>1
<1>4. Len(g) \in 1 .. Len(g)
  BY <1>1
<1>5. \A x \in IdsOf(Range(g)) : x \in IdsOf(Range(s)) \cup {e.id}
  <2>. SUFFICES ASSUME NEW x \in IdsOf(Range(g)) PROVE x \in IdsOf(Range(s)) \cup {e.id}
    OBVIOUS
  <2>1. PICK i \in 1 .. Len(g) : g[i].id = x
    BY <1>1, QueueIds
  <2>2. CASE i \in 1 .. Len(s)
    BY <1>1, <2>1, <2>2, QueueIds
  <2>3. CASE i = Len(g)
    BY <1>1, <2>1, <2>3
  <2>. QED
    BY <1>2, <2>2, <2>3
<1>6. \A x \in IdsOf(Range(s)) : x \in IdsOf(Range(g))
  <2>. SUFFICES ASSUME NEW x \in IdsOf(Range(s)) PROVE x \in IdsOf(Range(g))
    OBVIOUS
  <2>1. PICK i \in 1 .. Len(s) : s[i].id = x
    BY QueueIds
  <2>2. g[i].id = x /\ i \in 1 .. Len(g)
    BY <1>1, <1>3, <2>1
  <2>. QED
    BY <1>1, <2>2, QueueIds
<1>7. e.id \in IdsOf(Range(g))
  <2>1. g[Len(g)].id \in IdsOf(Range(g))
    BY <1>1, <1>4, QueueIds
  <2>. QED
    BY <1>1, <2>1
<1>8. Rising(g)
  <2>. SUFFICES ASSUME NEW j \in 1 .. Len(g), NEW k \in 1 .. Len(g), j < k
                PROVE  g[j].id < g[k].id
    BY <1>1 DEF Rising
  <2>1. j \in 1 .. Len(s)
    BY <1>1
  <2>2. CASE k \in 1 .. Len(s)
    BY <1>1, <2>1, <2>2 DEF Rising
  <2>3. CASE k = Len(g)
    <3>1. s[j].id \in IdsOf(Range(s))
      BY <2>1, QueueIds
    <3>. QED
      BY <1>1, <2>1, <2>3, <3>1
  <2>. QED
    BY <1>2, <2>2, <2>3
<1>9. IdsOf(Range(g)) = IdsOf(Range(s)) \cup {e.id}
  BY <1>5, <1>6, <1>7
<1>. QED
  BY <1>8, <1>9 DEF g

LEMMA TailIds ==
  ASSUME NEW s \in Seq(Packet), s # <<>>, Rising(s)
  PROVE  /\ Head(s).id \in IdsOf(Range(s))
         /\ IdsOf(Range(Tail(s))) = IdsOf(Range(s)) \ {Head(s).id}
         /\ Rising(Tail(s))
<1>. DEFINE g == Tail(s)
<1>1. /\ g \in Seq(Packet) /\ Len(g) = Len(s) - 1 /\ Len(s) \in Nat /\ Len(s) >= 1
      /\ Head(s) = s[1]
      /\ \A i \in 1 .. Len(g) : g[i] = s[i + 1] /\ i + 1 \in 1 .. Len(s)
      /\ DOMAIN g = 1 .. Len(g) /\ DOMAIN s = 1 .. Len(s)
  OBVIOUS
<1>. HIDE DEF g
<1>2. 1 \in 1 .. Len(s) /\ \A i \in 1 .. Len(s) : i = 1 \/ i - 1 \in 1 .. Len(g)
  BY <1>1
<1>3. \A i \in 1 .. Len(s) : i # 1 => s[1].id < s[i].id /\ s[1].id \in Nat /\ s[i].id \in Nat
  <2>1. \A i \in 1 .. Len(s) : i # 1 => 1 < i
    BY <1>1
  <2>2. \A i \in 1 .. Len(s) : s[i].id \in Nat
    BY QueueIds
  <2>. QED
    BY <1>1, <1>2, <2>1, <2>2 DEF Rising
<1>4. Head(s).id \in IdsOf(Range(s))
  BY <1>1, <1>2, QueueIds
<1>5. ASSUME NEW x \in IdsOf(Range(g))
      PROVE  x \in IdsOf(Range(s)) /\ x # Head(s).id
  <2>1. PICK i \in 1 .. Len(g) : g[i].id = x
    BY <1>1, QueueIds
  <2>2. i + 1 \in 1 .. Len(s) /\ s[i + 1].id = x /\ i + 1 # 1
    BY <1>1, <2>1
  <2>3. x \in IdsOf(Range(s))
    BY <2>2, QueueIds
  <2>4. s[1].id < x /\ s[1].id \in Nat
    BY <1>3, <2>2
  <2>. QED
    BY <1>1, <2>3, <2>4
<1>6. ASSUME NEW x \in IdsOf(Range(s)), x # Head(s).id
      PROVE  x \in IdsOf(Range(g))
  <2>1. PICK i \in 1 .. Len(s) : s[i].id = x
    BY QueueIds
  <2>2. i # 1
    BY <1>1, <1>6, <2>1
  <2>3. i - 1 \in 1 .. Len(g) /\ (i - 1) + 1 = i
    BY <1>1, <1>2, <2>2
  <2>4. g[i - 1].id = x
    BY <1>1, <2>1, <2>3
  <2>. QED
    BY <1>1, <2>3, <2>4, QueueIds
<1>7. Rising(g)
  <2>. SUFFICES ASSUME NEW j \in 1 .. Len(g), NEW k \in 1 .. Len(g), j < k
                PROVE  g[j].id < g[k].id
    BY <1>1 DEF Rising
  <2>1. j + 1 \in 1 .. Len(s) /\ k + 1 \in 1 .. Len(s) /\ j + 1 < k + 1
    BY <1>1
  <2>. QED
    BY <1>1, <2>1 DEF Rising
<1>8. IdsOf(Range(g)) = IdsOf(Range(s)) \ {Head(s).id}
  BY <1>5, <1>6
<1>. QED
  BY <1>4, <1>7, <1>8 DEF g

LEMMA TaskIds ==
  /\ \A t \in QueuedTask : IdsOf({t}) = {t.id} /\ t.id \in Nat
  /\ IdsOf({NoTask}) = {}
<1>1. ASSUME NEW t \in QueuedTask PROVE IdsOf({t}) = {t.id} /\ t.id \in Nat
  <2>1. t.id \in Nat /\ t.id # NoTask.id
    BY NoTaskIsNone DEF QueuedTask
  <2>. QED
    BY <2>1 DEF IdsOf
<1>2. IdsOf({NoTask}) = {}
  BY DEF IdsOf
<1>. QED
  BY <1>1, <1>2

LEMMA HeapIds ==
  ASSUME NEW h \in SUBSET QueuedTask, OneEach(h), NEW t \in QueuedTask
  PROVE  /\ \A u \in h : u.id \in IdsOf(h)
         /\ IdsOf(h \cup {t}) = IdsOf(h) \cup {t.id}
         /\ t.id \notin IdsOf(h) => OneEach(h \cup {t})
         /\ t \in h => t.id \in IdsOf(h) /\ IdsOf(h \ {t}) = IdsOf(h) \ {t.id}
         /\ OneEach(h \ {t})
<1>1. \A u \in h \cup {t} : u.id # NoTask.id
  BY NoTaskIsNone DEF QueuedTask
<1>2. \A u \in h : u.id \in IdsOf(h)
  BY <1>1 DEF IdsOf
<1>3. IdsOf(h \cup {t}) = IdsOf(h) \cup {t.id}
  BY <1>1 DEF IdsOf
<1>4. t.id \notin IdsOf(h) => OneEach(h \cup {t})
  BY <1>2 DEF OneEach
<1>5. OneEach(h \ {t})
  BY DEF OneEach
<1>6. ASSUME t \in h
      PROVE  t.id \in IdsOf(h) /\ IdsOf(h \ {t}) = IdsOf(h) \ {t.id}
  <2>1. ASSUME NEW x \in IdsOf(h \ {t}) PROVE x \in IdsOf(h) \ {t.id}
    <3>1. PICK u \in h \ {t} : x = u.id
      BY DEF IdsOf
    <3>. QED
      BY <1>2, <1>6, <3>1 DEF OneEach
  <2>2. ASSUME NEW x \in IdsOf(h) \ {t.id} PROVE x \in IdsOf(h \ {t})
    <3>1. PICK u \in h : x = u.id
      BY DEF IdsOf
    <3>. QED
      BY <1>1, <3>1 DEF IdsOf
  <2>. QED
    BY <1>2, <1>6, <2>1, <2>2
<1>. QED
  BY <1>2, <1>3, <1>4, <1>5, <1>6


\* The id of the packet that is in hand, if any.
IdOf(t) == IdsOf({t})

LEMMA IdOfIs == IdOf(NoTask) = {} /\ \A t \in QueuedTask : IdOf(t) = {t.id} /\ t.id \in Nat
BY TaskIds DEF IdOf

LEMMA InputAt ==
  ASSUME NEW q, NEW h, NEW k, NEW d, NEW c, NEW p \in Priority
  PROVE  AtOf(q, h, k, d, c)[InputSpot(p)] = IdsOf(Range(q[p]))
<1>1. InputSpot(p) \in Spot /\ InputSpot(p)[1] = "input" /\ InputSpot(p)[2] = p
  BY SpotsAre DEF InputSpot
<1>. QED
  BY <1>1 DEF AtOf

LEMMA HeapAt ==
  ASSUME NEW q, NEW h, NEW k, NEW d, NEW c, NEW w \in Worker
  PROVE  AtOf(q, h, k, d, c)[HeapSpot(w)] = IdsOf(h[w])
<1>1. HeapSpot(w) \in Spot /\ HeapSpot(w)[1] = "heap" /\ HeapSpot(w)[2] = w
  BY SpotsAre DEF HeapSpot
<1>. QED
  BY <1>1 DEF AtOf

LEMMA WorkerAt ==
  ASSUME NEW q, NEW h, NEW k, NEW d, NEW c, NEW w \in Worker
  PROVE  AtOf(q, h, k, d, c)[WorkerSpot(w)] = IdOf(k[w])
<1>1. WorkerSpot(w) \in Spot /\ WorkerSpot(w)[1] = "worker" /\ WorkerSpot(w)[2] = w
  BY SpotsAre DEF WorkerSpot
<1>. QED
  BY <1>1 DEF AtOf, IdOf

LEMMA HandAt ==
  ASSUME NEW q, NEW h, NEW k, NEW d, NEW c
  PROVE  AtOf(q, h, k, d, c)[HandSpot] = IdOf(d)
<1>1. HandSpot \in Spot /\ HandSpot[1] = "dispatcher"
  BY SpotsAre DEF HandSpot
<1>. QED
  BY <1>1 DEF AtOf, IdOf

LEMMA DecidedAt ==
  ASSUME NEW q, NEW h, NEW k, NEW d, NEW c
  PROVE  AtOf(q, h, k, d, c)[DecidedSpot] = c
<1>1. DecidedSpot \in Spot /\ DecidedSpot[1] = "decided"
  BY SpotsAre DEF DecidedSpot
<1>. QED
  BY <1>1 DEF AtOf


\* What is at the place l is the same in both states.
Same(l, q, h, k, d, c, q2, h2, k2, d2, c2) ==
  /\ \A p \in Priority : l = InputSpot(p) => q2[p] = q[p]
  /\ \A w \in Worker : l = HeapSpot(w) => h2[w] = h[w]
  /\ \A w \in Worker : l = WorkerSpot(w) => IdOf(k2[w]) = IdOf(k[w])
  /\ l = HandSpot => d2 = d
  /\ l = DecidedSpot => c2 = c

\* A place of which nothing changes keeps its ids.
LEMMA Frame ==
  ASSUME NEW q, NEW h, NEW k, NEW d, NEW c, NEW q2, NEW h2, NEW k2, NEW d2, NEW c2,
         NEW l \in Spot, Same(l, q, h, k, d, c, q2, h2, k2, d2, c2)
  PROVE  AtOf(q2, h2, k2, d2, c2)[l] = AtOf(q, h, k, d, c)[l]
<1>1. CASE \E p \in Priority : l = InputSpot(p)
  <2>1. PICK p \in Priority : l = InputSpot(p)
    BY <1>1
  <2>2. AtOf(q, h, k, d, c)[InputSpot(p)] = IdsOf(Range(q[p]))
    BY InputAt
  <2>3. AtOf(q2, h2, k2, d2, c2)[InputSpot(p)] = IdsOf(Range(q2[p]))
    BY InputAt
  <2>4. q2[p] = q[p]
    BY <2>1 DEF Same
  <2>. QED
    BY <2>1, <2>2, <2>3, <2>4
<1>2. CASE \E w \in Worker : l = HeapSpot(w)
  <2>1. PICK w \in Worker : l = HeapSpot(w)
    BY <1>2
  <2>2. AtOf(q, h, k, d, c)[HeapSpot(w)] = IdsOf(h[w])
    BY HeapAt
  <2>3. AtOf(q2, h2, k2, d2, c2)[HeapSpot(w)] = IdsOf(h2[w])
    BY HeapAt
  <2>4. h2[w] = h[w]
    BY <2>1 DEF Same
  <2>. QED
    BY <2>1, <2>2, <2>3, <2>4
<1>3. CASE \E w \in Worker : l = WorkerSpot(w)
  <2>1. PICK w \in Worker : l = WorkerSpot(w)
    BY <1>3
  <2>2. AtOf(q, h, k, d, c)[WorkerSpot(w)] = IdOf(k[w])
    BY WorkerAt
  <2>3. AtOf(q2, h2, k2, d2, c2)[WorkerSpot(w)] = IdOf(k2[w])
    BY WorkerAt
  <2>4. IdOf(k2[w]) = IdOf(k[w])
    BY <2>1 DEF Same
  <2>. QED
    BY <2>1, <2>2, <2>3, <2>4
<1>4. CASE l = HandSpot
  <2>1. AtOf(q, h, k, d, c)[HandSpot] = IdOf(d)
    BY HandAt
  <2>2. AtOf(q2, h2, k2, d2, c2)[HandSpot] = IdOf(d2)
    BY HandAt
  <2>. QED
    BY <1>4, <2>1, <2>2 DEF Same
<1>5. CASE l = DecidedSpot
  <2>1. AtOf(q, h, k, d, c)[DecidedSpot] = c
    BY DecidedAt
  <2>2. AtOf(q2, h2, k2, d2, c2)[DecidedSpot] = c2
    BY DecidedAt
  <2>. QED
    BY <1>5, <2>1, <2>2 DEF Same
<1>. QED
  BY <1>1, <1>2, <1>3, <1>4, <1>5, SpotsAre

\* The function g is the function f on s, but for its value v at x.
Changed(s, f, g, x, v) == g[x] = v /\ \A y \in s \ {x} : g[y] = f[y]

\* t is a task made of the first packet of s, whose id is x.
TaskOf(t, s, x) == s # <<>> /\ Head(s).id = x /\ t.id = x
\* t stands for no task.
Idle(t) == t = NoTask

LEMMA InputGains ==
  ASSUME NEW q \in [Priority -> Seq(Packet)], NEW h, NEW k, NEW d, NEW c, NEW n \in Nat,
         Apart(AtOf(q, h, k, d, c), n), NEW p \in Priority, NEW e \in Packet, e.id = n,
         Rising(q[p]), NEW q2, Changed(Priority, q, q2, p, Append(q[p], e))
  PROVE  Apart(AtOf(q2, h, k, d, c), n + 1) /\ Rising(q2[p])
<1>. DEFINE at == AtOf(q, h, k, d, c)
            at2 == AtOf(q2, h, k, d, c)
<1>1. at[InputSpot(p)] = IdsOf(Range(q[p]))
  BY InputAt
<1>2. at2[InputSpot(p)] = IdsOf(Range(q2[p]))
  BY InputAt
<1>3. InputSpot(p) \in Spot
  BY SpotsAre
<1>4. \A l \in Spot : l # InputSpot(p) => at2[l] = at[l]
  <2>. SUFFICES ASSUME NEW l \in Spot, l # InputSpot(p) PROVE at2[l] = at[l]
    OBVIOUS
  <2>1. Same(l, q, h, k, d, c, q2, h, k, d, c)
    BY DEF Same, Changed
  <2>. QED
    BY <2>1, Frame
<1>5. Apart(at, n)
  OBVIOUS
<1>. HIDE DEF at, at2
<1>6. \A x \in IdsOf(Range(q[p])) : x < e.id
  BY <1>1, <1>3, <1>5 DEF Apart
<1>7. q2[p] = Append(q[p], e) /\ q[p] \in Seq(Packet)
  BY DEF Changed
<1>8. IdsOf(Range(q2[p])) = IdsOf(Range(q[p])) \cup {e.id} /\ Rising(q2[p])
  BY <1>6, <1>7, AppendIds
<1>9. at2[InputSpot(p)] = at[InputSpot(p)] \cup {n}
  BY <1>1, <1>2, <1>8
<1>10. Apart(at2, n + 1)
  BY <1>3, <1>4, <1>5, <1>9, Comes
<1>. QED
  BY <1>8, <1>10 DEF at2

\* The first packet of a channel leaves it.
LEMMA HeadLeaves ==
  ASSUME NEW q \in [Priority -> Seq(Packet)], NEW p \in Priority, q[p] # <<>>, Rising(q[p]),
         NEW q2, Changed(Priority, q, q2, p, Tail(q[p]))
  PROVE  /\ Head(q[p]).id \in IdsOf(Range(q[p]))
         /\ IdsOf(Range(q2[p])) = IdsOf(Range(q[p])) \ {Head(q[p]).id}
         /\ Rising(q2[p])
<1>1. q2[p] = Tail(q[p]) /\ q[p] \in Seq(Packet)
  BY DEF Changed
<1>. QED
  BY <1>1, TailIds

LEMMA InputToHand ==
  ASSUME NEW q \in [Priority -> Seq(Packet)], NEW h, NEW k, NEW c, NEW n,
         Apart(AtOf(q, h, k, NoTask, c), n), NEW p \in Priority, Rising(q[p]),
         NEW t \in QueuedTask, NEW x, TaskOf(t, q[p], x),
         NEW q2, Changed(Priority, q, q2, p, Tail(q[p]))
  PROVE  Apart(AtOf(q2, h, k, t, c), n)
<1>. DEFINE at == AtOf(q, h, k, NoTask, c)
            at2 == AtOf(q2, h, k, t, c)
<1>1. at[InputSpot(p)] = IdsOf(Range(q[p]))
  BY InputAt
<1>2. at2[InputSpot(p)] = IdsOf(Range(q2[p]))
  BY InputAt
<1>3. at[HandSpot] = IdOf(NoTask)
  BY HandAt
<1>4. at2[HandSpot] = IdOf(t)
  BY HandAt
<1>5. InputSpot(p) \in Spot /\ HandSpot \in Spot /\ InputSpot(p) # HandSpot
  BY SpotsAre, SpotsDiffer
<1>6. \A l \in Spot : l # InputSpot(p) /\ l # HandSpot => at2[l] = at[l]
  <2>. SUFFICES ASSUME NEW l \in Spot, l # InputSpot(p), l # HandSpot PROVE at2[l] = at[l]
    OBVIOUS
  <2>1. Same(l, q, h, k, NoTask, c, q2, h, k, t, c)
    BY DEF Same, Changed
  <2>. QED
    BY <2>1, Frame
<1>7. Apart(at, n)
  OBVIOUS
<1>. HIDE DEF at, at2
<1>8. /\ x \in at[InputSpot(p)]
      /\ at2[InputSpot(p)] = at[InputSpot(p)] \ {x}
  <2>1. /\ x \in IdsOf(Range(q[p]))
        /\ IdsOf(Range(q2[p])) = IdsOf(Range(q[p])) \ {x}
    BY HeadLeaves DEF TaskOf
  <2>. QED
    BY <1>1, <1>2, <2>1
<1>9. at2[HandSpot] = at[HandSpot] \cup {x}
  <2>1. IdOf(NoTask) = {}
    BY IdOfIs
  <2>2. IdOf(t) = {t.id}
    BY IdOfIs
  <2>3. t.id = x
    BY DEF TaskOf
  <2>4. \A i : i \notin at[HandSpot]
    BY <1>3, <2>1
  <2>5. \A i : i \in at2[HandSpot] <=> i = x
    BY <1>4, <2>2, <2>3
  <2>. QED
    BY <2>4, <2>5
<1>10. Moved(at, at2, InputSpot(p), HandSpot, x)
  BY <1>5, <1>6, <1>8, <1>9 DEF Moved
<1>11. Apart(at2, n)
  BY <1>5, <1>7, <1>10, Moves
<1>. QED
  BY <1>11 DEF at2

LEMMA InputToWorker ==
  ASSUME NEW q \in [Priority -> Seq(Packet)], NEW h, NEW k, NEW d, NEW c, NEW n,
         Apart(AtOf(q, h, k, d, c), n), NEW p \in Priority, Rising(q[p]),
         NEW w \in Worker, Idle(k[w]),
         NEW t \in QueuedTask, NEW x, TaskOf(t, q[p], x),
         NEW q2, Changed(Priority, q, q2, p, Tail(q[p])),
         NEW k2, Changed(Worker, k, k2, w, t)
  PROVE  Apart(AtOf(q2, h, k2, d, c), n)
<1>. DEFINE at == AtOf(q, h, k, d, c)
            at2 == AtOf(q2, h, k2, d, c)
<1>1. at[InputSpot(p)] = IdsOf(Range(q[p]))
  BY InputAt
<1>2. at2[InputSpot(p)] = IdsOf(Range(q2[p]))
  BY InputAt
<1>3. at[WorkerSpot(w)] = IdOf(k[w])
  BY WorkerAt
<1>4. at2[WorkerSpot(w)] = IdOf(k2[w])
  BY WorkerAt
<1>5. InputSpot(p) \in Spot /\ WorkerSpot(w) \in Spot /\ InputSpot(p) # WorkerSpot(w)
  BY SpotsAre, SpotsDiffer
<1>6. \A l \in Spot : l # InputSpot(p) /\ l # WorkerSpot(w) => at2[l] = at[l]
  <2>. SUFFICES ASSUME NEW l \in Spot, l # InputSpot(p), l # WorkerSpot(w) PROVE at2[l] = at[l]
    OBVIOUS
  <2>1. Same(l, q, h, k, d, c, q2, h, k2, d, c)
    BY DEF Same, Changed
  <2>. QED
    BY <2>1, Frame
<1>7. Apart(at, n)
  OBVIOUS
<1>. HIDE DEF at, at2
<1>8. /\ x \in at[InputSpot(p)]
      /\ at2[InputSpot(p)] = at[InputSpot(p)] \ {x}
  <2>1. /\ x \in IdsOf(Range(q[p]))
        /\ IdsOf(Range(q2[p])) = IdsOf(Range(q[p])) \ {x}
    BY HeadLeaves DEF TaskOf
  <2>. QED
    BY <1>1, <1>2, <2>1
<1>9. at2[WorkerSpot(w)] = at[WorkerSpot(w)] \cup {x}
  <2>1. IdOf(k[w]) = {}
    BY IdOfIs DEF Idle
  <2>2. IdOf(k2[w]) = {t.id}
    BY IdOfIs DEF Changed
  <2>3. t.id = x
    BY DEF TaskOf
  <2>4. \A i : i \notin at[WorkerSpot(w)]
    BY <1>3, <2>1
  <2>5. \A i : i \in at2[WorkerSpot(w)] <=> i = x
    BY <1>4, <2>2, <2>3
  <2>. QED
    BY <2>4, <2>5
<1>10. Moved(at, at2, InputSpot(p), WorkerSpot(w), x)
  BY <1>5, <1>6, <1>8, <1>9 DEF Moved
<1>11. Apart(at2, n)
  BY <1>5, <1>7, <1>10, Moves
<1>. QED
  BY <1>11 DEF at2


\* A task joins a heap in which its id is not, or leaves it.
LEMMA HeapGains ==
  ASSUME NEW h, NEW w \in Worker, h[w] \subseteq QueuedTask, OneEach(h[w]),
         NEW t \in QueuedTask, t.id \notin IdsOf(h[w]),
         NEW h2, Changed(Worker, h, h2, w, h[w] \cup {t})
  PROVE  IdsOf(h2[w]) = IdsOf(h[w]) \cup {t.id} /\ OneEach(h2[w])
<1>1. h2[w] = h[w] \cup {t}
  BY DEF Changed
<1>. QED
  BY <1>1, HeapIds

LEMMA HeapLoses ==
  ASSUME NEW h, NEW w \in Worker, h[w] \subseteq QueuedTask, OneEach(h[w]),
         NEW t \in h[w], NEW h2, Changed(Worker, h, h2, w, h[w] \ {t})
  PROVE  /\ t.id \in IdsOf(h[w])
         /\ IdsOf(h2[w]) = IdsOf(h[w]) \ {t.id} /\ OneEach(h2[w])
<1>1. h2[w] = h[w] \ {t} /\ t \in QueuedTask
  BY DEF Changed
<1>. QED
  BY <1>1, HeapIds

LEMMA HandToHeap ==
  ASSUME NEW q, NEW h, NEW k, NEW c, NEW n, NEW t \in QueuedTask,
         Apart(AtOf(q, h, k, t, c), n),
         NEW w \in Worker, h[w] \subseteq QueuedTask, OneEach(h[w]),
         NEW h2, Changed(Worker, h, h2, w, h[w] \cup {t})
  PROVE  Apart(AtOf(q, h2, k, NoTask, c), n) /\ OneEach(h2[w])
<1>. DEFINE at == AtOf(q, h, k, t, c)
            at2 == AtOf(q, h2, k, NoTask, c)
<1>1. at[HeapSpot(w)] = IdsOf(h[w])
  BY HeapAt
<1>2. at2[HeapSpot(w)] = IdsOf(h2[w])
  BY HeapAt
<1>3. at[HandSpot] = IdOf(t)
  BY HandAt
<1>4. at2[HandSpot] = IdOf(NoTask)
  BY HandAt
<1>5. HeapSpot(w) \in Spot /\ HandSpot \in Spot /\ HandSpot # HeapSpot(w)
  BY SpotsAre, SpotsDiffer
<1>6. \A l \in Spot : l # HandSpot /\ l # HeapSpot(w) => at2[l] = at[l]
  <2>. SUFFICES ASSUME NEW l \in Spot, l # HandSpot, l # HeapSpot(w) PROVE at2[l] = at[l]
    OBVIOUS
  <2>1. Same(l, q, h, k, t, c, q, h2, k, NoTask, c)
    BY DEF Same, Changed
  <2>. QED
    BY <2>1, Frame
<1>7. Apart(at, n)
  OBVIOUS
<1>. HIDE DEF at, at2
<1>8. IdOf(NoTask) = {} /\ IdOf(t) = {t.id}
  BY IdOfIs
<1>9. t.id \in at[HandSpot] /\ at2[HandSpot] = at[HandSpot] \ {t.id}
  BY <1>3, <1>4, <1>8
<1>10. t.id \notin IdsOf(h[w])
  BY <1>1, <1>5, <1>7, <1>9 DEF Apart
<1>11. IdsOf(h2[w]) = IdsOf(h[w]) \cup {t.id} /\ OneEach(h2[w])
  BY <1>10, HeapGains
<1>12. Moved(at, at2, HandSpot, HeapSpot(w), t.id)
  BY <1>1, <1>2, <1>5, <1>6, <1>9, <1>11 DEF Moved
<1>13. Apart(at2, n)
  BY <1>5, <1>7, <1>12, Moves
<1>. QED
  BY <1>11, <1>13 DEF at2

LEMMA HeapToWorker ==
  ASSUME NEW q, NEW h, NEW k, NEW d, NEW c, NEW n,
         Apart(AtOf(q, h, k, d, c), n),
         NEW w \in Worker, h[w] \subseteq QueuedTask, OneEach(h[w]), Idle(k[w]),
         NEW t \in h[w], NEW h2, Changed(Worker, h, h2, w, h[w] \ {t}),
         NEW k2, Changed(Worker, k, k2, w, t)
  PROVE  Apart(AtOf(q, h2, k2, d, c), n) /\ OneEach(h2[w])
<1>. DEFINE at == AtOf(q, h, k, d, c)
            at2 == AtOf(q, h2, k2, d, c)
<1>1. at[HeapSpot(w)] = IdsOf(h[w])
  BY HeapAt
<1>2. at2[HeapSpot(w)] = IdsOf(h2[w])
  BY HeapAt
<1>3. at[WorkerSpot(w)] = IdOf(k[w])
  BY WorkerAt
<1>4. at2[WorkerSpot(w)] = IdOf(k2[w])
  BY WorkerAt
<1>5. HeapSpot(w) \in Spot /\ WorkerSpot(w) \in Spot /\ HeapSpot(w) # WorkerSpot(w)
  BY SpotsAre, SpotsDiffer
<1>6. \A l \in Spot : l # HeapSpot(w) /\ l # WorkerSpot(w) => at2[l] = at[l]
  <2>. SUFFICES ASSUME NEW l \in Spot, l # HeapSpot(w), l # WorkerSpot(w) PROVE at2[l] = at[l]
    OBVIOUS
  <2>1. Same(l, q, h, k, d, c, q, h2, k2, d, c)
    BY DEF Same, Changed
  <2>. QED
    BY <2>1, Frame
<1>7. Apart(at, n)
  OBVIOUS
<1>. HIDE DEF at, at2
<1>8. IdOf(k[w]) = {} /\ IdOf(k2[w]) = {t.id}
  <2>1. k[w] = NoTask /\ k2[w] = t /\ t \in QueuedTask
    BY DEF Idle, Changed
  <2>. QED
    BY <2>1, IdOfIs
<1>9. at2[WorkerSpot(w)] = at[WorkerSpot(w)] \cup {t.id}
  BY <1>3, <1>4, <1>8
<1>10. /\ t.id \in IdsOf(h[w])
       /\ IdsOf(h2[w]) = IdsOf(h[w]) \ {t.id} /\ OneEach(h2[w])
  BY HeapLoses
<1>11. Moved(at, at2, HeapSpot(w), WorkerSpot(w), t.id)
  BY <1>1, <1>2, <1>5, <1>6, <1>9, <1>10 DEF Moved
<1>12. Apart(at2, n)
  BY <1>5, <1>7, <1>11, Moves
<1>. QED
  BY <1>10, <1>12 DEF at2

\* The task that is put back is the one in hand, with what is left of it.
PutBackOf(t, u) == u.id = t.id

LEMMA WorkerToHeap ==
  ASSUME NEW q, NEW h, NEW k, NEW d, NEW c, NEW n,
         Apart(AtOf(q, h, k, d, c), n),
         NEW w \in Worker, h[w] \subseteq QueuedTask, OneEach(h[w]), k[w] \in QueuedTask,
         NEW t \in QueuedTask, PutBackOf(t, k[w]),
         NEW h2, Changed(Worker, h, h2, w, h[w] \cup {t}),
         NEW k2, Changed(Worker, k, k2, w, NoTask)
  PROVE  Apart(AtOf(q, h2, k2, d, c), n) /\ OneEach(h2[w])
<1>. DEFINE at == AtOf(q, h, k, d, c)
            at2 == AtOf(q, h2, k2, d, c)
<1>1. at[HeapSpot(w)] = IdsOf(h[w])
  BY HeapAt
<1>2. at2[HeapSpot(w)] = IdsOf(h2[w])
  BY HeapAt
<1>3. at[WorkerSpot(w)] = IdOf(k[w])
  BY WorkerAt
<1>4. at2[WorkerSpot(w)] = IdOf(k2[w])
  BY WorkerAt
<1>5. HeapSpot(w) \in Spot /\ WorkerSpot(w) \in Spot /\ WorkerSpot(w) # HeapSpot(w)
  BY SpotsAre, SpotsDiffer
<1>6. \A l \in Spot : l # WorkerSpot(w) /\ l # HeapSpot(w) => at2[l] = at[l]
  <2>. SUFFICES ASSUME NEW l \in Spot, l # WorkerSpot(w), l # HeapSpot(w) PROVE at2[l] = at[l]
    OBVIOUS
  <2>1. Same(l, q, h, k, d, c, q, h2, k2, d, c)
    BY DEF Same, Changed
  <2>. QED
    BY <2>1, Frame
<1>7. Apart(at, n)
  OBVIOUS
<1>. HIDE DEF at, at2
<1>8. IdOf(k[w]) = {t.id} /\ IdOf(k2[w]) = {}
  <2>1. k2[w] = NoTask /\ k[w].id = t.id
    BY DEF Changed, PutBackOf
  <2>. QED
    BY <2>1, IdOfIs
<1>9. t.id \in at[WorkerSpot(w)] /\ at2[WorkerSpot(w)] = at[WorkerSpot(w)] \ {t.id}
  BY <1>3, <1>4, <1>8
<1>10. t.id \notin IdsOf(h[w])
  BY <1>1, <1>5, <1>7, <1>9 DEF Apart
<1>11. IdsOf(h2[w]) = IdsOf(h[w]) \cup {t.id} /\ OneEach(h2[w])
  BY <1>10, HeapGains
<1>12. Moved(at, at2, WorkerSpot(w), HeapSpot(w), t.id)
  BY <1>1, <1>2, <1>5, <1>6, <1>9, <1>11 DEF Moved
<1>13. Apart(at2, n)
  BY <1>5, <1>7, <1>12, Moves
<1>. QED
  BY <1>11, <1>13 DEF at2

LEMMA WorkerToDecided ==
  ASSUME NEW q, NEW h, NEW k, NEW d, NEW c, NEW n,
         Apart(AtOf(q, h, k, d, c), n),
         NEW w \in Worker, k[w] \in QueuedTask, NEW x, k[w].id = x,
         NEW c2, c2 = c \cup {x},
         NEW k2, Changed(Worker, k, k2, w, NoTask)
  PROVE  Apart(AtOf(q, h, k2, d, c2), n)
<1>. DEFINE at == AtOf(q, h, k, d, c)
            at2 == AtOf(q, h, k2, d, c2)
<1>1. at[DecidedSpot] = c
  BY DecidedAt
<1>2. at2[DecidedSpot] = c2
  BY DecidedAt
<1>3. at[WorkerSpot(w)] = IdOf(k[w])
  BY WorkerAt
<1>4. at2[WorkerSpot(w)] = IdOf(k2[w])
  BY WorkerAt
<1>5. DecidedSpot \in Spot /\ WorkerSpot(w) \in Spot /\ WorkerSpot(w) # DecidedSpot
  BY SpotsAre, SpotsDiffer
<1>6. \A l \in Spot : l # WorkerSpot(w) /\ l # DecidedSpot => at2[l] = at[l]
  <2>. SUFFICES ASSUME NEW l \in Spot, l # WorkerSpot(w), l # DecidedSpot PROVE at2[l] = at[l]
    OBVIOUS
  <2>1. Same(l, q, h, k, d, c, q, h, k2, d, c2)
    BY DEF Same, Changed
  <2>. QED
    BY <2>1, Frame
<1>7. Apart(at, n)
  OBVIOUS
<1>. HIDE DEF at, at2
<1>8. IdOf(k[w]) = {x} /\ IdOf(k2[w]) = {}
  <2>1. k2[w] = NoTask
    BY DEF Changed
  <2>. QED
    BY <2>1, IdOfIs
<1>9. x \in at[WorkerSpot(w)] /\ at2[WorkerSpot(w)] = at[WorkerSpot(w)] \ {x}
  BY <1>3, <1>4, <1>8
<1>10. at2[DecidedSpot] = at[DecidedSpot] \cup {x}
  BY <1>1, <1>2
<1>11. Moved(at, at2, WorkerSpot(w), DecidedSpot, x)
  BY <1>5, <1>6, <1>9, <1>10 DEF Moved
<1>12. Apart(at2, n)
  BY <1>5, <1>7, <1>11, Moves
<1>. QED
  BY <1>12 DEF at2

\* A worker works on the task it has.
LEMMA Relabel ==
  ASSUME NEW q, NEW h, NEW k, NEW d, NEW c, NEW n,
         Apart(AtOf(q, h, k, d, c), n),
         NEW k2, \A w \in Worker : IdOf(k2[w]) = IdOf(k[w])
  PROVE  Apart(AtOf(q, h, k2, d, c), n)
<1>1. \A l \in Spot : AtOf(q, h, k2, d, c)[l] = AtOf(q, h, k, d, c)[l]
  <2>. SUFFICES ASSUME NEW l \in Spot
                PROVE  AtOf(q, h, k2, d, c)[l] = AtOf(q, h, k, d, c)[l]
    OBVIOUS
  <2>1. Same(l, q, h, k, d, c, q, h, k2, d, c)
    BY DEF Same
  <2>. QED
    BY <2>1, Frame
<1>. QED
  BY <1>1 DEF Apart


\* Every packet that arrived is in one place; in a channel or a heap it is once.
ConserveInv ==
  /\ Apart(AtOf(inQueue, heap, task, inHand, decided), arrived)
  /\ \A p \in Priority : Rising(inQueue[p])
  /\ \A w \in Worker : OneEach(heap[w])


LEMMA StillConserved ==
  ASSUME ConserveInv, UNCHANGED <<inQueue, heap, task, inHand, decided, arrived>>
  PROVE  ConserveInv'
BY DEF ConserveInv

LEMMA ArriveConserves ==
  ASSUME WorkInv, ConserveInv, NEW p \in Priority, Arrive(p)
  PROVE  ConserveInv'
<1>1. /\ inQueue' = [inQueue EXCEPT ![p] = Append(@, [id |-> arrived, ts |-> clock])]
      /\ arrived' = arrived + 1
      /\ heap' = heap /\ task' = task /\ inHand' = inHand /\ decided' = decided
  BY DEF Arrive, dispatchVars, queueVars, workerVars
<1>2. inQueue \in [Priority -> Seq(Packet)] /\ arrived \in Nat /\ clock \in Nat
  BY DEF WorkInv, SharedTypes
<1>3. PICK e \in Packet : e = [id |-> arrived, ts |-> clock]
  BY <1>2 DEF Packet
<1>4. e.id = arrived
  BY <1>3
<1>5. Changed(Priority, inQueue, inQueue', p, Append(inQueue[p], e))
  BY <1>1, <1>2, <1>3 DEF Changed
<1>6. Apart(AtOf(inQueue, heap, task, inHand, decided), arrived) /\ Rising(inQueue[p])
  BY DEF ConserveInv
<1>7. Apart(AtOf(inQueue', heap, task, inHand, decided), arrived + 1) /\ Rising(inQueue'[p])
  BY <1>2, <1>4, <1>5, <1>6, InputGains
<1>8. \A r \in Priority : Rising(inQueue'[r])
  BY <1>5, <1>7 DEF ConserveInv, Changed
<1>. QED
  BY <1>1, <1>7, <1>8 DEF ConserveInv

LEMMA ReceiveConserves ==
  ASSUME WorkInv, ConserveInv, NEW p \in Priority, ReceiveNext(p)
  PROVE  ConserveInv'
<1>1. /\ inQueue' = [inQueue EXCEPT ![p] = Tail(@)]
      /\ inHand' = NewTask(p, Head(inQueue[p]), passTime)
      /\ arrived' = arrived /\ heap' = heap /\ task' = task /\ decided' = decided
      /\ dispatchPc = "drain" /\ p \in Chosen
  BY DEF ReceiveNext, queueVars, workerVars
<1>2. inQueue \in [Priority -> Seq(Packet)] /\ passTime \in Nat /\ inHand = NoTask
  BY <1>1 DEF WorkInv, SharedTypes, DispatchTypes, Placing
<1>3. inQueue[p] # <<>> /\ inQueue[p] \in Seq(Packet)
  BY <1>1, <1>2 DEF Chosen
<1>4. PICK t : t = NewTask(p, Head(inQueue[p]), passTime)
  OBVIOUS
<1>5. t \in QueuedTask /\ t.id = Head(inQueue[p]).id
  BY <1>2, <1>3, <1>4, HeadIs, NewTaskIs
<1>6. PICK x : TaskOf(t, inQueue[p], x)
  BY <1>3, <1>5 DEF TaskOf
<1>7. Changed(Priority, inQueue, inQueue', p, Tail(inQueue[p]))
  BY <1>1, <1>2 DEF Changed
<1>8. Apart(AtOf(inQueue, heap, task, NoTask, decided), arrived) /\ Rising(inQueue[p])
  BY <1>2 DEF ConserveInv
<1>9. Apart(AtOf(inQueue', heap, task, t, decided), arrived)
  BY <1>2, <1>5, <1>6, <1>7, <1>8, InputToHand
<1>10. Rising(inQueue'[p])
  BY <1>2, <1>3, <1>7, <1>8, HeadLeaves
<1>11. \A r \in Priority : Rising(inQueue'[r])
  BY <1>7, <1>10 DEF ConserveInv, Changed
<1>12. inHand' = t
  BY <1>1, <1>4
<1>. QED
  BY <1>1, <1>9, <1>11, <1>12 DEF ConserveInv

LEMMA PlaceConserves ==
  ASSUME WorkInv, ConserveInv, best \in Worker, Place
  PROVE  ConserveInv'
<1>1. /\ heap' = [heap EXCEPT ![best] = @ \cup {inHand}] /\ inHand' = NoTask
      /\ arrived' = arrived /\ inQueue' = inQueue /\ task' = task /\ decided' = decided
      /\ dispatchPc = "push"
  BY DEF Place, Enqueue, workerVars
<1>2. heap \in [Worker -> SUBSET QueuedTask] /\ inHand \in QueuedTask
  BY <1>1 DEF WorkInv, SharedTypes, DispatchTypes
<1>3. Changed(Worker, heap, heap', best, heap[best] \cup {inHand})
  BY <1>1, <1>2 DEF Changed
<1>4. /\ Apart(AtOf(inQueue, heap, task, inHand, decided), arrived)
      /\ heap[best] \subseteq QueuedTask /\ OneEach(heap[best])
  BY <1>2 DEF ConserveInv
<1>5. Apart(AtOf(inQueue, heap', task, NoTask, decided), arrived) /\ OneEach(heap'[best])
  BY <1>2, <1>3, <1>4, HandToHeap
<1>6. \A w \in Worker : OneEach(heap'[w])
  BY <1>3, <1>5 DEF ConserveInv, Changed
<1>. QED
  BY <1>1, <1>5, <1>6 DEF ConserveInv

LEMMA PopConserves ==
  ASSUME WorkInv, ConserveInv, NEW w \in Worker, Pop(w)
  PROVE  ConserveInv'
<1>1. /\ arrived' = arrived /\ inQueue' = inQueue /\ inHand' = inHand /\ decided' = decided
      /\ pc[w] = "top"
  BY DEF Pop, dispatchVars
<1>2. PICK t \in heap[w] : heap' = [heap EXCEPT ![w] = @ \ {t}] /\ task' = [task EXCEPT ![w] = t]
  BY DEF Pop, Urgent
<1>3. heap \in [Worker -> SUBSET QueuedTask] /\ DOMAIN task = Worker /\ Idle(task[w])
  BY <1>1 DEF WorkInv, SharedTypes, WorkerTypes, Held, Idle
<1>4. Changed(Worker, heap, heap', w, heap[w] \ {t})
  BY <1>2, <1>3 DEF Changed
<1>5. Changed(Worker, task, task', w, t)
  BY <1>2, <1>3 DEF Changed
<1>6. /\ Apart(AtOf(inQueue, heap, task, inHand, decided), arrived)
      /\ heap[w] \subseteq QueuedTask /\ OneEach(heap[w])
  BY <1>3 DEF ConserveInv
<1>7. Apart(AtOf(inQueue, heap', task', inHand, decided), arrived) /\ OneEach(heap'[w])
  BY <1>3, <1>4, <1>5, <1>6, HeapToWorker
<1>8. \A v \in Worker : OneEach(heap'[v])
  BY <1>4, <1>7 DEF ConserveInv, Changed
<1>. QED
  BY <1>1, <1>7, <1>8 DEF ConserveInv

\* The task in hand goes back into the heap, and a packet takes its place.
LEMMA ReplaceConserves ==
  ASSUME WorkInv, ConserveInv, NEW w \in Worker, NEW r, NEW p \in Intruder(r),
         NEW t \in QueuedTask, PutBackOf(t, task[w]), task[w] \in QueuedTask,
         Replace(w, p, t), UNCHANGED <<arrived, inHand, decided>>
  PROVE  ConserveInv'
<1>1. /\ heap' = [heap EXCEPT ![w] = @ \cup {t}]
      /\ task' = [task EXCEPT ![w] = NewTask(p, Head(inQueue[p]), clock)]
      /\ inQueue' = [inQueue EXCEPT ![p] = Tail(@)]
  BY DEF Replace, Enqueue
<1>2. p \in Priority /\ inQueue[p] # <<>>
  BY IntruderIs
<1>3. /\ inQueue \in [Priority -> Seq(Packet)] /\ clock \in Nat
      /\ heap \in [Worker -> SUBSET QueuedTask] /\ DOMAIN task = Worker
  BY DEF WorkInv, SharedTypes, WorkerTypes
<1>4. PICK n : n = NewTask(p, Head(inQueue[p]), clock)
  OBVIOUS
<1>5. n \in QueuedTask /\ n.id = Head(inQueue[p]).id
  BY <1>2, <1>3, <1>4, HeadIs, NewTaskIs
<1>6. PICK x : TaskOf(n, inQueue[p], x)
  BY <1>2, <1>5 DEF TaskOf
<1>7. PICK k : k = [task EXCEPT ![w] = NoTask]
  OBVIOUS
<1>8. Changed(Worker, task, k, w, NoTask) /\ Idle(k[w])
  BY <1>3, <1>7 DEF Changed, Idle
<1>9. Changed(Worker, k, task', w, n)
  BY <1>1, <1>3, <1>4, <1>7 DEF Changed
<1>10. Changed(Worker, heap, heap', w, heap[w] \cup {t})
  BY <1>1, <1>3 DEF Changed
<1>11. Changed(Priority, inQueue, inQueue', p, Tail(inQueue[p]))
  BY <1>1, <1>2, <1>3 DEF Changed
<1>12. /\ Apart(AtOf(inQueue, heap, task, inHand, decided), arrived)
       /\ heap[w] \subseteq QueuedTask /\ OneEach(heap[w]) /\ Rising(inQueue[p])
  BY <1>2, <1>3 DEF ConserveInv
<1>13. Apart(AtOf(inQueue, heap', k, inHand, decided), arrived) /\ OneEach(heap'[w])
  BY <1>8, <1>10, <1>12, WorkerToHeap
<1>14. Apart(AtOf(inQueue', heap', task', inHand, decided), arrived)
  BY <1>2, <1>3, <1>5, <1>6, <1>8, <1>9, <1>11, <1>12, <1>13, InputToWorker
<1>15. Rising(inQueue'[p])
  BY <1>2, <1>3, <1>11, <1>12, HeadLeaves
<1>16. \A s \in Priority : Rising(inQueue'[s])
  BY <1>11, <1>15 DEF ConserveInv, Changed
<1>17. \A v \in Worker : OneEach(heap'[v])
  BY <1>10, <1>13 DEF ConserveInv, Changed
<1>. QED
  BY <1>14, <1>16, <1>17 DEF ConserveInv

LEMMA PutBackConserves ==
  ASSUME WorkInv, ConserveInv, NEW w \in Worker, GuardTake(w) \/ Preempt(w)
  PROVE  ConserveInv'
<1>1. UNCHANGED <<arrived, inHand, decided>> /\ pc[w] \in Held
  BY DEF GuardTake, Preempt, dispatchVars, Held
<1>2. task[w] \in QueuedTask /\ left[w] \in Nat
  BY <1>1 DEF WorkInv, WorkerTypes
<1>3. PICK t, r : /\ t \in {task[w], PutBack(w)}
                  /\ \E p \in Intruder(r) : Replace(w, p, t)
  BY DEF GuardTake, Preempt
<1>4. t \in QueuedTask /\ PutBackOf(t, task[w])
  BY <1>2, <1>3, PutBackIs DEF PutBackOf
<1>. QED
  BY <1>1, <1>2, <1>3, <1>4, ReplaceConserves

LEMMA FinishConserves ==
  ASSUME WorkInv, ConserveInv, NEW w \in Worker, Finish(w)
  PROVE  ConserveInv'
<1>1. /\ decided' = decided \cup {task[w].id} /\ task' = [task EXCEPT ![w] = NoTask]
      /\ arrived' = arrived /\ inQueue' = inQueue /\ heap' = heap /\ inHand' = inHand
      /\ pc[w] = "process"
  BY DEF Finish, dispatchVars
<1>2. DOMAIN task = Worker /\ task[w] \in QueuedTask
  BY <1>1 DEF WorkInv, WorkerTypes, Held
<1>3. Changed(Worker, task, task', w, NoTask)
  BY <1>1, <1>2 DEF Changed
<1>4. PICK x : x = task[w].id
  OBVIOUS
<1>5. decided' = decided \cup {x}
  BY <1>1, <1>4
<1>6. Apart(AtOf(inQueue, heap, task, inHand, decided), arrived)
  BY DEF ConserveInv
<1>7. Apart(AtOf(inQueue, heap, task', inHand, decided'), arrived)
  BY <1>2, <1>3, <1>4, <1>5, <1>6, WorkerToDecided
<1>. QED
  BY <1>1, <1>7 DEF ConserveInv

LEMMA TickConserves ==
  ASSUME WorkInv, ConserveInv, Tick
  PROVE  ConserveInv'
<1>1. /\ task' = [w \in Worker |->
                    IF pc[w] = "process" /\ left[w] > 0 THEN Worked(task[w]) ELSE task[w]]
      /\ arrived' = arrived /\ inQueue' = inQueue /\ heap' = heap /\ inHand' = inHand
      /\ decided' = decided
  BY DEF Tick, dispatchVars, queueVars
<1>2. \A w \in Worker : IdOf(task'[w]) = IdOf(task[w])
  <2>. SUFFICES ASSUME NEW w \in Worker PROVE IdOf(task'[w]) = IdOf(task[w])
    OBVIOUS
  <2>1. CASE pc[w] = "process" /\ left[w] > 0
    <3>1. task'[w] = Worked(task[w]) /\ task[w] \in QueuedTask
      BY <1>1, <2>1 DEF WorkInv, WorkerTypes, Held
    <3>2. task'[w] \in QueuedTask /\ task'[w].id = task[w].id
      BY <3>1, WorkedIs
    <3>. QED
      BY <3>1, <3>2, IdOfIs
  <2>2. CASE ~(pc[w] = "process" /\ left[w] > 0)
    BY <1>1, <2>2
  <2>. QED
    BY <2>1, <2>2
<1>3. Apart(AtOf(inQueue, heap, task, inHand, decided), arrived)
  BY DEF ConserveInv
<1>4. Apart(AtOf(inQueue, heap, task', inHand, decided), arrived)
  BY <1>2, <1>3, Relabel
<1>. QED
  BY <1>1, <1>4 DEF ConserveInv


LEMMA ConserveInitially == Init => ConserveInv
<1>. SUFFICES ASSUME Init PROVE ConserveInv
  OBVIOUS
<1>1. /\ arrived = 0 /\ inQueue = [p \in Priority |-> <<>>] /\ heap = [w \in Worker |-> {}]
      /\ task = [w \in Worker |-> NoTask] /\ inHand = NoTask /\ decided = {}
  BY DEF Init
<1>2. ASSUME NEW l \in Spot PROVE AtOf(inQueue, heap, task, inHand, decided)[l] = {}
  <2>1. IdsOf({}) = {} /\ Range(<<>>) = {} /\ IdsOf({NoTask}) = {}
    BY DEF IdsOf, Range
  <2>2. CASE \E p \in Priority : l = InputSpot(p)
    <3>1. PICK p \in Priority : l = InputSpot(p)
      BY <2>2
    <3>2. AtOf(inQueue, heap, task, inHand, decided)[InputSpot(p)] = IdsOf(Range(inQueue[p]))
      BY InputAt
    <3>3. inQueue[p] = <<>>
      BY <1>1
    <3>. QED
      BY <2>1, <3>1, <3>2, <3>3
  <2>3. CASE \E w \in Worker : l = HeapSpot(w)
    <3>1. PICK w \in Worker : l = HeapSpot(w)
      BY <2>3
    <3>2. AtOf(inQueue, heap, task, inHand, decided)[HeapSpot(w)] = IdsOf(heap[w])
      BY HeapAt
    <3>3. heap[w] = {}
      BY <1>1
    <3>. QED
      BY <2>1, <3>1, <3>2, <3>3
  <2>4. CASE \E w \in Worker : l = WorkerSpot(w)
    <3>1. PICK w \in Worker : l = WorkerSpot(w)
      BY <2>4
    <3>2. AtOf(inQueue, heap, task, inHand, decided)[WorkerSpot(w)] = IdOf(task[w])
      BY WorkerAt
    <3>3. task[w] = NoTask
      BY <1>1
    <3>. QED
      BY <3>1, <3>2, <3>3, IdOfIs
  <2>5. CASE l = HandSpot
    <3>1. AtOf(inQueue, heap, task, inHand, decided)[HandSpot] = IdOf(inHand)
      BY HandAt
    <3>. QED
      BY <1>1, <2>5, <3>1, IdOfIs
  <2>6. CASE l = DecidedSpot
    <3>1. AtOf(inQueue, heap, task, inHand, decided)[DecidedSpot] = decided
      BY DecidedAt
    <3>. QED
      BY <1>1, <2>6, <3>1
  <2>. QED
    BY <2>2, <2>3, <2>4, <2>5, <2>6, SpotsAre
<1>3. Apart(AtOf(inQueue, heap, task, inHand, decided), arrived)
  <2>1. PICK at : at = AtOf(inQueue, heap, task, inHand, decided)
    OBVIOUS
  <2>2. \A l \in Spot : at[l] = {}
    BY <1>2, <2>1
  <2>3. \A i : i \notin 0 .. 0 - 1
    OBVIOUS
  <2>4. Apart(at, 0)
    BY <2>2, <2>3 DEF Apart
  <2>. QED
    BY <1>1, <2>1, <2>4
<1>4. \A p \in Priority : Rising(inQueue[p])
  BY <1>1 DEF Rising
<1>. QED
  BY <1>1, <1>3, <1>4 DEF ConserveInv, OneEach

LEMMA StepConserves == ClairvoyantInv /\ ConserveInv /\ [Next]_vars => ConserveInv'
<1>. SUFFICES ASSUME WorkInv, DepthInv, ConserveInv, [Next]_vars
              PROVE  ConserveInv'
  BY DEF ClairvoyantInv
<1>1. CASE \E p \in Priority : Arrive(p)
  BY <1>1, ArriveConserves
<1>2. CASE Stop \/ UNCHANGED vars
  <2>1. UNCHANGED <<inQueue, heap, task, inHand, decided, arrived>>
    BY <1>2 DEF Stop, vars, dispatchVars, queueVars, workerVars
  <2>. QED
    BY <2>1, StillConserved
<1>3. CASE Tick
  BY <1>3, TickConserves
<1>4. CASE Dispatcher
  <2>1. CASE DispatchTop \/ NothingToReceive \/ Estimate \/ Measure
    <3>1. UNCHANGED <<inQueue, heap, task, inHand, decided, arrived>>
      BY <2>1 DEF DispatchTop, NothingToReceive, Estimate, Measure, queueVars, workerVars
    <3>. QED
      BY <3>1, StillConserved
  <2>2. CASE Place
    BY <2>2, PlaceConserves DEF DepthInv
  <2>3. CASE \E p \in Priority : ReceiveNext(p)
    BY <2>3, ReceiveConserves
  <2>. QED
    BY <1>4, <2>1, <2>2, <2>3 DEF Dispatcher
<1>5. CASE \E w \in Worker : WorkerStep(w)
  <2>1. PICK w \in Worker : WorkerStep(w)
    BY <1>5
  <2>2. CASE WorkerExit(w) \/ GuardEnd(w)
    <3>1. UNCHANGED <<inQueue, heap, task, inHand, decided, arrived>>
      BY <2>2 DEF WorkerExit, GuardEnd, dispatchVars, queueVars
    <3>. QED
      BY <3>1, StillConserved
  <2>3. CASE Pop(w)
    BY <2>3, PopConserves
  <2>4. CASE GuardTake(w) \/ Preempt(w)
    BY <2>4, PutBackConserves
  <2>5. CASE Finish(w)
    BY <2>5, FinishConserves
  <2>. QED
    BY <2>1, <2>2, <2>3, <2>4, <2>5 DEF WorkerStep
<1>. QED
  BY <1>1, <1>2, <1>3, <1>4, <1>5 DEF Next

\* Where a packet is, as the property puts it.
LEMMA ApartAreLocated ==
  ASSUME Apart(AtOf(inQueue, heap, task, inHand, decided), arrived)
  PROVE  Places(Located, 0 .. arrived - 1)
<1>1. PICK at : at = AtOf(inQueue, heap, task, inHand, decided)
  OBVIOUS
<1>2. \A l \in Spot : IdsAt(l) = at[l]
  BY <1>1 DEF IdsAt, AtOf
<1>3. Apart(at, arrived)
  BY <1>1
<1>4. \A x : x \in Located <=> \E l \in Spot : \E i \in at[l] : x = <<i, l>>
  BY <1>2 DEF Located
<1>5. \A x \in Located : x[2] \in Spot /\ x[1] \in at[x[2]] /\ x = <<x[1], x[2]>>
  BY <1>4
<1>6. ASSUME NEW x \in Located, NEW y \in Located, x[1] = y[1] PROVE x = y
  <2>1. /\ x[2] \in Spot /\ x[1] \in at[x[2]] /\ x = <<x[1], x[2]>>
        /\ y[2] \in Spot /\ y[1] \in at[y[2]] /\ y = <<y[1], y[2]>>
    BY <1>5
  <2>2. x[2] = y[2]
    BY <1>3, <1>6, <2>1 DEF Apart
  <2>. QED
    BY <1>6, <2>1, <2>2
<1>7. \A x \in Located : x[1] \in 0 .. arrived - 1
  BY <1>3, <1>5 DEF Apart
<1>8. ASSUME NEW i \in 0 .. arrived - 1 PROVE \E x \in Located : x[1] = i
  <2>1. PICK l \in Spot : i \in at[l]
    BY <1>3 DEF Apart
  <2>2. <<i, l>> \in Located /\ <<i, l>>[1] = i
    BY <1>4, <2>1
  <2>. QED
    BY <2>2
<1>. QED
  BY <1>6, <1>7, <1>8 DEF Places

(***************************************************************************)
(* However often worker_loop puts a task back for a more urgent packet,    *)
(* every packet that arrived is in exactly one place and there once, and   *)
(* the worker will send it to the output channel of its own priority.      *)
(***************************************************************************)
THEOREM TasksAreConserved == Spec => []TasksConserved
<1>1. ClairvoyantInv /\ ConserveInv => TasksConserved
  <2>. SUFFICES ASSUME WorkInv, ConserveInv
                PROVE  TasksConserved
    BY DEF ClairvoyantInv
  <2>1. Places(Located, 0 .. arrived - 1)
    BY ApartAreLocated DEF ConserveInv
  <2>2. \A p \in Priority : Rising(inQueue[p])
    BY DEF ConserveInv
  <2>3. \A w \in Worker : OneEach(heap[w])
    BY DEF ConserveInv
  <2>4. \A w \in Worker : finalPriority[w] = task[w].of
    BY DEF WorkInv, WorkerTypes
  <2>. QED
    BY <2>1, <2>2, <2>3, <2>4 DEF TasksConserved, Rising, OneEach
<1>. QED
  BY <1>1, InitEstablishes, StepPreserves, ConserveInitially, StepConserves, PTL DEF Spec

=============================================================================
