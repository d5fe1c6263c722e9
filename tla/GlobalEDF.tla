------------------------------ MODULE GlobalEDF ------------------------------
(***************************************************************************)
(* The schedulers with one shared run queue (scheduler/gedf.rs and         *)
(* scheduler/gedf_vd.rs): a dispatcher moves packets from the input        *)
(* channels into a heap guarded by a mutex and a condition variable,       *)
(* workers take the earliest deadline out of it.  The two files differ in  *)
(* the deadline only: gedf_vd.rs scales the latency budget.                *)
(*                                                                         *)
(* The condition variable (parking_lot) has no spurious wake-ups; a        *)
(* notification that finds nobody waiting is lost.                         *)
(***************************************************************************)
EXTENDS Integers, Sequences, FiniteSets, Functions

CONSTANTS
  Workers,        \* the worker threads
  Priority,       \* the priorities in use
  Budget,         \* latency budget of each priority
  VirtualTime,    \* TRUE for gedf_vd.rs
  InCapacity,     \* capacity of each input channel
  MaxPackets,     \* bound on the packets that arrive
  MaxTime         \* bound on the time of arrival

AllPriorities == <<"High", "Medium", "Low", "BestEffort">>

NoWorker == "none"

ASSUME GlobalAssumption ==
  /\ IsFiniteSet(Workers) /\ Workers # {} /\ NoWorker \notin Workers
  /\ Priority \subseteq {AllPriorities[i] : i \in 1 .. 4}
  /\ Budget \in [Priority -> Nat]
  /\ VirtualTime \in BOOLEAN
  /\ InCapacity \in [Priority -> Nat \ {0}]
  /\ MaxPackets \in Nat /\ MaxTime \in Nat

VARIABLES
  running,    \* the shutdown flag
  arrived,    \* packets that have arrived: the id of the next one
  now,        \* arrival time of the last packet
  inQueue,    \* input channels, oldest first
  dispatchPc, \* where the dispatcher is
  place,      \* the priority the dispatcher looks at
  inHand,     \* the task the dispatcher is about to push
  heap,       \* the tasks in the shared heap
  holder,     \* the worker that holds the mutex between two of its steps
  pc,         \* where each worker is
  task,       \* the task each worker processes
  drops,      \* ids of the packets that drop_counters count
  sent,       \* history: ids of the packets sent to egress
  since       \* history: the tasks each worker left in the heap when it took its own

vars ==
  <<running, arrived, now, inQueue, dispatchPc, place, inHand, heap, holder, pc, task,
    drops, sent, since>>

workerVars == <<holder, pc, task, drops, sent, since>>
dispatchVars == <<dispatchPc, place, inHand>>

NoTask == [id |-> -1, of |-> "none", due |-> -1]

\* scaling_table, in percent, and the clamp of dispatcher_loop.
ScalingTable == [High |-> 1, Medium |-> 80, Low |-> 90, BestEffort |-> 100]
Scaling(p) == IF ~VirtualTime THEN 100 ELSE IF ScalingTable[p] < 10 THEN 10 ELSE ScalingTable[p]

\* A unit of time is 100, so that scaling a budget stays exact.
Due(p, ts) == 100 * ts + Budget[p] * Scaling(p)

Order == SelectSeq(AllPriorities, LAMBDA p : p \in Priority)

Init ==
  /\ running = TRUE
  /\ arrived = 0
  /\ now = 0
  /\ inQueue = [p \in Priority |-> <<>>]
  /\ dispatchPc = "top"
  /\ place = 1
  /\ inHand = NoTask
  /\ heap = {}
  /\ holder = NoWorker
  /\ pc = [w \in Workers |-> "pop"]
  /\ task = [w \in Workers |-> NoTask]
  /\ drops = {}
  /\ sent = {}
  /\ since = [w \in Workers |-> {}]

\* Ingress puts a packet, stamped on arrival, into an input channel.
Arrive(p) ==
  /\ running
  /\ arrived < MaxPackets
  /\ Len(inQueue[p]) < InCapacity[p]
  /\ now' \in now .. MaxTime
  /\ inQueue' = [inQueue EXCEPT ![p] = Append(@, [id |-> arrived, ts |-> now'])]
  /\ arrived' = arrived + 1
  /\ UNCHANGED <<running, dispatchVars, heap, workerVars>>

Stop ==
  /\ running
  /\ running' = FALSE
  /\ UNCHANGED <<arrived, now, inQueue, dispatchVars, heap, workerVars>>

-----------------------------------------------------------------------------
(* The dispatcher. *)

\* Mutant: the dispatcher does not read the flag.
BugDispatchTop ==
  /\ dispatchPc = "top"
  /\ dispatchPc' = "scan"
  /\ place' = 1
  /\ UNCHANGED <<running, arrived, now, inQueue, inHand, heap, workerVars>>

\* The flag is read at the top of the loop only.
DispatchTop ==
  /\ dispatchPc = "top"
  /\ dispatchPc' = IF running THEN "scan" ELSE "wake"
  /\ place' = 1
  /\ UNCHANGED <<running, arrived, now, inQueue, inHand, heap, workerVars>>

\* To the next priority, or to the top of the loop.
Advance ==
  IF place < Len(Order)
  THEN place' = place + 1 /\ dispatchPc' = "scan"
  ELSE place' = 1 /\ dispatchPc' = "top"

ScanEmpty ==
  /\ dispatchPc = "scan"
  /\ inQueue[Order[place]] = <<>>
  /\ Advance
  /\ UNCHANGED <<running, arrived, now, inQueue, inHand, heap, workerVars>>

ScanReceive(p) ==
  /\ dispatchPc = "scan" /\ Order[place] = p
  /\ inQueue[p] # <<>>
  /\ inHand' = [id |-> Head(inQueue[p]).id, of |-> p, due |-> Due(p, Head(inQueue[p]).ts)]
  /\ inQueue' = [inQueue EXCEPT ![p] = Tail(@)]
  /\ dispatchPc' = "push"
  /\ UNCHANGED <<running, arrived, now, place, heap, workerVars>>

\* Mutant: the heap keeps one task for each deadline.
BugPush ==
  /\ dispatchPc = "push"
  /\ holder = NoWorker
  /\ heap' = {t \in heap : t.due # inHand.due} \cup {inHand}
  /\ inHand' = NoTask
  /\ dispatchPc' = "notify"
  /\ UNCHANGED <<running, arrived, now, inQueue, place, workerVars>>

\* SharedQueue::push: under the mutex.
Push ==
  /\ dispatchPc = "push"
  /\ holder = NoWorker
  /\ heap' = heap \cup {inHand}
  /\ inHand' = NoTask
  /\ dispatchPc' = "notify"
  /\ UNCHANGED <<running, arrived, now, inQueue, place, workerVars>>

Waiting == {w \in Workers : pc[w] = "waiting"}

\* SharedQueue::push: notify_one, after the mutex is released.
NotifyOne ==
  /\ dispatchPc = "notify"
  /\ IF Waiting = {}
     THEN UNCHANGED pc
     ELSE \E w \in Waiting : pc' = [pc EXCEPT ![w] = "pop"]
  /\ Advance
  /\ UNCHANGED <<running, arrived, now, inQueue, inHand, heap, holder, task, drops, sent, since>>

\* SharedQueue::wake_all, without the mutex; the dispatcher ends.
WakeAll ==
  /\ dispatchPc = "wake"
  /\ pc' = [w \in Workers |-> IF w \in Waiting THEN "pop" ELSE pc[w]]
  /\ dispatchPc' = "done"
  /\ UNCHANGED <<running, arrived, now, inQueue, place, inHand, heap, holder, task, drops,
                 sent, since>>

Dispatcher ==
  \/ DispatchTop \/ ScanEmpty
  \/ \E p \in Priority : ScanReceive(p)
  \/ Push \/ NotifyOne \/ WakeAll

-----------------------------------------------------------------------------
(* The workers. *)

\* Mutant: the heap is ordered by priority.
BugEarliest(tasks) == {t \in tasks : \A u \in tasks : Budget[t.of] <= Budget[u.of]}

\* The tasks the heap may give out: an earliest one, ties in any order.
Earliest(tasks) == {t \in tasks : \A u \in tasks : t.due <= u.due}

\* Mutant: a worker takes no task after shutdown.
BugPopTask(w) ==
  /\ running
  /\ pc[w] = "pop" /\ holder = NoWorker
  /\ \E t \in Earliest(heap) :
       /\ task' = [task EXCEPT ![w] = t]
       /\ heap' = heap \ {t}
       /\ since' = [since EXCEPT ![w] = heap \ {t}]
  /\ pc' = [pc EXCEPT ![w] = "process"]
  /\ UNCHANGED <<running, arrived, now, inQueue, dispatchVars, holder, drops, sent>>

\* SharedQueue::pop finds a task.
PopTask(w) ==
  /\ pc[w] = "pop" /\ holder = NoWorker
  /\ \E t \in Earliest(heap) :
       /\ task' = [task EXCEPT ![w] = t]
       /\ heap' = heap \ {t}
       /\ since' = [since EXCEPT ![w] = heap \ {t}]
  /\ pc' = [pc EXCEPT ![w] = "process"]
  /\ UNCHANGED <<running, arrived, now, inQueue, dispatchVars, holder, drops, sent>>

\* SharedQueue::pop finds the heap empty: it keeps the mutex and reads the flag.
PopEmpty(w) ==
  /\ pc[w] = "pop" /\ holder = NoWorker
  /\ heap = {}
  /\ holder' = w
  /\ pc' = [pc EXCEPT ![w] = "check"]
  /\ UNCHANGED <<running, arrived, now, inQueue, dispatchVars, heap, task, drops, sent, since>>

CheckStopped(w) ==
  /\ pc[w] = "check" /\ ~running
  /\ holder' = NoWorker
  /\ pc' = [pc EXCEPT ![w] = "done"]
  /\ UNCHANGED <<running, arrived, now, inQueue, dispatchVars, heap, task, drops, sent, since>>

\* Mutant: the mutex is released before the worker is on the list of waiters.
BugCheckRunning(w) ==
  /\ pc[w] = "check" /\ running
  /\ holder' = NoWorker
  /\ pc' = [pc EXCEPT ![w] = "park"]
  /\ UNCHANGED <<running, arrived, now, inQueue, dispatchVars, heap, task, drops, sent, since>>

\* The flag is set: wait, with the mutex held until then.
CheckRunning(w) ==
  /\ pc[w] = "check" /\ running
  /\ pc' = [pc EXCEPT ![w] = "park"]
  /\ UNCHANGED <<running, arrived, now, inQueue, dispatchVars, heap, holder, task, drops,
                 sent, since>>

\* Condvar::wait gives up the mutex and waits, in one step.
Park(w) ==
  /\ pc[w] = "park"
  /\ holder' = NoWorker
  /\ pc' = [pc EXCEPT ![w] = "waiting"]
  /\ UNCHANGED <<running, arrived, now, inQueue, dispatchVars, heap, task, drops, sent, since>>

\* STEP 1 and 2 of worker_loop: try_send to egress, or count a drop.
Forward(w) ==
  /\ pc[w] = "process"
  /\ \/ sent' = sent \cup {task[w].id} /\ UNCHANGED drops
     \/ drops' = drops \cup {task[w].id} /\ UNCHANGED sent
  /\ task' = [task EXCEPT ![w] = NoTask]
  /\ since' = [since EXCEPT ![w] = {}]
  /\ pc' = [pc EXCEPT ![w] = "pop"]
  /\ UNCHANGED <<running, arrived, now, inQueue, dispatchVars, heap, holder>>

Worker(w) ==
  \/ PopTask(w) \/ PopEmpty(w) \/ CheckStopped(w) \/ CheckRunning(w)
  \/ Park(w) \/ Forward(w)

Next ==
  \/ \E p \in Priority : Arrive(p)
  \/ Stop
  \/ Dispatcher
  \/ \E w \in Workers : Worker(w)

Spec == Init /\ [][Next]_vars

\* Every thread keeps running.  Nothing is assumed of arrivals and shutdown.
FairSpec == Spec /\ WF_vars(Dispatcher) /\ \A w \in Workers : WF_vars(Worker(w))

-----------------------------------------------------------------------------

AllEnded == \A w \in Workers : pc[w] = "done"

(***************************************************************************)
(* No wake-up is lost: a task in the heap always has somebody who will     *)
(* look at the heap again, a worker that is not asleep or the dispatcher   *)
(* with a notification to give; but after shutdown the workers may all     *)
(* have ended before the dispatcher pushes its last tasks.                 *)
(***************************************************************************)
NoTaskSleeps ==
  heap # {} =>
    \/ dispatchPc = "notify"
    \/ \E w \in Workers : pc[w] \in {"pop", "process"}
    \/ AllEnded

\* The tasks of the packets in the input channels.
Undispatched == UNION {{[id |-> inQueue[p][i].id, of |-> p, due |-> Due(p, inQueue[p][i].ts)] :
                          i \in 1 .. Len(inQueue[p])} : p \in Priority}

(***************************************************************************)
(* "The earliest deadline across all priorities is always processed first" *)
(* (module comment of gedf.rs), as far as a heap filled by a separate      *)
(* thread can keep it: a worker's task is due no later than the tasks it   *)
(* left in the heap, even if another worker has one of them by now, and no *)
(* later than what is still on its way in its own priority.                *)
(***************************************************************************)
GlobalOrder ==
  \A w \in Workers :
    pc[w] = "process" =>
      /\ \A t \in since[w] :
           t \in heap \cup {task[v] : v \in Workers} => t.due >= task[w].due
      /\ \A t \in Undispatched \cup {inHand} \cup heap :
           t.of = task[w].of => t.due >= task[w].due

\* The places of a packet, and the ids of those that are there.
Spot ==
  {<<"input", p>> : p \in Priority} \cup {<<"worker", w>> : w \in Workers}
  \cup {<<"dispatcher", 0>>, <<"heap", 0>>, <<"sent", 0>>, <<"dropped", 0>>}

IdsOf(tasks) == {t.id : t \in tasks} \ {NoTask.id}

IdsAt(l) ==
  CASE l[1] = "input" -> IdsOf(Range(inQueue[l[2]]))
    [] l[1] = "worker" -> IdsOf({task[l[2]]})
    [] l[1] = "dispatcher" -> IdsOf({inHand})
    [] l[1] = "heap" -> IdsOf(heap)
    [] l[1] = "sent" -> sent
    [] OTHER -> drops

\* The packets that are somewhere, with the place.
Located == UNION {{<<i, l>> : i \in IdsAt(l)} : l \in Spot}

\* Every id of a set has a place, it has no second one, and there are no other ids.
Places(pairs, ids) ==
  /\ {x[1] : x \in pairs} = ids
  /\ \A x, y \in pairs : x[1] = y[1] => x = y

(***************************************************************************)
(* Every packet that arrived is in one place, an input channel, the        *)
(* dispatcher's hand, the heap, a worker's hand, egress, or a drop         *)
(* counter, and is there once: two tasks that are equal in the order of    *)
(* the heap are two tasks, and no two workers take the same one.           *)
(***************************************************************************)
TasksConserved ==
  /\ Places(Located, 0 .. arrived - 1)
  /\ \A p \in Priority : \A j, k \in DOMAIN inQueue[p] :
       j < k => inQueue[p][j].id < inQueue[p][k].id
  /\ \A t, u \in heap : t.id = u.id => t = u

(***************************************************************************)
(* The heap is emptied again and again: no task stays in it for ever, not  *)
(* even when the pipeline is shut down while it holds some, unless all     *)
(* workers have ended.                                                     *)
(***************************************************************************)
HeapDrains == []<>(heap = {} \/ AllEnded)

(***************************************************************************)
(* After shutdown the dispatcher ends, and so does every worker that is    *)
(* not asleep.                                                             *)
(***************************************************************************)
AwakeThreadsEnd ==
  ~running ~> dispatchPc = "done" /\ \A w \in Workers : pc[w] \in {"done", "waiting"}

(***************************************************************************)
(* "Called by the dispatcher when it exits to ensure all workers wake up   *)
(* and exit" (comment of wake_all), "which causes all threads to exit      *)
(* their main loops" (comment of Pipeline::shutdown).                      *)
(***************************************************************************)
WorkersEnd == ~running ~> AllEnded

=============================================================================
