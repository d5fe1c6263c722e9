--------------------------- MODULE ClairvoyantEDF ---------------------------
(***************************************************************************)
(* The clairvoyant scheduler (scheduler/cedf.rs): a dispatcher moves       *)
(* packets from the input channels to the heap of the worker that looks    *)
(* best; each worker takes the least slack out of its own heap, may hold   *)
(* the task back in a guard window, and may be preempted while it works.   *)
(* Workers take the packets that preempt straight from the input channels. *)
(*                                                                         *)
(* Time is counted in units.  A Tick advances the clock and every timer:   *)
(* the guard windows and what is left to process.  Two try_recv calls in a *)
(* row, the first of which finds its channel empty, are one step: a packet *)
(* that arrives between them might as well have arrived after the second.  *)
(***************************************************************************)
EXTENDS Integers, Sequences, FiniteSetsExt

CONSTANTS
  Workers,      \* number of worker threads
  Priority,     \* the priorities in use
  Budget,       \* latency budget of each priority
  Need,         \* processing_duration of the packets of each priority
  GuardCap,     \* longest guard window of Medium and of Low
  Window,       \* window_size of the latency trackers
  Millisecond,  \* units of time in a millisecond
  DepthPenalty, \* milliseconds of slack a queued task costs its worker
  InCapacity,   \* capacity of each input channel
  Loads,        \* bound on what arrives: the priorities of the packets, in order
  MaxTime       \* bound on the clock: later instants are not told apart

AllPriorities == <<"High", "Medium", "Low", "BestEffort">>

ASSUME ClairvoyantAssumption ==
  /\ Workers \in Nat \ {0}
  /\ Priority \subseteq {AllPriorities[i] : i \in 1 .. 4}
  /\ {"High", "Medium", "Low"} \subseteq Priority
  /\ Budget \in [Priority -> Nat]
  /\ Need \in [Priority -> Nat \ {0}]
  /\ GuardCap \in [{"Medium", "Low"} -> Nat]
  /\ Window \in Nat \ {0}
  /\ Millisecond \in Nat \ {0} /\ DepthPenalty \in Nat
  /\ InCapacity \in Nat \ {0}
  /\ Loads \subseteq Seq(Priority) /\ MaxTime \in Nat

VARIABLES
  running,    \* the shutdown flag
  arrived,    \* packets that have arrived: the id of the next one
  coming,     \* the priorities of the packets still to arrive
  clock,      \* the time
  inQueue,    \* input channels, oldest first
  dispatchPc, \* where the dispatcher is
  passTime,   \* the time the dispatcher read at the top of its loop
  inHand,     \* the task the dispatcher is about to place
  best,       \* best worker so far
  heap,       \* the tasks queued for each worker
  pc,         \* where each worker is
  task,       \* task_to_process of each worker
  finalPriority,
  original,   \* original_packet, original_priority
  left,       \* what is left of each worker's guard window or processing
  latencies,  \* the window of the tracker of Medium and of Low, oldest first
  maximum,    \* max_latency_us of the two trackers
  decided,    \* ids of the packets sent to an output channel or counted in drop_counters
  completion, \* estimated_completion of each worker
  estimate,   \* the one the dispatcher has just read
  seen,       \* what find_best_worker has read for inHand, worker by worker
  returned    \* history: tasks each worker has put back since its depth was read

dispatchVars == <<dispatchPc, passTime, inHand, best, estimate, seen>>
\* A WorkerQueue: the heap and the estimate that push maintains beside it.
queueVars == <<heap, completion>>
workerVars == <<pc, task, finalPriority, original, left>>
trackerVars == <<latencies, maximum>>
vars ==
  <<running, arrived, coming, clock, inQueue, dispatchVars, queueVars, workerVars, trackerVars,
    decided, returned>>

Worker == 1 .. Workers
Order == SelectSeq(AllPriorities, LAMBDA p : p \in Priority)
Tracked == {"Medium", "Low"}

Least(a, b) == IF a <= b THEN a ELSE b
\* saturating_sub, saturating_duration_since
Minus(a, b) == IF a <= b THEN 0 ELSE a - b
One(condition) == IF condition THEN 1 ELSE 0

\* est is what is left to process; worked, what has been processed, is history.
NoTask == [id |-> -1, of |-> "none", ts |-> 0, slack |-> 0, est |-> 0, worked |-> 0]
Task(packet, p, slack, est, worked) ==
  [id |-> packet.id, of |-> p, ts |-> packet.ts, slack |-> slack, est |-> est, worked |-> worked]
\* calculate_slack_time and the QueuedTask made of a packet at time t.
NewTask(p, packet, t) ==
  Task(packet, p, Minus(packet.ts + Budget[p], t + Need[p]), Need[p], 0)

Init ==
  /\ running = TRUE
  /\ arrived = 0
  /\ coming \in Loads
  /\ clock = 0
  /\ inQueue = [p \in Priority |-> <<>>]
  /\ dispatchPc = "top"
  /\ passTime = 0
  /\ inHand = NoTask
  /\ best = 1
  /\ completion = [w \in Worker |-> 0]
  /\ estimate = 0
  /\ seen = <<>>
  /\ returned = [w \in Worker |-> 0]
  /\ heap = [w \in Worker |-> {}]
  /\ pc = [w \in Worker |-> "top"]
  /\ task = [w \in Worker |-> NoTask]
  /\ finalPriority = [w \in Worker |-> "none"]
  /\ original = [w \in Worker |-> NoTask]
  /\ left = [w \in Worker |-> 0]
  /\ latencies = [p \in Tracked |-> <<>>]
  /\ maximum = [p \in Tracked |-> 0]
  /\ decided = {}

\* Ingress puts a packet, stamped on arrival, into an input channel.
Arrive(p) ==
  /\ running
  /\ coming # <<>> /\ p = Head(coming)
  /\ coming' = Tail(coming)
  /\ Len(inQueue[p]) < InCapacity
  /\ inQueue' = [inQueue EXCEPT ![p] = Append(@, [id |-> arrived, ts |-> clock])]
  /\ arrived' = arrived + 1
  /\ UNCHANGED <<running, clock, dispatchVars, queueVars, workerVars, trackerVars, decided,
                 returned>>

Stop ==
  /\ running
  /\ running' = FALSE
  /\ UNCHANGED <<arrived, coming, clock, inQueue, dispatchVars, queueVars, workerVars,
                 trackerVars, decided, returned>>

Worked(t) == Task(t, t.of, t.slack, t.est, t.worked + 1)

\* A unit of time passes; the busy wait of a worker with something left counts it.
Tick ==
  /\ clock' = Least(clock + 1, MaxTime)
  /\ left' = [w \in Worker |-> Minus(left[w], 1)]
  /\ task' = [w \in Worker |->
                IF pc[w] = "process" /\ left[w] > 0 THEN Worked(task[w]) ELSE task[w]]
  /\ UNCHANGED <<running, arrived, coming, inQueue, dispatchVars, queueVars, pc, finalPriority,
                 original, trackerVars, decided, returned>>

-----------------------------------------------------------------------------
(* The dispatcher. *)

\* Mutant: the lower priorities are not all looked at.
BugChosen == IF inQueue["High"] # <<>> THEN {"High"} ELSE {"Medium"} \cap {p \in Priority : inQueue[p] # <<>>}

\* What the dispatcher reads next: High until it is empty, then the first of the rest.
Chosen ==
  {Order[i] : i \in {j \in DOMAIN Order :
      inQueue[Order[j]] # <<>> /\ \A k \in 1 .. j - 1 : inQueue[Order[k]] = <<>>}}

\* Mutant: the dispatcher does not read the flag.
BugDispatchTop ==
  /\ dispatchPc = "top"
  /\ running => Chosen # {}
  /\ dispatchPc' = "drain"
  /\ passTime' = clock
  /\ UNCHANGED <<running, arrived, coming, clock, inQueue, inHand, best, estimate, seen, queueVars,
                 workerVars, trackerVars, decided, returned>>

\* The flag and the clock are read at the top of the loop only.  A pass that begins while all
\* channels are empty is left out: it differs only if a packet arrives in the middle of it.
DispatchTop ==
  /\ dispatchPc = "top"
  /\ running => Chosen # {}
  /\ dispatchPc' = IF running THEN "drain" ELSE "done"
  /\ passTime' = IF running THEN clock ELSE 0
  /\ UNCHANGED <<running, arrived, coming, clock, inQueue, inHand, best, estimate, seen, queueVars,
                 workerVars, trackerVars, decided, returned>>

ReceiveNext(p) ==
  /\ dispatchPc = "drain"
  /\ p \in Chosen
  /\ inHand' = NewTask(p, Head(inQueue[p]), passTime)
  /\ inQueue' = [inQueue EXCEPT ![p] = Tail(@)]
  /\ best' = 1
  /\ seen' = <<>>
  /\ dispatchPc' = "estimate"
  /\ UNCHANGED <<running, arrived, coming, clock, passTime, estimate, queueVars, workerVars,
                 trackerVars, decided, returned>>

NothingToReceive ==
  /\ dispatchPc = "drain"
  /\ Chosen = {}
  /\ dispatchPc' = "top"
  /\ passTime' = 0
  /\ UNCHANGED <<running, arrived, coming, clock, inQueue, inHand, best, estimate, seen, queueVars,
                 workerVars, trackerVars, decided, returned>>

\* as_millis: whole milliseconds.
Millis(units) == units \div Millisecond

\* Mutant: the depth of the queue is left out.
BugScore(t, reading) ==
  Millis(Minus(t.ts + Budget[t.of], reading.completion + t.est))

\* score: the milliseconds t would have left on a worker, less the penalty for its queue.
Score(t, reading) ==
  Millis(Minus(t.ts + Budget[t.of], reading.completion + t.est)) - DepthPenalty * reading.depth

\* find_best_worker looks at one worker after the other and holds none of them; of each it
\* reads first the estimate,
Estimate ==
  /\ dispatchPc = "estimate"
  /\ estimate' = completion[Len(seen) + 1]
  /\ dispatchPc' = "measure"
  /\ UNCHANGED <<running, arrived, coming, clock, inQueue, passTime, inHand, best, seen,
                 queueVars, workerVars, trackerVars, decided, returned>>

\* and then the depth of the queue.
Measure ==
  LET w == Len(seen) + 1
      reading == [completion |-> estimate, depth |-> Cardinality(heap[w])]
  IN /\ dispatchPc = "measure"
     /\ best' = IF w = 1 \/ Score(inHand, reading) > Score(inHand, seen[best]) THEN w ELSE best
     /\ seen' = Append(seen, reading)
     /\ dispatchPc' = IF w < Workers THEN "estimate" ELSE "push"
     /\ estimate' = 0
     /\ UNCHANGED <<running, arrived, coming, clock, inQueue, passTime, inHand, queueVars,
                    workerVars, trackerVars, decided, returned>>

\* WorkerQueue::push.
Enqueue(w, t) ==
  /\ heap' = [heap EXCEPT ![w] = @ \cup {t}]
  /\ completion' = [completion EXCEPT ![w] = @ + t.est]

\* After a High packet the dispatcher looks for another one, else it starts over.
Place ==
  /\ dispatchPc = "push"
  /\ Enqueue(best, inHand)
  /\ IF inHand.of = "High"
     THEN dispatchPc' = "drain" /\ UNCHANGED passTime
     ELSE dispatchPc' = "top" /\ passTime' = 0
  /\ inHand' = NoTask
  /\ best' = 1
  /\ seen' = <<>>
  /\ returned' = [w \in Worker |-> 0]
  /\ UNCHANGED <<running, arrived, coming, clock, inQueue, estimate, workerVars, trackerVars,
                 decided>>

Dispatcher ==
  \/ DispatchTop \/ NothingToReceive \/ Estimate \/ Measure \/ Place
  \/ \E p \in Priority : ReceiveNext(p)

-----------------------------------------------------------------------------
(* The workers. *)

\* Starting the busy wait with task t: original_* and processing_time are bound.
StartWork(w, t) ==
  /\ pc' = [pc EXCEPT ![w] = "process"]
  /\ original' = [original EXCEPT ![w] = t]
  /\ left' = [left EXCEPT ![w] = t.est]

\* Time left of a packet's latency budget.
Remaining(t) == Minus(Budget[t.of], Minus(clock, t.ts))

\* Twice the time the packet needs from its beginning, preempted or not.
Margin(t) == 2 * Need[t.of]

\* How long a worker may hold back t; 0: no guard window.
GuardThreshold(t) ==
  IF t.of \in Tracked /\ maximum[t.of] > 0 /\ maximum[t.of] < Budget[t.of]
  THEN Least(Least(Budget[t.of] - maximum[t.of], Minus(Remaining(t), Margin(t))), GuardCap[t.of])
  ELSE 0

Urgent(tasks) == {t \in tasks : \A u \in tasks : t.slack <= u.slack}

\* A worker takes a task and either guards or starts it.
Pop(w) ==
  /\ pc[w] = "top" /\ running
  /\ \E t \in Urgent(heap[w]) :
       /\ heap' = [heap EXCEPT ![w] = @ \ {t}]
       /\ task' = [task EXCEPT ![w] = t]
       /\ finalPriority' = [finalPriority EXCEPT ![w] = t.of]
       /\ IF GuardThreshold(t) > 0
          THEN /\ left' = [left EXCEPT ![w] = GuardThreshold(t)]
               /\ pc' = [pc EXCEPT ![w] = "guard"]
               /\ UNCHANGED original
          ELSE StartWork(w, t)
  /\ UNCHANGED <<running, arrived, coming, clock, inQueue, dispatchVars, completion,
                 trackerVars, decided, returned>>

WorkerExit(w) ==
  /\ pc[w] = "top" /\ ~running
  /\ pc' = [pc EXCEPT ![w] = "done"]
  /\ UNCHANGED <<running, arrived, coming, clock, inQueue, dispatchVars, queueVars, task,
                 finalPriority, original, left, trackerVars, decided, returned>>

\* What a task of priority p lets in before it, the most urgent first.
Above(p) == IF p = "Low" THEN <<"High", "Medium">> ELSE IF p = "Medium" THEN <<"High">> ELSE <<>>

\* The priority of the packet that would preempt a task of priority p now.
Intruder(p) ==
  {Above(p)[i] : i \in {j \in DOMAIN Above(p) :
      inQueue[Above(p)[j]] # <<>> /\ \A k \in 1 .. j - 1 : inQueue[Above(p)[k]] = <<>>}}

\* Mutant: the task that is put back is forgotten.
BugReplace(w, p, t) ==
  /\ UNCHANGED <<queueVars, returned>>
  /\ task' = [task EXCEPT ![w] = NewTask(p, Head(inQueue[p]), clock)]
  /\ inQueue' = [inQueue EXCEPT ![p] = Tail(@)]
  /\ finalPriority' = [finalPriority EXCEPT ![w] = p]

\* Put t back and take the first packet of p from its input channel instead.
Replace(w, p, t) ==
  /\ Enqueue(w, t)
  /\ returned' = [returned EXCEPT ![w] = @ + One(w \in DOMAIN seen)]
  /\ task' = [task EXCEPT ![w] = NewTask(p, Head(inQueue[p]), clock)]
  /\ inQueue' = [inQueue EXCEPT ![p] = Tail(@)]
  /\ finalPriority' = [finalPriority EXCEPT ![w] = p]

\* A packet arrives in the guard window.
GuardTake(w) ==
  /\ pc[w] = "guard" /\ left[w] > 0
  /\ \E p \in Intruder(task[w].of) :
       /\ Replace(w, p, task[w])
       /\ StartWork(w, NewTask(p, Head(inQueue[p]), clock))
  /\ UNCHANGED <<running, arrived, coming, clock, dispatchVars, trackerVars, decided>>

\* The window is over, or the packet's own budget is running out.
GuardEnd(w) ==
  /\ pc[w] = "guard"
  /\ left[w] = 0 \/ Remaining(task[w]) <= Margin(task[w])
  /\ StartWork(w, task[w])
  /\ UNCHANGED <<running, arrived, coming, clock, inQueue, dispatchVars, queueVars, task,
                 finalPriority, trackerVars, decided, returned>>

\* Mutant: the task is put back with all of its processing still to do.
BugPutBack(w) == task[w]

\* The task that is put back has what is left of its processing.
PutBack(w) == Task(task[w], task[w].of, task[w].slack, left[w], task[w].worked)

\* A packet arrives during the busy wait.  What may preempt, and the budget that must allow
\* it, are those of the task the busy wait began with.
Preempt(w) ==
  /\ pc[w] = "process" /\ left[w] > 0
  /\ 10 * Remaining(original[w]) > 12 * left[w]
  /\ \E p \in Intruder(original[w].of) :
       /\ Replace(w, p, PutBack(w))
       /\ left' = [left EXCEPT ![w] = Need[p]]
  /\ UNCHANGED <<running, arrived, coming, clock, dispatchVars, pc, original, trackerVars, decided>>

\* Mutant: the maximum outlives the measurement it came from.
BugMaximumOf(old, window) == IF window[Len(window)] > old THEN window[Len(window)] ELSE old

\* The maximum, recomputed when it leaves the window, is that of the window.
MaximumOf(old, window) ==
  LET newest == window[Len(window)]
      higher == IF newest > old THEN newest ELSE old
  IN IF Len(window) > Window /\ window[1] = higher
     THEN Max({window[i] : i \in 2 .. Len(window)} \cup {0})
     ELSE higher

\* record_latency, for the priority of the packet that was finished.
Record(p, latency) ==
  IF p \in Tracked
  THEN LET window == Append(latencies[p], latency)
       IN /\ maximum' = [maximum EXCEPT ![p] = MaximumOf(@, window)]
          /\ latencies' = [latencies EXCEPT ![p] = IF Len(window) > Window THEN Tail(window) ELSE window]
  ELSE UNCHANGED trackerVars

\* STEP 3 and 4 of worker_loop, under the mutex of estimated_completion: the estimate becomes
\* the time, the latency is recorded, and the packet is sent or counted as dropped.
Finish(w) ==
  LET p == finalPriority[w]
  IN /\ pc[w] = "process" /\ left[w] = 0
     /\ Record(p, Minus(clock, task[w].ts))
     /\ decided' = decided \cup {task[w].id}
     /\ task' = [task EXCEPT ![w] = NoTask]
     /\ original' = [original EXCEPT ![w] = NoTask]
     /\ finalPriority' = [finalPriority EXCEPT ![w] = "none"]
     /\ pc' = [pc EXCEPT ![w] = "top"]
     /\ completion' = [completion EXCEPT ![w] = clock]
     /\ UNCHANGED <<running, arrived, coming, clock, inQueue, dispatchVars, heap, left,
                    returned>>

WorkerStep(w) ==
  \/ Pop(w) \/ WorkerExit(w) \/ GuardTake(w) \/ GuardEnd(w) \/ Preempt(w) \/ Finish(w)

Next ==
  \/ \E p \in Priority : Arrive(p)
  \/ Stop \/ Tick \/ Dispatcher
  \/ \E w \in Worker : WorkerStep(w)

Spec == Init /\ [][Next]_vars

\* Time passes and every thread keeps running; nothing is assumed of arrivals and shutdown.
FairSpec ==
  Spec /\ WF_vars(Tick) /\ WF_vars(Dispatcher) /\ \A w \in Worker : WF_vars(WorkerStep(w))

-----------------------------------------------------------------------------

\* The places of a packet, and the ids of those that are there.
Spot ==
  {<<"input", p>> : p \in Priority} \cup {<<"heap", w>> : w \in Worker}
  \cup {<<"worker", w>> : w \in Worker} \cup {<<"dispatcher", 0>>, <<"decided", 0>>}

IdsOf(tasks) == {t.id : t \in tasks} \ {NoTask.id}

IdsAt(l) ==
  CASE l[1] = "input" -> IdsOf(Range(inQueue[l[2]]))
    [] l[1] = "heap" -> IdsOf(heap[l[2]])
    [] l[1] = "worker" -> IdsOf({task[l[2]]})
    [] l[1] = "dispatcher" -> IdsOf({inHand})
    [] OTHER -> decided

\* The packets that are somewhere, with the place.
Located == UNION {{<<i, l>> : i \in IdsAt(l)} : l \in Spot}

\* Every id of a set has a place, it has no second one, and there are no other ids.
Places(pairs, ids) ==
  /\ {x[1] : x \in pairs} = ids
  /\ \A x, y \in pairs : x[1] = y[1] => x = y

(***************************************************************************)
(* However often a task is put back for a more urgent packet, every packet *)
(* that arrived is in one place, an input channel, the dispatcher's hand,  *)
(* a heap, a worker's hand, or what was sent or counted as dropped, and is *)
(* there once; and the output channel a worker will use is that of the     *)
(* packet it has in hand.                                                  *)
(***************************************************************************)
TasksConserved ==
  /\ Places(Located, 0 .. arrived - 1)
  /\ \A p \in Priority : \A j, k \in DOMAIN inQueue[p] :
       j < k => inQueue[p][j].id < inQueue[p][k].id
  /\ \A w \in Worker : \A t, u \in heap[w] : t.id = u.id => t = u
  /\ \A w \in Worker : finalPriority[w] = task[w].of

(***************************************************************************)
(* Preemption neither repeats nor skips work: what a task has been         *)
(* processed for and what is still to do make up processing_duration, in   *)
(* the heap and in the busy wait, so that a packet is sent only after its  *)
(* whole processing time.                                                  *)
(***************************************************************************)
WorkConserved ==
  \A w \in Worker :
    /\ \A t \in heap[w] : t.worked + t.est = Need[t.of]
    /\ pc[w] = "process" => task[w].worked + left[w] = Need[task[w].of]

\* How much longer the chosen queue is than that of w was.
Overlong(w) == Cardinality(heap[best]) - returned[best] - seen[w].depth

(***************************************************************************)
(* Load balancing weighs queues against estimates, also on stale           *)
(* readings: when the dispatcher pushes a task, the queue it chose is      *)
(* longer than another one was when it was read only if that worker's      *)
(* estimated_completion was later, by the penalty for each further task    *)
(* within a millisecond.  Tasks the chosen worker, preempted, has put back *)
(* since do not count.  So where the estimates are equal the shortest      *)
(* queue wins; but an old estimate can win with a longer queue.            *)
(***************************************************************************)
LongerQueueEarlier ==
  dispatchPc = "push" =>
    \A w \in Worker :
      Millisecond * (DepthPenalty * Overlong(w))
        < Minus(seen[w].completion, seen[best].completion) + Millisecond

(***************************************************************************)
(* The P100 that opens and closes the guard windows is the maximum of the  *)
(* measurements still in the window, whichever workers recorded them.      *)
(***************************************************************************)
MaximumExact ==
  \A p \in Tracked : maximum[p] = Max({latencies[p][i] : i \in DOMAIN latencies[p]} \cup {0})

(***************************************************************************)
(* While the scheduler runs, guard windows and preemption hold no packet   *)
(* back for ever: again and again, all that arrived has been sent or       *)
(* dropped.  After shutdown the dispatcher and every worker end, whatever  *)
(* loop they are in.                                                       *)
(***************************************************************************)
WorkCompletes ==
  []<>(IF running THEN decided = 0 .. arrived - 1
       ELSE dispatchPc = "done" /\ \A w \in Worker : pc[w] = "done")

(***************************************************************************)
(* "HIGH priority packets can NEVER be preempted - they must complete once *)
(* started" (comment in worker_loop): a High task in the busy wait stays   *)
(* the worker's task until it is finished.                                 *)
(***************************************************************************)
HighNeverPreempted ==
  [][\A w \in Worker :
       pc[w] = "process" /\ task[w].of = "High" => task'[w].id \in {task[w].id, NoTask.id}]_vars

=============================================================================
