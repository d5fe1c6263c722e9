--------------------------- MODULE MultiWorkerEDF ---------------------------
(***************************************************************************)
(* The multi-worker EDF scheduler (scheduler/multi_worker_edf.rs,          *)
(* run_worker): three workers pull packets of the priorities assigned to   *)
(* them from shared input channels into private deadline heaps, under      *)
(* quotas that the adaptive controller changes while they run, let High    *)
(* packets displace what they are about to process, and complete packets   *)
(* through the router of CompletionRouter.                                 *)
(*                                                                         *)
(* A packet is its arrival number ts, its deadline ts plus the budget of   *)
(* its priority: the ingress thread stamps packets one after the other.    *)
(* Receiving a packet from a channel and taking a sequence number for it   *)
(* are two steps of the code and two steps here.  Real time is left out:   *)
(* the guard window of a Medium or Low packet may end at any moment.       *)
(***************************************************************************)
EXTENDS CompletionRouter, Quotas, FiniteSets

CONSTANTS
  Workers,        \* the workers that run: a subset of WorkerIds
  Budget,         \* latency budget of each priority
  Capacities,     \* capacity estimates a rebalance may come up with
  MaxArrivals,    \* bound on the packets the ingress scheduler delivers
  MaxRebalances   \* bound on the rebalances

\* WORKER_ASSIGNMENTS, in the order a worker drains its channels.
Assignments == <<
  <<"High">>,
  <<"High", "Medium">>,
  <<"High", "Medium", "Low", "BestEffort">> >>

Serves(w) == Assignments[w + 1]

ASSUME WorkerAssumption ==
  /\ Workers \subseteq WorkerIds /\ Priority \subseteq Priorities
  /\ \A w \in Workers : \A k \in 1 .. Len(Serves(w)) : Serves(w)[k] \in Priority
  /\ Budget \in [Priority -> Nat] /\ Capacities \subseteq [Priorities -> Nat]
  /\ MaxArrivals \in Nat /\ MaxRebalances \in Nat

VARIABLES
  arrived,     \* packets stamped so far
  inQueue,     \* input_queues: the arrival numbers in each channel
  running,     \* the shutdown flag
  pc,          \* where each worker is in run_worker
  turn,        \* the priority a worker is at when it reads quotas or drains
  limits,      \* the worker's copy of its quotas in this iteration
  heap,        \* the worker's deadline heap
  hand,        \* the packet a worker has received and not numbered yet
  current,     \* scheduled: the item selected for processing
  initial,     \* initial_priority: the priority of the item that was popped
  counters,    \* worker_priority_counters, read by the controller
  admitted,    \* history: arrival number of each sequence number given out
  unread,      \* the counters the controller still has to read in this rebalance
  depth,       \* actual_depth: what those it has read add up to
  rebalances   \* rebalances so far, to bound them

workerVars == <<pc, turn, limits, heap, hand, current, initial, counters>>
controllerVars == <<unread, depth, rebalances>>
vars == <<routerVars, quotaVars, arrived, inQueue, running, workerVars,
          admitted, controllerVars>>

NoItem == [priority |-> "none", sequence |-> -1, ts |-> -1]
Deadline(i) == i.ts + Budget[i.priority]
Count(items, p) == Cardinality({i \in items : i.priority = p})

\* The loads of worker_priority_counters in a rebalance: "at" is the place of a load in program
\* order.  The counter of a priority that a worker does not serve stays 0 and is left out.
Loads ==
  {load \in {[at |-> 3 * k + w, worker |-> w, of |-> <<"High", "Medium", "Low">>[k]] :
              k \in 1 .. 3, w \in Workers} :
     \E k \in 1 .. Len(Serves(load.worker)) : Serves(load.worker)[k] = load.of}

NoDepth == [p \in Priorities |-> 0]

Init ==
  /\ RouterInit /\ QuotaInit
  /\ arrived = 0
  /\ inQueue = [p \in Priority |-> <<>>]
  /\ running = TRUE
  /\ pc = [w \in Workers |-> "top"]
  /\ turn = [w \in Workers |-> 1]
  /\ limits = [w \in Workers |-> [total |-> InitialTotal[w], of |-> InitialLimit[w]]]
  /\ heap = [w \in Workers |-> {}]
  /\ hand = [w \in Workers |-> NoItem]
  /\ current = [w \in Workers |-> NoItem]
  /\ initial = [w \in Workers |-> "none"]
  /\ counters = [w \in Workers |-> [p \in Priority |-> 0]]
  /\ admitted = [p \in Priority |-> <<>>]
  /\ unread = Loads
  /\ depth = NoDepth
  /\ rebalances = 0

\* The ingress scheduler delivers a packet.
Arrive(p) ==
  /\ arrived < MaxArrivals
  /\ arrived' = arrived + 1
  /\ inQueue' = [inQueue EXCEPT ![p] = Append(@, arrived)]
  /\ UNCHANGED <<routerVars, quotaVars, running, workerVars, admitted, controllerVars>>

\* Pipeline::shutdown clears the flag.
Stop ==
  /\ running
  /\ running' = FALSE
  /\ UNCHANGED <<routerVars, quotaVars, arrived, inQueue, workerVars, admitted, controllerVars>>

\* autobalance_loop reads the counters of a priority one worker after the other.  The first
\* load comes after the loop test and the stores of the rebalance before.
NextLoad(load) ==
  /\ load \in unread /\ \A other \in unread : load.at <= other.at
  /\ unread = Loads => running /\ rebalances < MaxRebalances /\ stores = {}

\* actual_depth with one more load.
DepthWith(load) == [depth EXCEPT ![load.of] = @ + counters[load.worker][load.of]]

ReadCounter ==
  \E load \in unread :
    /\ NextLoad(load) /\ unread # {load}
    /\ depth' = DepthWith(load)
    /\ unread' = unread \ {load}
    /\ UNCHANGED <<routerVars, quotaVars, arrived, inQueue, running, workerVars, admitted, rebalances>>

\* The last load; then the quotas are computed, with a capacity estimate for each priority.
StartRebalance ==
  \E load \in unread :
    /\ NextLoad(load) /\ unread = {load}
    /\ \E capacity \in Capacities : Rebalance(capacity, DepthWith(load))
    /\ rebalances' = rebalances + 1
    /\ unread' = Loads
    /\ depth' = NoDepth
    /\ UNCHANGED <<routerVars, arrived, inQueue, running, workerVars, admitted>>

PublishQuota ==
  /\ Publish
  /\ UNCHANGED <<routerVars, arrived, inQueue, running, workerVars, admitted, controllerVars>>

-----------------------------------------------------------------------------

Goto(w, label) == pc' = [pc EXCEPT ![w] = label]

\* The test made before every try_recv: the quota of p or the total is used up.
Full(w, p) ==
  \/ Count(heap[w], p) >= limits[w].of[p]
  \/ Cardinality(heap[w]) >= limits[w].total

\* push_with_capacity accepts an item of priority p.
Fits(w, p) == limits[w].of[p] # 0 /\ ~Full(w, p)

\* Mutant: the newest packet is received first.
BugReceive(w, p) ==
  LET last == Len(inQueue[p])
  IN /\ inQueue[p] # <<>>
     /\ hand' = [hand EXCEPT ![w] = [NoItem EXCEPT !.priority = p, !.ts = inQueue[p][last]]]
     /\ inQueue' = [inQueue EXCEPT ![p] = SubSeq(@, 1, last - 1)]

\* try_recv of one packet of priority p into the worker's hand.
Receive(w, p) ==
  /\ inQueue[p] # <<>>
  /\ hand' = [hand EXCEPT ![w] = [priority |-> p, sequence |-> -1, ts |-> Head(inQueue[p])]]
  /\ inQueue' = [inQueue EXCEPT ![p] = Tail(@)]

\* prepare: the packet in hand gets the next sequence number of its priority.
Prepared(w) ==
  [priority |-> hand[w].priority, sequence |-> nextSequence[hand[w].priority], ts |-> hand[w].ts]

Prepare(w) ==
  /\ Assign(hand[w].priority)
  /\ admitted' = [admitted EXCEPT ![hand[w].priority] = Append(@, hand[w].ts)]
  /\ hand' = [hand EXCEPT ![w] = NoItem]

\* Mutant: the shutdown flag is not tested.
BugTop(w) ==
  /\ pc[w] = "top"
  /\ limits' = [limits EXCEPT ![w] = [total |-> totalLimit[w], of |-> @.of]]
  /\ Goto(w, "limits")
  /\ UNCHANGED <<routerVars, quotaVars, arrived, inQueue, running, turn, heap, hand,
                 current, initial, counters, admitted, controllerVars>>

\* The loop test and total_limit(); a stopped worker drops its heap.
Top(w) ==
  /\ pc[w] = "top"
  /\ running
  /\ limits' = [limits EXCEPT ![w] = [total |-> totalLimit[w], of |-> @.of]]
  /\ Goto(w, "limits")
  /\ UNCHANGED <<routerVars, quotaVars, arrived, inQueue, running, turn, heap, hand,
                 current, initial, counters, admitted, controllerVars>>

Exit(w) ==
  /\ pc[w] = "top"
  /\ ~running
  /\ heap' = [heap EXCEPT ![w] = {}]
  /\ Goto(w, "done")
  /\ UNCHANGED <<routerVars, quotaVars, arrived, inQueue, running, turn, limits, hand,
                 current, initial, counters, admitted, controllerVars>>

\* priority_limits(), one load for each priority the worker looks at.
ReadLimit(w) ==
  LET p == Serves(w)[turn[w]]
      last == turn[w] = Len(Serves(w))
  IN /\ pc[w] = "limits"
     /\ limits' = [limits EXCEPT ![w] =
                     [total |-> @.total, of |-> [@.of EXCEPT ![p] = priorityLimit[w][p]]]]
     /\ turn' = [turn EXCEPT ![w] = IF last THEN 1 ELSE @ + 1]
     /\ Goto(w, IF last THEN "drain" ELSE "limits")
     /\ UNCHANGED <<routerVars, quotaVars, arrived, inQueue, running, heap, hand,
                    current, initial, counters, admitted, controllerVars>>

\* STEP 1.  A priority whose quota is used up or whose channel is empty is left.
DrainNext(w) ==
  /\ pc[w] = "drain"
  /\ turn[w] <= Len(Serves(w))
  /\ LET p == Serves(w)[turn[w]] IN Full(w, p) \/ inQueue[p] = <<>>
  /\ turn' = [turn EXCEPT ![w] = @ + 1]
  /\ UNCHANGED <<routerVars, quotaVars, arrived, inQueue, running, pc, limits, heap, hand,
                 current, initial, counters, admitted, controllerVars>>

DrainReceive(w) ==
  /\ pc[w] = "drain"
  /\ turn[w] <= Len(Serves(w))
  /\ LET p == Serves(w)[turn[w]] IN ~Full(w, p) /\ Receive(w, p)
  /\ Goto(w, "admit")
  /\ UNCHANGED <<routerVars, quotaVars, arrived, running, turn, limits, heap,
                 current, initial, counters, admitted, controllerVars>>

DrainAdmit(w) ==
  LET p == hand[w].priority
  IN /\ pc[w] = "admit"
     /\ Prepare(w)
     /\ IF Fits(w, p)
        THEN /\ heap' = [heap EXCEPT ![w] = @ \cup {Prepared(w)}]
             /\ counters' = [counters EXCEPT ![w][p] = @ + 1]
             /\ UNCHANGED turn
        ELSE /\ turn' = [turn EXCEPT ![w] = @ + 1]
             /\ UNCHANGED <<heap, counters>>
     /\ Goto(w, "drain")
     /\ UNCHANGED <<quotaVars, arrived, inQueue, running, limits, current, initial, controllerVars>>

\* STEP 2.  An empty heap: yield and start over.
SelectNone(w) ==
  /\ pc[w] = "drain"
  /\ turn[w] > Len(Serves(w))
  /\ heap[w] = {}
  /\ turn' = [turn EXCEPT ![w] = 1]
  /\ Goto(w, "top")
  /\ UNCHANGED <<routerVars, quotaVars, arrived, inQueue, running, limits, heap, hand,
                 current, initial, counters, admitted, controllerVars>>

\* Mutant: the heap is a max-heap.
BugEarliest(items) == {i \in items : \A j \in items : Deadline(i) >= Deadline(j)}

\* The items a pop may return: ties of the deadline are broken arbitrarily.
Earliest(items) == {i \in items : \A j \in items : Deadline(i) <= Deadline(j)}

\* guard_threshold: only Medium and Low packets wait for High ones.
GuardOrProcess(p) == IF p \in {"Medium", "Low"} THEN "guard" ELSE "process"

Select(w) ==
  /\ pc[w] = "drain"
  /\ turn[w] > Len(Serves(w))
  /\ \E i \in Earliest(heap[w]) :
       LET p == i.priority
           rest == heap[w] \ {i}
       IN /\ heap' = [heap EXCEPT ![w] = rest]
          /\ counters' = [counters EXCEPT ![w][p] = @ - 1]
          /\ current' = [current EXCEPT ![w] = i]
          /\ initial' = [initial EXCEPT ![w] = p]
          /\ Goto(w, IF p = "Medium" /\ Count(rest, "High") > 0
                     THEN GuardOrProcess(p) ELSE "preempt")
  /\ turn' = [turn EXCEPT ![w] = 1]
  /\ UNCHANGED <<routerVars, quotaVars, arrived, inQueue, running, limits, hand,
                 admitted, controllerVars>>

\* STEP 3.  Poll the High channel until it is empty or the quota is used up.
PreemptEnd(w) ==
  /\ pc[w] = "preempt"
  /\ Full(w, "High") \/ inQueue["High"] = <<>>
  /\ Goto(w, GuardOrProcess(current[w].priority))
  /\ UNCHANGED <<routerVars, quotaVars, arrived, inQueue, running, turn, limits, heap, hand,
                 current, initial, counters, admitted, controllerVars>>

PreemptReceive(w) ==
  /\ pc[w] = "preempt"
  /\ ~Full(w, "High")
  /\ Receive(w, "High")
  /\ Goto(w, "preemptAdmit")
  /\ UNCHANGED <<routerVars, quotaVars, arrived, running, turn, limits, heap,
                 current, initial, counters, admitted, controllerVars>>

\* Mutant: the displaced packet is counted as a High one.
BugRequeueCounter(w) ==
  /\ heap' = [heap EXCEPT ![w] = IF Fits(w, current[w].priority)
                                 THEN @ \cup {current[w]} ELSE @]
  /\ counters' = [counters EXCEPT ![w]["High"] = @ + 1]
  /\ current' = [current EXCEPT ![w] = Prepared(w)]

\* Mutant: the displaced packet is not put back.
BugRequeue(w) ==
  /\ current' = [current EXCEPT ![w] = Prepared(w)]
  /\ UNCHANGED <<heap, counters>>

\* The High packet in hand displaces the current one, which goes back into the
\* heap.  A failed push loses it; the counter is incremented all the same.
Requeue(w) ==
  /\ heap' = [heap EXCEPT ![w] = IF Fits(w, current[w].priority)
                                 THEN @ \cup {current[w]} ELSE @]
  /\ counters' = [counters EXCEPT ![w][initial[w]] = @ + 1]
  /\ current' = [current EXCEPT ![w] = Prepared(w)]

PreemptAdmit(w) ==
  /\ pc[w] = "preemptAdmit"
  /\ Prepare(w)
  /\ IF Deadline(Prepared(w)) < Deadline(current[w])
     THEN /\ Requeue(w)
          /\ Goto(w, "preempt")
     ELSE /\ IF Fits(w, "High")
             THEN /\ heap' = [heap EXCEPT ![w] = @ \cup {Prepared(w)}]
                  /\ counters' = [counters EXCEPT ![w]["High"] = @ + 1]
                  /\ Goto(w, "preempt")
             ELSE /\ Goto(w, GuardOrProcess(current[w].priority))
                  /\ UNCHANGED <<heap, counters>>
          /\ UNCHANGED current
  /\ UNCHANGED <<quotaVars, arrived, inQueue, running, turn, limits, initial, controllerVars>>

\* STEP 4.  The guard window ends: the packet has used enough of its budget.
GuardEnd(w) ==
  /\ pc[w] = "guard"
  /\ Goto(w, "process")
  /\ UNCHANGED <<routerVars, quotaVars, arrived, inQueue, running, turn, limits, heap, hand,
                 current, initial, counters, admitted, controllerVars>>

GuardReceive(w) ==
  /\ pc[w] = "guard"
  /\ ~Full(w, "High")
  /\ Receive(w, "High")
  /\ Goto(w, "guardAdmit")
  /\ UNCHANGED <<routerVars, quotaVars, arrived, running, turn, limits, heap,
                 current, initial, counters, admitted, controllerVars>>

\* Any High packet displaces the guarded one, whatever its deadline.
GuardAdmit(w) ==
  /\ pc[w] = "guardAdmit"
  /\ Prepare(w)
  /\ Requeue(w)
  /\ Goto(w, "process")
  /\ UNCHANGED <<quotaVars, arrived, inQueue, running, turn, limits, initial, controllerVars>>

\* The locals of an iteration go out of scope.
EndIteration(w) ==
  /\ Goto(w, "top")
  /\ current' = [current EXCEPT ![w] = NoItem]
  /\ initial' = [initial EXCEPT ![w] = "none"]

\* STEP 5 and 6.  Process the packet and complete it through the router.
Process(w) ==
  LET p == current[w].priority
      s == current[w].sequence
  IN /\ pc[w] = "process"
     /\ \/ CompleteNext(p, s) /\ Goto(w, "emit") /\ UNCHANGED <<current, initial>>
        \/ /\ CompleteEarly(p, s)
           /\ EndIteration(w)
     /\ UNCHANGED <<quotaVars, arrived, inQueue, running, turn, limits, heap, hand,
                    counters, admitted, controllerVars>>

\* The rest of complete(), with the mutex of the priority held.
EmitNext(w) ==
  /\ pc[w] = "emit"
  /\ Cascade(current[w].priority)
  /\ UNCHANGED <<quotaVars, arrived, inQueue, running, workerVars, admitted, controllerVars>>

EmitEnd(w) ==
  /\ pc[w] = "emit"
  /\ Release(current[w].priority)
  /\ EndIteration(w)
  /\ UNCHANGED <<quotaVars, arrived, inQueue, running, turn, limits, heap, hand,
                 counters, admitted, controllerVars>>

\* The egress scheduler receives a packet.
EgressTake(p) ==
  /\ Take(p)
  /\ UNCHANGED <<quotaVars, arrived, inQueue, running, workerVars, admitted, controllerVars>>

WorkerStep(w) ==
  \/ Top(w) \/ Exit(w) \/ ReadLimit(w)
  \/ DrainNext(w) \/ DrainReceive(w) \/ DrainAdmit(w)
  \/ SelectNone(w) \/ Select(w)
  \/ PreemptEnd(w) \/ PreemptReceive(w) \/ PreemptAdmit(w)
  \/ GuardEnd(w) \/ GuardReceive(w) \/ GuardAdmit(w)
  \/ Process(w) \/ EmitNext(w) \/ EmitEnd(w)

Next ==
  \/ \E p \in Priority : Arrive(p) \/ EgressTake(p)
  \/ \E w \in Workers : WorkerStep(w)
  \/ Stop \/ ReadCounter \/ StartRebalance \/ PublishQuota

Spec == Init /\ [][Next]_vars

\* Every worker thread keeps running.  Nothing is assumed of the ingress and
\* egress threads, of the controller or of the shutdown.
Fairness == \A w \in Workers : WF_vars(WorkerStep(w))

FairSpec == Spec /\ Fairness

-----------------------------------------------------------------------------

\* The items a worker is responsible for.
Held(w) ==
  heap[w] \cup (IF pc[w] \in {"preempt", "preemptAdmit", "guard", "guardAdmit", "process"}
                THEN {current[w]} ELSE {})

(***************************************************************************)
(* Every sequence number whose packet is not completed belongs to exactly  *)
(* one item of exactly one worker: displacing and requeueing packets       *)
(* neither loses nor duplicates one (run_worker, push_with_capacity).      *)
(***************************************************************************)
NoPacketLost ==
  (\A w \in Workers : pc[w] # "done") =>
    \A p \in Priority :
      /\ inFlight[p] = UNION {{i.sequence : i \in {x \in Held(w) : x.priority = p}} : w \in Workers}
      /\ \A v, w \in Workers : v # w =>
           {i.sequence : i \in {x \in Held(v) : x.priority = p}}
             \cap {i.sequence : i \in {x \in Held(w) : x.priority = p}} = {}

(***************************************************************************)
(* The counters the controller bases its quotas on are the numbers of      *)
(* packets in the heaps (worker_priority_counters).                        *)
(***************************************************************************)
CountersMatchHeaps ==
  \A w \in Workers : pc[w] # "done" =>
    \A p \in Priority : counters[w][p] = Count(heap[w], p)

(***************************************************************************)
(* A worker never processes a packet other than High while its own heap    *)
(* holds one that is due earlier, whatever was displaced or requeued since *)
(* the pop.                                                                *)
(***************************************************************************)
NoInversion ==
  \A w \in Workers :
    pc[w] = "process" /\ current[w].priority # "High" =>
      \A i \in heap[w] : Deadline(i) >= Deadline(current[w])

\* The arrival numbers of priority p in the order of their sequence numbers.
InArrivalOrder(p) ==
  \A i, j \in 1 .. Len(admitted[p]) : i < j => admitted[p][i] < admitted[p][j]

(***************************************************************************)
(* A priority that a single worker serves leaves the scheduler in the      *)
(* order in which it arrived: with SentInOrder, sequence numbers follow    *)
(* arrival.                                                                *)
(***************************************************************************)
SingleWorkerFifo ==
  \A p \in Priority :
    (\E w \in Workers : \A v \in Workers :
       (\E k \in 1 .. Len(Serves(v)) : Serves(v)[k] = p) => v = w)
    => InArrivalOrder(p)

(***************************************************************************)
(* What the documentation promises of every priority: "Sequence tracking   *)
(* guarantees per-priority FIFO order even though multiple workers run in  *)
(* parallel" (comment of STEP 6).                                          *)
(***************************************************************************)
PerPriorityFifo == \A p \in Priority : InArrivalOrder(p)

(***************************************************************************)
(* "This should always succeed (we just removed it, so quota should allow  *)
(* it)": the push that puts a displaced packet back is never refused       *)
(* (debug_assert in STEP 3 and STEP 4).                                    *)
(***************************************************************************)
RequeueSucceeds ==
  \A w \in Workers :
    \/ pc[w] = "guardAdmit"
    \/ pc[w] = "preemptAdmit" /\ Deadline(Prepared(w)) < Deadline(current[w])
    => Fits(w, current[w].priority)

(***************************************************************************)
(* While the scheduler runs, it always gets done with what it was given:   *)
(* every packet that reached it has been sent to its egress channel or     *)
(* counted as dropped.                                                     *)
(***************************************************************************)
AllDecided ==
  \A p \in Priority : inQueue[p] = <<>> /\ nextEmit[p] = Len(admitted[p])
                      /\ \A w \in Workers : hand[w].priority # p

EveryPacketDecided == []<>(AllDecided \/ ~running)

(***************************************************************************)
(* After the flag is cleared every worker thread ends: none waits for ever *)
(* for a tracker or in a guard window (Pipeline::shutdown only clears the  *)
(* flag; what is left in the heaps then goes with the threads).  The flag  *)
(* is never set again, so this says what ~> would.                         *)
(***************************************************************************)
ShutdownCompletes == []<>(running \/ \A w \in Workers : pc[w] = "done")

=============================================================================
