----------------------------- MODULE ElasticEDF -----------------------------
(***************************************************************************)
(* The multi-channel scheduler (scheduler/mc_edf_elastic.rs): a dispatcher *)
(* spreads High packets over three EDF channels and gives the others to    *)
(* the second and third; one worker per channel processes by virtual       *)
(* deadline and waits a little for High before anything else; a reorder    *)
(* thread merges what the workers emit by real deadline.                   *)
(*                                                                         *)
(* Channels between these threads are unbounded.  The wait of a worker     *)
(* lasts at most 50 us, less when the moving average of the arrivals of    *)
(* High is shorter: here it may end at any moment at which no High packet  *)
(* is there.  Looks at channels that turn out empty are steps of their own *)
(* only where the order of what is found later depends on them.            *)
(***************************************************************************)
EXTENDS Integers, Sequences

CONSTANTS
  Priority,    \* the priorities in use
  Budget,      \* latency budget of each priority
  BatchMax,    \* most High packets in one batch
  UnitUs,      \* microseconds in a unit of the clock
  InCapacity,  \* capacity of each input channel
  Loads,       \* bound on what arrives: the priorities of the packets, in order
  MaxTime      \* bound on the clock

AllPriorities == {"High", "Medium", "Low", "BestEffort"}

ASSUME ElasticAssumption ==
  /\ Priority \subseteq AllPriorities /\ "High" \in Priority
  /\ Budget \in [Priority -> Nat]
  /\ BatchMax \in Nat \ {0}
  /\ UnitUs \in Nat
  /\ InCapacity \in Nat \ {0}
  /\ Loads \subseteq Seq(Priority)
  /\ MaxTime \in Nat

\* The EDF channels: 0 for HIGH, 1 for MEDIUM, 2 for LOW.
Channel == 0 .. 2

VARIABLES
  running,    \* the shutdown flag
  coming,     \* the priorities of the packets still to arrive
  arrived,    \* packets that have arrived: the id of the next one
  clock,      \* the time, as it was last read
  inQueue,    \* input channels, oldest first
  dispatchPc, \* where the dispatcher is
  passTime,   \* now, read at the top of the dispatcher's loop
  batch,      \* High tasks still to be sent
  target,     \* the channel chosen for the batch
  score,      \* score of each channel: HighDistributionStats
  highIn,     \* High input channel of each worker
  ownIn,      \* input channel of each worker for the packets of its own class
  fifo,       \* high_queue of the worker of channel 0
  heap,       \* the tasks queued at each of the other workers
  pc,         \* where each worker is
  task,       \* the task in its hands
  emitted,    \* channel from each worker to the reorder thread
  reorderPc,  \* where the reorder thread is
  looked,     \* channels it has looked at in this pass
  buffer,     \* its head-of-line packet of each channel
  decided,    \* ids of the packets sent to an output channel or counted as dropped
  lastLeft,   \* history: the time of arrival of the last packet of a class to leave a channel
  base,       \* history: the score of target when it was chosen
  most        \* history: the most that one batch has added to a score

dispatchVars == <<dispatchPc, passTime, batch, target, score, base, most>>
workerVars == <<fifo, heap, pc, task>>
reorderVars == <<reorderPc, looked, buffer, decided, lastLeft>>
vars ==
  <<running, coming, arrived, clock, inQueue, dispatchVars, highIn, ownIn, workerVars,
    emitted, reorderVars>>

NoTask == [id |-> -1, of |-> "none", ts |-> 0]

\* virtual_deadline_scale, in fortieths.
Scale(p) == CASE p = "High" -> 1 [] p = "Medium" -> 20 [] OTHER -> 40

VirtualDeadline(t) == 40 * t.ts + Scale(t.of) * Budget[t.of]
Deadline(t) == t.ts + Budget[t.of]

Init ==
  /\ running = TRUE
  /\ coming \in Loads
  /\ arrived = 0
  /\ clock = 0
  /\ inQueue = [p \in Priority |-> <<>>]
  /\ dispatchPc = "top"
  /\ passTime = 0
  /\ batch = <<>>
  /\ target = 0
  /\ score = [c \in Channel |-> 0]
  /\ base = 0
  /\ most = 0
  /\ highIn = [c \in Channel |-> <<>>]
  /\ ownIn = [c \in Channel |-> <<>>]
  /\ fifo = <<>>
  /\ heap = [c \in Channel |-> {}]
  /\ pc = [c \in Channel |-> "top"]
  /\ task = [c \in Channel |-> NoTask]
  /\ emitted = [c \in Channel |-> <<>>]
  /\ reorderPc = "loop"
  /\ looked = 0
  /\ buffer = [c \in Channel |-> NoTask]
  /\ decided = {}
  /\ lastLeft = [c \in Channel |-> [p \in Priority |-> 0]]

\* Instant::now.
ReadClock == clock' \in clock .. MaxTime

\* Ingress puts a packet, stamped on arrival, into an input channel.
Arrive(p) ==
  /\ running
  /\ coming # <<>> /\ p = Head(coming)
  /\ coming' = Tail(coming)
  /\ Len(inQueue[p]) < InCapacity
  /\ ReadClock
  /\ inQueue' = [inQueue EXCEPT ![p] = Append(@, [id |-> arrived, of |-> p, ts |-> clock'])]
  /\ arrived' = arrived + 1
  /\ UNCHANGED <<running, dispatchVars, highIn, ownIn, workerVars, emitted, reorderVars>>

Stop ==
  /\ running
  /\ running' = FALSE
  /\ UNCHANGED <<coming, arrived, clock, inQueue, dispatchVars, highIn, ownIn, workerVars,
                 emitted, reorderVars>>

-----------------------------------------------------------------------------
(* The dispatcher. *)

\* What one High packet adds to the score of its channel, with its slack at time t.
Weight(packet, t) ==
  1000 + UnitUs * (IF Deadline(packet) <= t THEN 0 ELSE Deadline(packet) - t)

\* Mutant: the comparison the wrong way round.
BugBestChannel ==
  CHOOSE c \in Channel : \A d \in Channel : score[c] > score[d] \/ (score[c] = score[d] /\ c <= d)

\* find_best_channel: the lowest score, the first of equals.
BestChannel ==
  CHOOSE c \in Channel : \A d \in Channel : score[c] < score[d] \/ (score[c] = score[d] /\ c <= d)

Waiting(p) == p \in Priority /\ inQueue[p] # <<>>

DispatchTop ==
  /\ dispatchPc = "top" /\ running
  /\ \E p \in Priority : Waiting(p)
  /\ ReadClock
  /\ passTime' = clock'
  /\ dispatchPc' = "High"
  /\ UNCHANGED <<running, coming, arrived, inQueue, batch, target, score, base, most,
                 highIn, ownIn, workerVars, emitted, reorderVars>>

DispatchExit ==
  /\ dispatchPc = "top" /\ ~running
  /\ dispatchPc' = "done"
  /\ UNCHANGED <<running, coming, arrived, clock, inQueue, passTime, batch, target, score,
                 base, most, highIn, ownIn, workerVars, emitted, reorderVars>>

\* What is left of the batch is sent next; after it the other priorities have their turn.
GoOnWith(rest, channel, lowest) ==
  /\ batch' = rest
  /\ IF rest # <<>>
     THEN /\ dispatchPc' = "send" /\ target' = channel /\ base' = lowest
          /\ UNCHANGED passTime
     ELSE dispatchPc' = "Medium" /\ target' = 0 /\ base' = 0 /\ passTime' = 0

\* The batch is what is there at the last try_recv; every packet of it is given the channel
\* that is best before any of them is recorded.
Collect ==
  LET size == IF Len(inQueue["High"]) <= BatchMax THEN Len(inQueue["High"]) ELSE BatchMax
  IN /\ dispatchPc = "High"
     /\ inQueue' = [inQueue EXCEPT !["High"] = SubSeq(@, size + 1, Len(@))]
     /\ GoOnWith(SubSeq(inQueue["High"], 1, size), BestChannel, score[BestChannel])
     /\ UNCHANGED <<running, coming, arrived, clock, score, most, highIn, ownIn, workerVars,
                    emitted, reorderVars>>

\* send, then record_distribution_with_slack.
SendHigh ==
  LET added == score[target] + Weight(Head(batch), passTime)
  IN /\ dispatchPc = "send"
     /\ highIn' = [highIn EXCEPT ![target] = Append(@, Head(batch))]
     /\ score' = [score EXCEPT ![target] = added]
     /\ most' = IF added - base > most THEN added - base ELSE most
     /\ GoOnWith(Tail(batch), target, base)
     /\ UNCHANGED <<running, coming, arrived, clock, inQueue, ownIn, workerVars, emitted,
                    reorderVars>>

\* The channel of the packets that are not High; BestEffort shares the queue of Low.
Home(p) == IF p = "Medium" THEN 1 ELSE 2

\* The turns after that of High.
Turns == <<"Medium", "Low", "BestEffort", "top">>

\* One packet of each of the other priorities: the first from turn i on that has one is taken.
DispatchOne(i, j) ==
  /\ dispatchPc = Turns[i] /\ i <= j
  /\ \A k \in i .. j - 1 : ~Waiting(Turns[k])
  /\ Waiting(Turns[j])
  /\ ownIn' = [ownIn EXCEPT ![Home(Turns[j])] = Append(@, Head(inQueue[Turns[j]]))]
  /\ inQueue' = [inQueue EXCEPT ![Turns[j]] = Tail(@)]
  /\ dispatchPc' = Turns[j + 1]
  /\ UNCHANGED <<running, coming, arrived, clock, passTime, batch, target, score, base, most,
                 highIn, workerVars, emitted, reorderVars>>

NothingElse ==
  /\ \E i \in 1 .. 3 : dispatchPc = Turns[i] /\ \A k \in i .. 3 : ~Waiting(Turns[k])
  /\ dispatchPc' = "top"
  /\ UNCHANGED <<running, coming, arrived, clock, inQueue, passTime, batch, target, score,
                 base, most, highIn, ownIn, workerVars, emitted, reorderVars>>

Dispatcher ==
  \/ DispatchTop \/ DispatchExit \/ Collect \/ SendHigh \/ NothingElse
  \/ \E i, j \in 1 .. 3 : DispatchOne(i, j)

-----------------------------------------------------------------------------
(* The workers. *)

SetOf(s) == {s[i] : i \in DOMAIN s}

\* Mutant: a heap that is not reversed gives the latest deadline.
BugUrgent(tasks) == {t \in tasks : \A u \in tasks : VirtualDeadline(t) >= VirtualDeadline(u)}

\* EDFTask::cmp; tasks of equal virtual deadlines come out in any order.
Urgent(tasks) == {t \in tasks : \A u \in tasks : VirtualDeadline(t) <= VirtualDeadline(u)}

\* A High packet is awaited before anything else is processed.
PlaceOf(t) == IF t.of = "High" THEN "process" ELSE "wait"

\* pop_front or pop from what the worker holds together with the tasks just received.
PopFrom(c, received) ==
  IF c = 0
  THEN LET queue == fifo \o received
       IN /\ fifo' = Tail(queue)
          /\ task' = [task EXCEPT ![c] = Head(queue)]
          /\ pc' = [pc EXCEPT ![c] = PlaceOf(Head(queue))]
          /\ UNCHANGED heap
  ELSE LET all == heap[c] \cup SetOf(received)
       IN \E t \in Urgent(all) :
            /\ heap' = [heap EXCEPT ![c] = all \ {t}]
            /\ task' = [task EXCEPT ![c] = t]
            /\ pc' = [pc EXCEPT ![c] = PlaceOf(t)]
            /\ UNCHANGED fifo

\* The worker of channel 0 does not receive while it has tasks.
SkipReception(c) == c = 0 /\ fifo # <<>>

\* One High packet, and no look at the other queues when there is one.
ReceiveHigh(c) ==
  /\ pc[c] = "top" /\ running
  /\ \/ /\ SkipReception(c)
        /\ PopFrom(c, <<>>)
        /\ UNCHANGED highIn
     \/ /\ ~SkipReception(c) /\ highIn[c] # <<>>
        /\ highIn' = [highIn EXCEPT ![c] = Tail(@)]
        /\ PopFrom(c, <<Head(highIn[c])>>)
  /\ UNCHANGED <<running, coming, arrived, clock, inQueue, dispatchVars, ownIn, emitted,
                 reorderVars>>

NoHigh(c) ==
  /\ pc[c] = "top" /\ running
  /\ ~SkipReception(c) /\ highIn[c] = <<>>
  /\ ownIn[c] # <<>> \/ heap[c] # {}
  /\ pc' = [pc EXCEPT ![c] = "drain"]
  /\ UNCHANGED <<running, coming, arrived, clock, inQueue, dispatchVars, highIn, ownIn, fifo,
                 heap, task, emitted, reorderVars>>

ReceiveOwn(c) ==
  /\ pc[c] = "drain"
  /\ ownIn' = [ownIn EXCEPT ![c] = <<>>]
  /\ PopFrom(c, ownIn[c])
  /\ UNCHANGED <<running, coming, arrived, clock, inQueue, dispatchVars, highIn, emitted,
                 reorderVars>>

WorkerExit(c) ==
  /\ pc[c] = "top" /\ ~running
  /\ pc' = [pc EXCEPT ![c] = "done"]
  /\ UNCHANGED <<running, coming, arrived, clock, inQueue, dispatchVars, highIn, ownIn, fifo,
                 heap, task, emitted, reorderVars>>

\* Mutant: the task that is put back is forgotten.
BugPutBack(c) == {Head(highIn[c])}

PutBack(c) == {Head(highIn[c]), task[c]}

\* recv_timeout returns a High packet: both it and the task go back, and the loop restarts.
HighArrives(c) ==
  /\ pc[c] = "wait" /\ highIn[c] # <<>>
  /\ heap' = [heap EXCEPT ![c] = @ \cup PutBack(c)]
  /\ highIn' = [highIn EXCEPT ![c] = Tail(@)]
  /\ task' = [task EXCEPT ![c] = NoTask]
  /\ pc' = [pc EXCEPT ![c] = "top"]
  /\ UNCHANGED <<running, coming, arrived, clock, inQueue, dispatchVars, ownIn, fifo, emitted,
                 reorderVars>>

TimeoutExpires(c) ==
  /\ pc[c] = "wait" /\ highIn[c] = <<>>
  /\ pc' = [pc EXCEPT ![c] = "process"]
  /\ UNCHANGED <<running, coming, arrived, clock, inQueue, dispatchVars, highIn, ownIn, fifo,
                 heap, task, emitted, reorderVars>>

\* The processing is over; the channel to the reorder thread never refuses.
Finish(c) ==
  /\ pc[c] = "process"
  /\ emitted' = [emitted EXCEPT ![c] = Append(@, task[c])]
  /\ task' = [task EXCEPT ![c] = NoTask]
  /\ pc' = [pc EXCEPT ![c] = "top"]
  /\ UNCHANGED <<running, coming, arrived, clock, inQueue, dispatchVars, highIn, ownIn, fifo,
                 heap, reorderVars>>

Worker(c) ==
  \/ ReceiveHigh(c) \/ NoHigh(c) \/ ReceiveOwn(c) \/ WorkerExit(c)
  \/ HighArrives(c) \/ TimeoutExpires(c) \/ Finish(c)

-----------------------------------------------------------------------------
(* The reorder thread. *)

Buffered == {c \in Channel : buffer[c] # NoTask}

\* Mutant: a full buffer is filled again.
BugMayFill(c) == emitted[c] # <<>>

MayFill(c) == buffer[c] = NoTask /\ emitted[c] # <<>>

\* The flag is read before the first channel is looked at.
GoOn == reorderPc = "loop" /\ (looked = 0 => running)

\* try_recv on one channel after the other, where the buffer is empty.
FillBuffer(c) ==
  /\ GoOn /\ looked <= c
  /\ MayFill(c) /\ \A d \in looked .. c - 1 : ~MayFill(d)
  /\ buffer' = [buffer EXCEPT ![c] = Head(emitted[c])]
  /\ emitted' = [emitted EXCEPT ![c] = Tail(@)]
  /\ looked' = c + 1
  /\ UNCHANGED <<running, coming, arrived, clock, inQueue, dispatchVars, highIn, ownIn,
                 workerVars, reorderPc, decided, lastLeft>>

\* The channel of the earliest real deadline, the first of equals.
Earliest ==
  {c \in Buffered : \A d \in Buffered :
      \/ Deadline(buffer[c]) < Deadline(buffer[d])
      \/ Deadline(buffer[c]) = Deadline(buffer[d]) /\ c <= d}

\* Sent to the output of the channel's class, whatever the class of the packet, or dropped.
Emit ==
  /\ GoOn /\ \A d \in looked .. 2 : ~MayFill(d)
  /\ \E c \in Earliest :
       /\ lastLeft' = [lastLeft EXCEPT ![c][buffer[c].of] = buffer[c].ts]
       /\ buffer' = [buffer EXCEPT ![c] = NoTask]
       /\ decided' = decided \cup {buffer[c].id}
  /\ looked' = 0
  /\ UNCHANGED <<running, coming, arrived, clock, inQueue, dispatchVars, highIn, ownIn,
                 workerVars, emitted, reorderPc>>

ReorderExit ==
  /\ reorderPc = "loop" /\ looked = 0 /\ ~running
  /\ reorderPc' = "done"
  /\ UNCHANGED <<running, coming, arrived, clock, inQueue, dispatchVars, highIn, ownIn,
                 workerVars, emitted, looked, buffer, decided, lastLeft>>

Reorder ==
  \/ Emit \/ ReorderExit
  \/ \E c \in Channel : FillBuffer(c)

Next ==
  \/ \E p \in Priority : Arrive(p)
  \/ Stop \/ Dispatcher \/ Reorder
  \/ \E c \in Channel : Worker(c)

Spec == Init /\ [][Next]_vars

\* Every thread keeps running; nothing is assumed of arrivals, of the clock and of shutdown.
FairSpec ==
  Spec /\ WF_vars(Dispatcher) /\ WF_vars(Reorder) /\ \A c \in Channel : WF_vars(Worker(c))

-----------------------------------------------------------------------------

Spot ==
  {<<"input", p>> : p \in Priority}
  \cup {"high", "own", "heap", "hand", "emitted", "buffer"} \X Channel
  \cup {<<"batch", 0>>, <<"fifo", 0>>, <<"decided", 0>>}

IdsOf(tasks) == {t.id : t \in tasks} \ {NoTask.id}

IdsAt(l) ==
  CASE l[1] = "input" -> IdsOf(SetOf(inQueue[l[2]]))
    [] l[1] = "high" -> IdsOf(SetOf(highIn[l[2]]))
    [] l[1] = "own" -> IdsOf(SetOf(ownIn[l[2]]))
    [] l[1] = "heap" -> IdsOf(heap[l[2]])
    [] l[1] = "hand" -> IdsOf({task[l[2]]})
    [] l[1] = "emitted" -> IdsOf(SetOf(emitted[l[2]]))
    [] l[1] = "buffer" -> IdsOf({buffer[l[2]]})
    [] l[1] = "batch" -> IdsOf(SetOf(batch))
    [] l[1] = "fifo" -> IdsOf(SetOf(fifo))
    [] OTHER -> decided

\* The packets that are somewhere, with the place.
Located == UNION {{<<i, l>> : i \in IdsAt(l)} : l \in Spot}

\* Every id of a set has a place, it has no second one, and there are no other ids.
Places(pairs, ids) ==
  /\ {x[1] : x \in pairs} = ids
  /\ \A x, y \in pairs : x[1] = y[1] => x = y

\* No two members of a sequence, or of a set, have one id.
Distinct(s) == \A j, k \in DOMAIN s : s[j].id = s[k].id => j = k
OneEach(tasks) == \A t, u \in tasks : t.id = u.id => t = u

(***************************************************************************)
(* A packet is in one place only, and there once, until the reorder thread *)
(* decides it: neither the batch, nor the task put back together with a    *)
(* High one, nor a buffer of the reorder thread loses or doubles one.      *)
(***************************************************************************)
TasksConserved ==
  /\ Places(Located, 0 .. arrived - 1)
  /\ \A p \in Priority : Distinct(inQueue[p])
  /\ Distinct(batch) /\ Distinct(fifo)
  /\ \A c \in Channel :
       Distinct(highIn[c]) /\ Distinct(ownIn[c]) /\ Distinct(emitted[c]) /\ OneEach(heap[c])

(***************************************************************************)
(* "Ensures fair distribution of HIGH priority load" (module comment):     *)
(* although a channel is chosen for a whole batch, before any of it is     *)
(* recorded, the scores of two channels never differ by more than one      *)
(* batch has added.                                                        *)
(***************************************************************************)
HighBalanced == \A c, d \in Channel : score[c] <= score[d] + most

(***************************************************************************)
(* Within a channel the packets of a class leave the reorder thread in the *)
(* order of their arrival, whatever was put back and received meanwhile.   *)
(***************************************************************************)
ChannelOrder ==
  [][\A c \in Channel, p \in Priority : lastLeft[c][p] <= lastLeft'[c][p]]_lastLeft

(***************************************************************************)
(* While the scheduler runs every packet is decided in the end, and none   *)
(* is put back for ever; after the flag is cleared all threads end.        *)
(***************************************************************************)
WorkCompletes ==
  []<>(IF running THEN decided = 0 .. arrived - 1
       ELSE dispatchPc = "done" /\ reorderPc = "done" /\ \A c \in Channel : pc[c] = "done")

=============================================================================
