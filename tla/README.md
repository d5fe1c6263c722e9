# Formal model of the AIEDF pipeline

## The system

The program moves UDP datagrams from input to output sockets in four classes
(High, Medium, Low, BestEffort), each with a latency budget. Threads that share
bounded channels, an atomic shutdown flag and a few mutexes do the work:

    sockets -> Ingress DRR -> input channels -> scheduler -> output channels -> Egress DRR -> sockets

The scheduler in the middle is one of seven (`SchedulerKind`).

| Component (source) | State | Operations | What is hard | What makes it correct |
|---|---|---|---|---|
| Ingress DRR (`scheduler/ingress_drr.rs`) | deficits, round-robin index, drop counters | one round over the flows, passes over a flow's sockets, `try_send` | the deficit is copied, spent and stored; full channel in the middle of a visit; shutdown inside the loops | credit is conserved, no flow falls behind, every packet is forwarded or counted |
| Single EDF (`scheduler/edf.rs`) | one head-of-line buffer per class | fill, choose, process, forward | only the heads are seen while ingress adds packets | earliest deadline first over all channels, order kept per class |
| Multi-worker EDF (`scheduler/multi_worker_edf.rs`, `run_worker`) | a heap and counters per worker | drain under quotas, select, preempt, guard window, emit | shared channels, requeueing, quotas that change | nothing lost or duplicated, no inversion, FIFO per class |
| Completion router (same file) | next number, next to emit, pending | number, complete, cascade | completions in any order, full egress | order of the numbers, each number decided |
| Adaptive controller (same file) | averages, quotas, guard windows | observe, rebalance, publish | integer arithmetic, publication store by store | no class starved, quotas fit totals, values in range |
| Global EDF, with virtual deadlines (`scheduler/gedf.rs`, `scheduler/gedf_vd.rs`) | heap, mutex, condition variable | push, pop, wait, wake all | lost wake-ups, shutdown | no task sleeps, global order, all threads end |
| Clairvoyant EDF (`scheduler/cedf.rs`) | worker queues, slack, trackers | dispatch by slack, preempt, guard | stale slack and depths, guard windows, what may preempt what | no task or work lost, High never preempted, exact maximum |
| Elastic mixed-criticality EDF (`scheduler/mc_edf_elastic.rs`) | scores, worker channels, heaps, reorder buffer | spread a batch of High, take, wait for High, put back, merge | scores that do not yet count the batch, a packet put back behind or before others, a merge of what is in sight only | channels stay balanced, order of a class in a channel, no packet lost, all of it decided |
| Single-CPU EDF (`scheduler/single_cpu_edf.rs`) | queue per class, lease | refill from sockets, choose, process, forward | two budgets in one class, a buffer dropped on several paths | inversions bounded by the difference of budgets, packets and buffers accounted for |
| Egress DRR (`scheduler/egress_drr.rs`) | last ids, socket indices | one pass over the classes, send with retry | retry ignores the flag | order, no packet lost |
| Metrics (`metrics.rs`, server in `pipeline.rs`) | event channel, batch, latencies of a window, counts | record, gather, trim, snapshot | full event channel, two threads cut the window, index of a percentile | a snapshot is exact, every packet in one event, egress goes on |
| Buffer pool (`buffer_pool.rs`) | free buffers per size class | lease, freeze, release on last drop | dropped by another thread than leased it, wrong class on release | as many buffers as were ever in use at once |
| Pipeline (`pipeline.rs`, `main.rs`) | flag, threads | new, run, shutdown | order of start and stop | all threads end |
| Priority tables, threading, GUI (`priority.rs`, `threading.rs`, `gui.rs`, `bin/gui.rs`) | none of interest | | | |

The hazards, each at its line, are in `PROJECT.json`.

## Modules

| Module | Models |
|---|---|
| `FifoDelivery` | what the router promises: per class, packets decided in the order of their numbers, delivered or dropped |
| `CompletionRouter` | `SequenceTracker` and `CompletionRouter`, one send at a time inside the mutex of a tracker |
| `Quotas` | quota arithmetic of `autobalance_loop` with the constants of the code, publication store by store |
| `AdaptiveController` | moving average, capacity, guard windows, composed with `Quotas` |
| `QuotaProofs`, `ControllerProofs` | the theorems of the two |
| `MultiWorkerEDF` | every step of `run_worker`, with `CompletionRouter` and the published quotas |
| `MultiWorkerProofs` | the theorems of `CompletionRouter` and of `MultiWorkerEDF` |
| `PipelineChannels` | output channels, flag, clock: what the threads of every pipeline share |
| `IngressChannels` | in addition the input channels and the budgets of the default pipeline |
| `IngressDRR`, `SingleEDF`, `EgressDRR` | its three threads; `EgressDRR` leaves to the composition what `record_packet` does |
| `Pipeline` | their composition, and the properties that span the stages |
| `PipelineProofs` | its theorems, over all three stages |
| `GlobalEDF` | both shared-heap schedulers; `VirtualTime` selects `gedf_vd.rs` |
| `GlobalEDFProofs` | its theorems |
| `ClairvoyantEDF` | dispatcher and workers of `cedf.rs`: placement, guard windows, preemption, latency trackers |
| `ClairvoyantProofs` | its theorems |
| `ElasticEDF` | dispatcher, three workers and reorder thread of `mc_edf_elastic.rs` |
| `ElasticEDFProofs` | its theorems |
| `BufferPool` | size classes, lease and release |
| `SingleCpuEDF` | the thread of `single_cpu_edf.rs` |
| `MetricsCollector` | event channel, Metrics-Processor, Statistics-Thread, percentiles |
| `SingleCpuPipeline` | the pipeline of `SchedulerKind::SingleCPUEDF`: `SingleCpuEDF`, `EgressDRR` and `MetricsCollector` over the shared channels and the pool |
| `SingleCpuProofs` | its theorems |
| `MC...` | instances for TLC |

Correspondence. A `pc` variable names the place a thread is at; each action is
the code between two accesses to what threads share, with its guards taken from
the conditions and early returns there. `PROJECT.json` ("map") gives the lines.
Locals that the code lets go out of scope are reset in the model, so that equal
situations are equal states. Variables marked *history* are not in the code;
they are written and never read by the actions.

Abstractions. A packet is its id, class and timestamp. The payload, its length
and the busy wait of processing are left out: processing may take any time.
A socket read returns a datagram or nothing; `send_to` that would block is
retried, which changes nothing. In `MultiWorkerEDF` deadlines are chosen with
the packet and grow within a class, since one ingress thread stamps the packets
of a class with one budget; the guard window may end at any moment. A rebalance
loads the counters of the workers one at a time while they move packets; in
`AdaptiveController`, which has no workers, the sums may be any. In
`Pipeline` the clock is read by ingress only, so it advances when ingress reads
it. In `GlobalEDF` a `try_send` to egress may succeed or not at any time.

In `ClairvoyantEDF` time is explicit: `Tick` advances the clock and counts down
every guard window and busy wait, so slack, remaining budget and latency are
what the code computes, in coarse units; so are `estimated_completion` and the
score made of it. The unit, the millisecond a score is rounded to and the
penalty for a queued task (1000 of them in the code) are constants. An estimate
is set when a task is pushed or finished only, and never raised to the current
time: a worker that has been idle for seconds looks better than one that has
just finished, whatever the lengths of their queues, once its estimate is old
enough. The model keeps this. Left out: whether a finished packet is sent or
counted as dropped (nothing depends on it); the polling of an idle dispatcher.
The step that takes a Medium packet includes finding High empty: a High packet
that arrives between the two calls might as well arrive after them.

In `ElasticEDF` the wait of a worker for High may end at any moment at which no
High packet is there: the code waits for at most 50 us, less when its moving
average of arrivals is shorter, so the averages are left out. The packets
counted as dropped, in two places, and the packets sent are one set of ids
(`decided`).

In `SingleCpuPipeline` a buffer is known by its size class only. `Record` of
egress and `RecordPacket` of the collector are one step: `record_packet` reads
the clock twice and then sends, or waits while the event channel is full. The
mutex of the collector is the place `"record"` of its processor. Percentiles are
operators: the code caches them in a clone that it makes for one snapshot. Their
index is `ceil(len * 99.9 / 100)` in f64. Where the product is not whole, f64
and the exact product have the same ceiling; where it is whole, f64 may be above
it, and the index is one further (41000 measurements at 99.9 %: 40960 instead of
40959). A comparison for all lengths up to two million found this for 99.9 %
only, and no deviation downwards. So `Index` rounds up, and at the pairs of the
constant `RoundsUp` by one more; the run puts the median of two there, as tens
of thousands of measurements are out of reach. The network gives a socket a
datagram or not, whatever the size hint was, except that a datagram hinted at is
there.

## Runs

| Run | Instance and bounds | Shows |
|---|---|---|
| `completion_router` | two classes, three numbers each, egress channels of one and two packets | `RouterInv`, `QuiescentIsEmpty`, the temporal `EveryNumberDecided`, and refinement of `FifoDelivery` |
| `multi_worker` | workers 0 and 1, three packets, one rebalance that loads the counters one at a time and lowers quotas without undercutting a heap, shutdown | conservation, counters, no inversion, FIFO of a class served by one worker, every packet decided, shutdown |
| `multi_worker_order` | the same | violates `PerPriorityFifo` (comment at `multi_worker_edf.rs:1624`) |
| `multi_worker_shrink` | worker 1 alone, with the quotas of `AdaptiveController::new` in small: the rebalance takes Medium from 3 to 1 | violates `RequeueSucceeds` (comment and assertion at 1465) |
| `adaptive_controller` | the constants of the code, two observations, rebalances on any sums of loads out of 0, 12 and 600 per class | no class starved, quotas fit totals, average and guards in range, backlog covered |
| `pipeline` | two classes, two sockets for High, quanta 2 and 1, channels of one packet, three datagrams, two rounds, two times | credit is conserved, no flow falls behind, the earliest head first, packets accounted for over all stages, order at egress, and the pipeline drains and stops |
| `global_edf` | two workers, two classes, virtual deadlines, three packets, two times | no lost wake-up, global order, conservation, the heap drains, awake threads end |
| `global_edf_shutdown` | the same with plain deadlines | violates `WorkersEnd` (`gedf.rs:155`): a worker sleeps for ever |
| `cedf` | two workers, loads of three packets in three orders of arrival, clock up to 2, a millisecond of two units, a penalty of one, a tracker window of one | conservation of packets and of work, placement by length and estimate, exact maximum, every packet decided and all threads ended |
| `cedf_high` | the same | violates `HighNeverPreempted` (`cedf.rs:937`): a High task that took over from a Medium one in its busy wait is put back for another High one |
| `mcedf_elastic` | three channels, batches of one or two, three packets in four orders of arrival, two times | no task lost, High balanced over the channels, the order of a class kept within a channel, everything decided and all threads ended |
| `single_cpu` | two High sockets with budgets 1 and 0, a Medium one with budget 0 and without output, two datagrams, two times, a stash, an event channel and output channels of one, a window of length 0 | inversions bounded, packets accounted for from socket to snapshot, buffers conserved, a snapshot exact at any moment the statistics thread may take one, egress and threads never stuck |

Why the bounds are enough. Two classes are enough for every comparison between
classes, as each is pairwise. Channels of one packet overflow at both stages.
The two datagrams of `single_cpu` are enough for an inversion within a class, a
full event channel, a full output channel, an empty stash, and a percentile of
two values, above the exact index too; a window of length 0 expires as soon as
the clock moves. A third datagram does not fit in the time of a run; what it
could add to the order of deadlines is covered by the theorem `InversionHolds`.
The four loads of `mcedf_elastic` are a batch of High before Medium, High that
arrives at a worker in its wait, two classes in one heap, and High alone.
Elsewhere three packets make a queue, a packet in hand and one that is ahead of
or behind both; two timestamps together with the budgets make deadlines of
different classes fall before, together and after one another. Two rounds rotate
the start of the round once and carry credit over. The three loads of `cedf` are
Medium, High, High (what took over is itself put back; a worker is preempted
while the dispatcher holds a task it has found a queue for), Low, High, Medium
(a task is preempted half done, and once more) and Low, Low, Medium (a first
latency opens the guard window of the second task, and the third comes in it).
With a penalty of one millisecond of two units an estimate two units old
outweighs a queued task, so that the longer queue wins in some states and the
shorter one in others; a window of one measurement makes the second push the
first out. Two workers make every race of two threads at a lock, a channel or
the tracker. Counters that would grow for ever are bounded in the guards:
`MaxDatagrams`, `MaxRounds`, `Times`, `MaxTime`, `MaxPackets`, `Loads`,
`MaxObservations`, and the bound on numbers in the router.

Deadlock is not checked where the program really stops: after shutdown, or when
the bounded inputs are used up.

Fairness. Each thread is weakly fair: the operating system runs it. `cedf` also
assumes that time passes. Nothing is assumed of arrivals, of shutdown or of the
controller. That egress completes a send assumes that the socket accepts data
again, which its retry loop needs as well. In `GlobalEDF` the mutex needs no
more than weak fairness, because the number of packets is bounded.

Findings. The four violation runs are explained in `PROJECT.json`, as are
the differences between a comment and the code that need no run: the "strict
order" of egress, the scaling
factors of `gedf_vd.rs`, the `break` after a refused packet in ingress, the
"atomic" publication of quotas, the blocking `record_packet`,
the order and the completion estimate of `cedf.rs`, the output, the batches and
the wait of `mc_edf_elastic.rs`, and the queue of `single_cpu_edf.rs` that is taken
to be sorted.

What the properties of a passing run say is not weakened by these: `multi_worker`
states FIFO for a class that one worker serves and assumes a rebalance that
does not undercut a heap; `NoTaskSleeps` and `HeapDrains` allow that the
dispatcher pushes its last tasks after every worker has ended.

## Proofs

tlapm checks the theorems below for all values of the constants under the named
assumptions (`ASSUME`) of the modules. Each is a theorem of the specification
that TLC runs on an instance. The argument is always the same: an inductive
invariant, the lemma that the initial states satisfy it, one lemma per action
that keeps it, and the property as a consequence. TLC checked each invariant on
the run of its component before it was proved.

**Completion router** (`MultiWorkerProofs`, first part). `RouterInvariant`
(`RouterSpec => []RouterInv`), `NothingLeftBehind` (`[]QuiescentIsEmpty`),
`RouterImplementsFifo` (`RouterSpec => FifoSpec`). The invariant is `RouterInv`
itself: types; the numbers given out are partitioned into emitted, pending and
held by workers, which is what makes a release find exactly the next number;
pending numbers are above the next to emit, unless a cascade is going on; the
history of what was sent is increasing and below the next to emit; as many
packets are decided as were sent or dropped. The refinement maps each send to
one delivery or drop.

**Multi-worker scheduler** (`MultiWorkerProofs`). Seen through the variables of
the router every step of a worker is a step of `RouterNext` or a stutter
(`WorkersUseRouter`), so what is proved of the router holds of the whole:
`WorkersKeepRouter` and `WorkersImplementFifo` (`Spec => FifoSpec`). On top of it:

* `NoInversionHolds`: nothing in the heap is due before a Medium, Low or BestEffort
  item that is processed (`DueFirst`). A High packet is exempt: in the guard window
  it displaces by class, whatever deadlines the heap holds, so it may run while an
  earlier packet waits there;
* `SingleWorkerFifoHolds`: with one worker for a class, numbers are given in the
  order of arrival: a channel holds what came after the packet in a hand, and that
  came after all that was numbered (`ChannelOrder`, `HandOrder`). Nothing is said of
  the order in which the worker processes them; that they leave in the order of the
  numbers is `WorkersImplementFifo`;
* `NumbersHeldOnce`: whatever rebalances do and whether pushes are refused or not, no
  number is held twice, nor after it was completed. So the worst a refused push
  does is to lose a packet;
* `NoPacketLostHolds`, `CountersMatchHold`: under the condition `[]RequeueSucceeds`,
  that a packet put back always finds room. The condition is not an assumption
  on the code in disguise: `multi_worker_shrink` shows that the code breaks it
  when a rebalance lowers a quota below what a heap holds, and then the packet is
  lost. So the condition is traced to its cause: `RequeueHolds` derives it from
  `[]QuotasCover` (a worker never reads a quota below what it holds), and
  `RaisedQuotasLoseNothing` from `QuotasKept`: no rebalance lowers a quota of Medium,
  Low or BestEffort. The controller of the code meets neither (its first rebalance
  takes Medium on worker 2 from 60 to 1), so this says what a controller would have
  to respect and nothing of this one; the shrinking case is left to the run.

**Controller** (`QuotaProofs`, `ControllerProofs`). `QuotaProofs` has the lemmas about
the arithmetic of a rebalance and about its publication, store by store; the
stores still to be made are a set. `PriorityServed` and `QuotasFit` follow what
is published: there is a plan that fits (`Sound`), and each value is the planned one
or a store of it is under way (`Follows`); the workers that serve a class at home keep a
quota above zero all along (`Served`). `BacklogHolds`: what is planned covers the
backlog that was read, caps permitting. `EmaHolds`: an average that starts above zero stays there,
as seven eighths of one and an eighth of one make one. `GuardHolds` has a
hypothesis, that the budgets of Medium and Low are 80 us or more: the controller
starts with windows of 80 us whatever the budgets are, and the property is false
below that. The code runs with 10 ms and more (`pipeline.rs:267`). The assumptions on
the constants say that caps, minima and initial totals are above zero, that the
initial quotas serve each class at its home and fit the totals: those of
`AdaptiveController::new` do.

**Default pipeline** (`PipelineProofs`):

* `CreditHolds` (`[]CreditConserved`): a visit copies the deficit with its
  quantum, a read pays from the copy, the end of the visit stores it;
* `VisitsHold` (`[]VisitsBalanced`): each flow has the visits of the rounds that
  are over, and one more if the rotated order has come to it (`Even`);
* `PacketsHold` (`[]PacketsConserved`): each step moves at most one packet of a class
  from one place to the next, which keeps the sum;
* `EarliestHolds` (`[]EarliestFirst`): the scheduler compares one head per class. A
  packet in a channel is no older than the buffered head of its class
  (`BufferInv`), and if a buffer stayed empty when it was looked at, the channel
  behind it has only packets that came since `process_next` began (`FillInv`);
* `EgressOrderIsKept` (`[]EgressOrderHolds`): for each class, what has left, the
  output channel, the packet in hand, the buffer and the input channel form one
  chain of increasing ids (`Chain`); each step shortens one part of it from the
  front and lengthens another at the back.

**Global EDF** (`GlobalEDFProofs`):

* `NoWakeupLost` (`[]NoTaskSleeps`): a worker about to wait could strand a task; the
  strengthening says that it has held the mutex since it found the heap empty
  (`LockedInv`), so no push can have happened. It assumes that no worker is the
  mark of a free mutex;
* `OrderHolds` (`[]GlobalOrder`): what is further back in a class (clock, channel,
  dispatcher's hand, heap) is due no earlier than what is further on; virtual
  deadlines keep it, as within a class the budget is scaled by one factor
  (`DueMonotone`);
* `TasksAreConserved`: each place has a set of ids; these sets are apart and make up
  all ids given out (`Apart`); a step moves ids from one place to another
  (`Moves`), or brings a new one (`Comes`).

**Clairvoyant EDF** (`ClairvoyantProofs`): `WorkIsConserved` (types of each place a
thread is at, and the work of each task in a heap: `WorkInv`), `LongerIsEarlier`
(the chosen worker has the best score of what was
read: `DepthInv`), `MaximumIsExact` (`LatencyInv`: the maximum is reached in the
window, or is 0 of none), `TasksAreConserved` (`ConserveInv`, by ids as above).
`LongerIsEarlier` is what a score promises: the chosen queue is longer than another
one was only if its worker's estimate was earlier, by the penalty for each further
task, up to the millisecond that rounding takes. The dispatcher reads the workers
one by one and pushes later, and in between a worker may put back not one task but
several, one per preemption; they do not count (`returned`, a history).

**Elastic EDF** (`ElasticEDFProofs`):

* `BalanceHolds` (`[]HighBalanced`): while a batch is sent, its target was the least
  of the scores when it was chosen and has grown by no more than the batch since;
* `ChannelOrderHolds` (the action property `ChannelOrder`): seven stages lead a packet
  to the buffer of its channel (`Stages`), and of the packets of one class those at
  a later stage came first (`InOrder`). A step moves packets on past empty stages
  (`Advances`), or what a worker holds one stage back (`Retreats`). That this is enough
  rests on `FlowInv`: the worker of channel 0 never queues anything, so that its first-in
  first-out queue and the heaps of the others need no common order;
* `TasksAreConserved`: by ids; taking a task is two moves in one step, from the
  channel to the heap and on to the hand (`StepMovesOn`), and the put-back gathers two
  tasks from two places (`StepGathers`).

**Single-CPU EDF** (`SingleCpuProofs`):

* `InversionHolds` (`[]InversionBounded`): a queue is in the order of arrival and each
  packet in it is due one budget of its class after it arrived, so the front
  packet is due at most the difference of two budgets after any other;
* `PacketsAreAccounted`: `FlowInv` types what the three threads hold at each place;
  `Balance` counts it per class, with the number of marked places of a sequence;
* `BuffersAreConserved` (`PoolInv`): the buffers in use are the places in the two
  queues and the three hands that hold one of the class;
* `SnapshotHolds` (`[]SnapshotExact`): the latencies kept of a class are linked one
  to one, in the order of recording, to entries of the history, all those of the
  window among them (`Linked`, in `SnapshotInv`); after a trim the link is a
  bijection with the window (`LinkTrims`, `LinkedExact`). A percentile is then right
  by counting (`PercentileIs`): the places up to its rank are not more than it, those
  from its rank on not less, which also holds of the place after a whole product
  (`IsRank`). An ascending order of the places exists
  (`OrderExists`): the least prefix without one would get one by putting its last
  place before the first that exceeds it.

Lemmas of use elsewhere: a set of natural numbers has a least element
(`LeastNatural`, by well-founded minimality), on which each choice of an
earliest deadline and the order of the latencies rest; the effect of `Append`,
`Tail` and `SubSeq` on the ids of a sequence.

Only model-checked: every liveness property, since fairness and ENABLED are beyond
the prover (`EveryNumberDecided`, `EveryPacketDecided`, `PipelineDrains`,
`HeapDrains`, `WorkCompletes` and their like). Every invariant and every action
property of the passing runs is a theorem.

## Not modelled, and the plan

Not modelled:

* process start and the metrics server (`main.rs`, `pipeline.rs:497`): they change
  no state of the pipeline, and the modules begin when `run` has set the flag;
* of the metrics, mean and deviation, the queue fields and the serialisation: they
  are functions of what is modelled and nothing in the pipeline reads them;
* thread priorities and cores: a hint to the operating system; any order of the
  steps of the threads is allowed;
* the GUI and its client: they read snapshots only;
* payload, lengths and logging.

What further proofs would bring, in this order: the bounds of the drop counters
of each stage as action properties (what a step may never do), of which the
conservation theorems are the state half; a weaker condition than `QuotasKept` for
`RequeueSucceeds`, which the code does not offer today; and an abstract
specification of a scheduler (each packet handed out once, in deadline order) that
`GlobalEDF` and `SingleEDF` can be shown to implement, as the multi-worker
scheduler implements `FifoDelivery`.
