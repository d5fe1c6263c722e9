-------------------------- MODULE CompletionRouter --------------------------
(***************************************************************************)
(* The completion side of the multi-worker EDF scheduler                   *)
(* (scheduler/multi_worker_edf.rs): one SequenceTracker per priority gives *)
(* every packet a number when a worker admits it, and hands completed      *)
(* packets to the bounded egress channel in the order of those numbers,    *)
(* whatever the order in which the workers complete them.                  *)
(*                                                                         *)
(* A work item is its number: its packet is not looked at here.  The       *)
(* egress channel of a priority is kept as the history sent[p] of the      *)
(* numbers accepted by it and the count taken[p] of those already received *)
(* by the egress scheduler; what is queued is the rest of the history.     *)
(* complete() holds the tracker's mutex while it sends a run of packets,   *)
(* one try_send at a time: draining[p] says that the mutex is held, and    *)
(* the egress thread may receive, and workers may take numbers (lock-free),*)
(* between two sends.                                                      *)
(***************************************************************************)
EXTENDS Integers, Sequences

CONSTANTS
  Priority,       \* the priority classes
  QueueCapacity,  \* capacity of the egress channel of each priority
  MaxSequence     \* bound on the numbers a tracker gives out

ASSUME QueueCapacityAssumption == QueueCapacity \in [Priority -> Nat \ {0}]
ASSUME MaxSequenceAssumption == MaxSequence \in Nat

VARIABLES
  nextSequence,  \* next_sequence: the number the next admitted packet gets
  nextEmit,      \* next_emit: the number that must be sent next
  pending,       \* completed out of order, waiting for nextEmit to reach them
  draining,      \* the mutex of the tracker is held by a complete() that sends
  inFlight,      \* numbers given to packets that workers have not completed yet
  sent,          \* numbers accepted by the egress channel, oldest first
  taken,         \* how many of sent the egress scheduler has received
  drops          \* drop counter: sends refused because the channel was full

routerVars ==
  <<nextSequence, nextEmit, pending, draining, inFlight, sent, taken, drops>>

Sequence == 0 .. MaxSequence - 1

TypeOK ==
  /\ nextSequence \in [Priority -> 0 .. MaxSequence]
  /\ nextEmit \in [Priority -> Nat]
  /\ pending \in [Priority -> SUBSET Sequence]
  /\ draining \in [Priority -> BOOLEAN]
  /\ inFlight \in [Priority -> SUBSET Sequence]
  /\ sent \in [Priority -> Seq(Sequence)]
  /\ taken \in [Priority -> Nat]
  /\ drops \in [Priority -> Nat]

RouterInit ==
  /\ nextSequence = [p \in Priority |-> 0]
  /\ nextEmit = [p \in Priority |-> 0]
  /\ pending = [p \in Priority |-> {}]
  /\ draining = [p \in Priority |-> FALSE]
  /\ inFlight = [p \in Priority |-> {}]
  /\ sent = [p \in Priority |-> <<>>]
  /\ taken = [p \in Priority |-> 0]
  /\ drops = [p \in Priority |-> 0]

Queued(p) == Len(sent[p]) - taken[p]

\* Mutant: a refused send is not counted.
BugSendUncounted(p, s) ==
  /\ IF Queued(p) < QueueCapacity[p]
     THEN sent' = [sent EXCEPT ![p] = Append(@, s)]
     ELSE UNCHANGED sent
  /\ UNCHANGED drops

\* send_packet: try_send, and count the packet as dropped when it is refused.
Send(p, s) ==
  \/ /\ Queued(p) < QueueCapacity[p]
     /\ sent' = [sent EXCEPT ![p] = Append(@, s)]
     /\ UNCHANGED drops
  \/ /\ Queued(p) >= QueueCapacity[p]
     /\ drops' = [drops EXCEPT ![p] = @ + 1]
     /\ UNCHANGED sent

\* prepare / assign_sequence: lock-free, so possible while the mutex is held.
Assign(p) ==
  /\ nextSequence[p] < MaxSequence
  /\ nextSequence' = [nextSequence EXCEPT ![p] = @ + 1]
  /\ inFlight' = [inFlight EXCEPT ![p] = @ \cup {nextSequence[p]}]
  /\ UNCHANGED <<nextEmit, pending, draining, sent, taken, drops>>

\* Mutant: any completed packet is sent at once.
BugCompleteNext(p, s) ==
  /\ ~draining[p]
  /\ s \in inFlight[p]
  /\ inFlight' = [inFlight EXCEPT ![p] = @ \ {s}]
  /\ Send(p, s)
  /\ nextEmit' = [nextEmit EXCEPT ![p] = @ + 1]
  /\ draining' = [draining EXCEPT ![p] = TRUE]
  /\ UNCHANGED <<nextSequence, pending, taken>>

\* complete() of the packet that must be sent next: send it, keep the mutex.
CompleteNext(p, s) ==
  /\ ~draining[p]
  /\ s \in inFlight[p]
  /\ s = nextEmit[p]
  /\ inFlight' = [inFlight EXCEPT ![p] = @ \ {s}]
  /\ Send(p, s)
  /\ nextEmit' = [nextEmit EXCEPT ![p] = @ + 1]
  /\ draining' = [draining EXCEPT ![p] = TRUE]
  /\ UNCHANGED <<nextSequence, pending, taken>>

\* complete() of any other packet: keep it until its turn comes.
CompleteEarly(p, s) ==
  /\ ~draining[p]
  /\ s \in inFlight[p]
  /\ s # nextEmit[p]
  /\ inFlight' = [inFlight EXCEPT ![p] = @ \ {s}]
  /\ pending' = [pending EXCEPT ![p] = @ \cup {s}]
  /\ UNCHANGED <<nextSequence, nextEmit, draining, sent, taken, drops>>

\* One turn of the cascade: the next number was waiting, send it too.
Cascade(p) ==
  /\ draining[p]
  /\ nextEmit[p] \in pending[p]
  /\ pending' = [pending EXCEPT ![p] = @ \ {nextEmit[p]}]
  /\ Send(p, nextEmit[p])
  /\ nextEmit' = [nextEmit EXCEPT ![p] = @ + 1]
  /\ UNCHANGED <<nextSequence, draining, inFlight, taken>>

\* Mutant: only one packet is sent per completion (no cascade).
BugRelease(p) ==
  /\ draining[p]
  /\ draining' = [draining EXCEPT ![p] = FALSE]
  /\ UNCHANGED <<nextSequence, nextEmit, pending, inFlight, sent, taken, drops>>

\* The cascade ends: next_emit is stored and the mutex is released.
Release(p) ==
  /\ draining[p]
  /\ nextEmit[p] \notin pending[p]
  /\ draining' = [draining EXCEPT ![p] = FALSE]
  /\ UNCHANGED <<nextSequence, nextEmit, pending, inFlight, sent, taken, drops>>

\* The egress scheduler's try_recv of one packet.
Take(p) ==
  /\ Queued(p) > 0
  /\ taken' = [taken EXCEPT ![p] = @ + 1]
  /\ UNCHANGED <<nextSequence, nextEmit, pending, draining, inFlight, sent, drops>>

Complete(p) == \E s \in inFlight[p] : CompleteNext(p, s) \/ CompleteEarly(p, s)

RouterNext ==
  \E p \in Priority :
    \/ Assign(p)
    \/ Complete(p)
    \/ Cascade(p)
    \/ Release(p)
    \/ Take(p)

RouterSpec == RouterInit /\ [][RouterNext]_routerVars

(***************************************************************************)
(* A worker always completes the packet it took a number for, and complete *)
(* always runs to its end: both are straight-line code of a worker thread. *)
(* Each packet is fair on its own, however long its processing.  Nothing   *)
(* is assumed of new packets or of the egress scheduler.                   *)
(***************************************************************************)
RouterFairness ==
  \A p \in Priority :
    /\ \A s \in Sequence : WF_routerVars(CompleteNext(p, s) \/ CompleteEarly(p, s))
    /\ WF_routerVars(Cascade(p) \/ Release(p))

FairRouterSpec == RouterSpec /\ RouterFairness

-----------------------------------------------------------------------------

(***************************************************************************)
(* Every number given out and not yet decided is in exactly one place: with*)
(* the worker that holds the packet, or parked in pending.  A number in    *)
(* neither would stop the tracker for ever; one in both would be sent      *)
(* twice (assign_sequence, complete).                                      *)
(***************************************************************************)
Partition ==
  \A p \in Priority :
    /\ nextEmit[p] <= nextSequence[p]
    /\ inFlight[p] \cup pending[p] = nextEmit[p] .. nextSequence[p] - 1
    /\ inFlight[p] \cap pending[p] = {}

(***************************************************************************)
(* When nobody is inside complete(), the number to send next is not parked:*)
(* the cascade never stops early, so a packet waits in pending only for a  *)
(* packet a worker still holds (the while loop of complete).               *)
(***************************************************************************)
WaitsOnlyForWorkers ==
  \A p \in Priority :
    ~draining[p] /\ pending[p] # {} => nextEmit[p] \in inFlight[p]

IncreasingBelow(h, n) ==
  /\ \A i, j \in 1 .. Len(h) : i < j => h[i] < h[j]
  /\ \A i \in 1 .. Len(h) : h[i] < n

(***************************************************************************)
(* Packets enter the egress channel in the order of their numbers, and     *)
(* never one that is not decided yet (complete, send_packet).              *)
(***************************************************************************)
SentInOrder == \A p \in Priority : IncreasingBelow(sent[p], nextEmit[p])

(***************************************************************************)
(* Every decided packet was sent or counted as dropped, and the channel    *)
(* never holds more than its capacity (send_packet).                       *)
(***************************************************************************)
SentOrCounted ==
  \A p \in Priority :
    /\ Len(sent[p]) + drops[p] = nextEmit[p]
    /\ taken[p] <= Len(sent[p])
    /\ Queued(p) <= QueueCapacity[p]

(***************************************************************************)
(* Once the workers hold nothing, nothing is left behind in the tracker.   *)
(***************************************************************************)
QuiescentIsEmpty ==
  \A p \in Priority :
    inFlight[p] = {} /\ ~draining[p] =>
      pending[p] = {} /\ nextEmit[p] = nextSequence[p]

RouterInv == TypeOK /\ Partition /\ WaitsOnlyForWorkers /\ SentInOrder /\ SentOrCounted

(***************************************************************************)
(* Every numbered packet is eventually decided: sent or counted as dropped.*)
(***************************************************************************)
EveryNumberDecided ==
  \A p \in Priority, s \in Sequence : s < nextSequence[p] ~> s < nextEmit[p]

(***************************************************************************)
(* The router implements FIFO delivery: seen from the egress side, workers *)
(* that complete in any order and the parking of early packets make no     *)
(* difference.                                                             *)
(***************************************************************************)
Fifo ==
  INSTANCE FifoDelivery WITH
    Capacity <- QueueCapacity, accepted <- nextSequence, decided <- nextEmit,
    received <- taken, dropped <- drops

FifoSpec == Fifo!Spec

=============================================================================
