---------------------------- MODULE SingleCpuEDF ----------------------------
(***************************************************************************)
(* The single-CPU scheduler (scheduler/single_cpu_edf.rs, process_next and *)
(* run): one thread reads the sockets of a class itself when the queue of  *)
(* the class is empty, takes the front packet with the earliest deadline,  *)
(* processes it and offers it to egress.                                   *)
(*                                                                         *)
(* The queue of a class is a FIFO that is taken to be sorted by deadline,  *)
(* although each socket has a latency budget of its own.  What the network *)
(* puts into the sockets is not modelled.                                  *)
(***************************************************************************)
EXTENDS PipelineChannels, BufferPool

CONSTANTS
  Inputs,        \* the sockets, in the order they are polled: class and latency budget
  Sizes,         \* the sizes of datagrams
  MaxPacketSize, \* MAX_PACKET_SIZE
  MaxDatagrams,  \* bound on the datagrams read
  MaxTime        \* bound on the clock

ASSUME SingleCpuAssumption ==
  /\ Inputs \in Seq([of : Priority \ {"BestEffort"}, budget : Nat])
  /\ Sizes \cup {MaxPacketSize} = Hints /\ 0 \notin Sizes
  /\ MaxDatagrams \in Nat /\ MaxTime \in Nat

VARIABLES
  edfPc,      \* where the thread is
  refilling,  \* classes whose queue was empty when this pass looked at it
  at,         \* the socket that is polled next
  lease,      \* size class of the leased buffer; 0 without one
  ready,      \* the size hint was that of a datagram
  edfQueue,   \* edf_queues
  chosen,     \* the packet being processed
  nextId,     \* PACKET_ID_COUNTER
  outDrops,   \* output_drop_counters
  reads       \* history: packets read of each class

edfVars == <<edfPc, refilling, at, lease, ready, edfQueue, chosen, nextId, outDrops, reads>>

EdfInit ==
  /\ edfPc = "top"
  /\ refilling = {}
  /\ at = 1
  /\ lease = 0
  /\ ready = FALSE
  /\ edfQueue = [p \in Priority |-> <<>>]
  /\ chosen = NoPacket
  /\ nextId = 0
  /\ outDrops = [p \in Priority |-> 0]
  /\ reads = [p \in Priority |-> 0]

\* Instant::now.
ReadClock == now' \in now .. MaxTime

\* The classes the scheduler serves; sockets of the others are never polled.
Served == Priority \ {"BestEffort"}

\* The first socket from i on that a pass over the empty queues polls.
PolledFrom(i, empty) ==
  LET polled == {j \in i .. Len(Inputs) : Inputs[j].of \in empty}
  IN IF polled = {} THEN Len(Inputs) + 1 ELSE CHOOSE j \in polled : \A k \in polled : j <= k

\* run reads its flag and calls process_next.  Only this thread changes the queues: those
\* that are empty now are those found empty in turn.
BeginNext ==
  /\ edfPc = "top" /\ running
  /\ refilling' = {p \in Served : edfQueue[p] = <<>>}
  /\ at' = PolledFrom(1, refilling')
  /\ edfPc' = "refill"
  /\ UNCHANGED <<channelVars, free, lease, ready, edfQueue, chosen, nextId, outDrops, reads>>

EdfExit ==
  /\ edfPc = "top" /\ ~running
  /\ edfPc' = "done"
  /\ UNCHANGED <<channelVars, free, refilling, at, lease, ready, edfQueue, chosen, nextId,
                 outDrops, reads>>

\* datagram_size_hint, then lease: the size of the datagram at the head of the socket, or
\* the maximum when there is none or it is empty.
LeaseBuffer(hint) ==
  /\ edfPc = "refill" /\ at <= Len(Inputs)
  /\ \/ hint \in Sizes /\ nextId < MaxDatagrams /\ ready' = TRUE
     \/ hint = MaxPacketSize /\ ready' = FALSE
  /\ lease' = SizeClass(hint)
  /\ Acquire(lease')
  /\ edfPc' = "receive"
  /\ UNCHANGED <<channelVars, refilling, at, edfQueue, chosen, nextId, outDrops, reads>>

\* To the next socket of an empty queue.
NextSocket ==
  /\ at' = PolledFrom(at + 1, refilling)
  /\ lease' = 0
  /\ ready' = FALSE
  /\ edfPc' = "refill"

\* The datagram hinted at, or one that came since: stamped, due after the budget of its
\* socket, and pushed to the back of the queue of its class.
ReceiveDatagram ==
  LET socket == Inputs[at]
  IN /\ edfPc = "receive"
     /\ nextId < MaxDatagrams
     /\ ReadClock
     /\ edfQueue' = [edfQueue EXCEPT ![socket.of] =
          Append(@, [id |-> nextId, of |-> socket.of, ts |-> now',
                     due |-> now' + socket.budget, buffer |-> lease])]
     /\ nextId' = nextId + 1
     /\ reads' = [reads EXCEPT ![socket.of] = @ + 1]
     /\ NextSocket
     /\ UNCHANGED <<running, outQueue, free, refilling, chosen, outDrops>>

\* An empty datagram, WouldBlock or an error: the lease is dropped.
ReceiveNothing ==
  /\ edfPc = "receive" /\ ~ready
  /\ Release(lease)
  /\ NextSocket
  /\ UNCHANGED <<channelVars, refilling, edfQueue, chosen, nextId, outDrops, reads>>

\* The classes with a packet, the deadline of the front one, and the place in Priority::ALL.
Filled == {p \in Served : edfQueue[p] # <<>>}
FrontDue(p) == edfQueue[p][1].due
Rank(p) == CHOOSE i \in 1 .. 4 : AllPriorities[i] = p

\* Mutant: the higher class first, whatever the deadlines.
BugEarliest == CHOOSE p \in Filled : \A q \in Filled : Rank(p) <= Rank(q)

\* STEP 2.  The earliest deadline of the front packets, the higher class on a tie.
Earliest ==
  CHOOSE p \in Filled : \A q \in Filled :
    FrontDue(p) < FrontDue(q) \/ (FrontDue(p) = FrontDue(q) /\ Rank(p) <= Rank(q))

\* No sockets are left to poll.
Refilled == edfPc = "refill" /\ at > Len(Inputs)

ChooseNone ==
  /\ Refilled /\ Filled = {}
  /\ refilling' = {} /\ at' = 1
  /\ edfPc' = "top"
  /\ UNCHANGED <<channelVars, free, lease, ready, edfQueue, chosen, nextId, outDrops, reads>>

\* STEP 3 and 4.  The packet leaves its queue and is processed.
Choose ==
  /\ Refilled /\ Filled # {}
  /\ chosen' = edfQueue[Earliest][1]
  /\ edfQueue' = [edfQueue EXCEPT ![Earliest] = Tail(@)]
  /\ refilling' = {} /\ at' = 1
  /\ edfPc' = "forward"
  /\ UNCHANGED <<channelVars, free, lease, ready, nextId, outDrops, reads>>

\* Mutant: a refused packet is not counted.
BugForward ==
  LET p == chosen.of
  IN /\ edfPc = "forward"
     /\ IF Len(outQueue[p]) < OutCapacity[p]
        THEN outQueue' = [outQueue EXCEPT ![p] = Append(@, chosen)] /\ UNCHANGED free
        ELSE Release(chosen.buffer) /\ UNCHANGED outQueue
     /\ chosen' = NoPacket
     /\ edfPc' = "top"
     /\ UNCHANGED <<running, now, refilling, at, lease, ready, edfQueue, nextId, outDrops, reads>>

\* STEP 5.  try_send to egress, or count a drop; the packet refused is dropped with its buffer.
Forward ==
  LET p == chosen.of
  IN /\ edfPc = "forward"
     /\ \/ /\ Len(outQueue[p]) < OutCapacity[p]
           /\ outQueue' = [outQueue EXCEPT ![p] = Append(@, chosen)]
           /\ UNCHANGED <<free, outDrops>>
        \/ /\ Len(outQueue[p]) >= OutCapacity[p]
           /\ outDrops' = [outDrops EXCEPT ![p] = @ + 1]
           /\ Release(chosen.buffer)
           /\ UNCHANGED outQueue
     /\ chosen' = NoPacket
     /\ edfPc' = "top"
     /\ UNCHANGED <<running, now, refilling, at, lease, ready, edfQueue, nextId, reads>>

EdfStep ==
  \/ BeginNext \/ EdfExit \/ ReceiveDatagram \/ ReceiveNothing
  \/ ChooseNone \/ Choose \/ Forward
  \/ \E hint \in Hints : LeaseBuffer(hint)

-----------------------------------------------------------------------------

(***************************************************************************)
(* "Data is already sorted by deadline" (refill_edf) is not so when the    *)
(* sockets of a class have different budgets.  What is left of EDF: the    *)
(* packet processed is due after a packet that waits by no more than two   *)
(* budgets in the class of the latter differ, not at all if they are equal.*)
(***************************************************************************)
InversionBounded ==
  edfPc = "forward" =>
    \A p \in Priority : \A i \in 1 .. Len(edfQueue[p]) :
      \E j, k \in 1 .. Len(Inputs) :
        /\ Inputs[j].of = p /\ Inputs[k].of = p
        /\ chosen.due <= edfQueue[p][i].due + Inputs[j].budget - Inputs[k].budget

=============================================================================
