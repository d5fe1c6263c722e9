----------------------------- MODULE IngressDRR -----------------------------
(***************************************************************************)
(* The ingress scheduler (scheduler/ingress_drr.rs, process_sockets): one  *)
(* thread polls the sockets of every priority under packet-count deficit   *)
(* round robin, stamps what it reads and offers it to the input channels.  *)
(*                                                                         *)
(* The sockets are registered before the thread starts.  What the network  *)
(* puts into them is not modelled: a read returns a datagram or nothing.   *)
(***************************************************************************)
EXTENDS IngressChannels

CONSTANTS
  Sockets,       \* number of sockets of each priority
  Quantum,       \* DRR quantum of each priority
  MaxDatagrams,  \* bound on the datagrams read
  MaxRounds      \* bound on the rounds of the scheduler

ASSUME IngressAssumption ==
  /\ Sockets \in [Priority -> Nat \ {0}]
  /\ Quantum \in [Priority -> Nat \ {0}]
  /\ MaxDatagrams \in Nat /\ MaxRounds \in Nat

VARIABLES
  nextId,        \* PACKET_ID_COUNTER
  deficit,       \* FlowState.deficit
  flowIndex,     \* current_flow_index
  inPc,          \* where the thread is
  visit,         \* i: flows of this round already visited
  localDeficit,  \* local_deficit
  socket,        \* the socket polled next
  readAny,       \* read_any
  inDrops,       \* drop_counters
  rounds,        \* rounds begun
  visits,        \* history: visits of each flow
  reads          \* history: packets read for each flow

ingressVars ==
  <<nextId, deficit, flowIndex, inPc, visit, localDeficit, socket, readAny, inDrops,
    rounds, visits, reads>>

IngressInit ==
  /\ nextId = 0
  /\ deficit = [p \in Priority |-> 0]
  /\ flowIndex = 0
  /\ inPc = "round"
  /\ visit = 0
  /\ localDeficit = 0
  /\ socket = 1
  /\ readAny = FALSE
  /\ inDrops = [p \in Priority |-> 0]
  /\ rounds = 0
  /\ visits = [p \in Priority |-> 0]
  /\ reads = [p \in Priority |-> 0]

\* active_flows, and the flow at the current place of the round.
Flows == Len(Order)

\* Mutant: the round does not wrap around at the last flow.
BugFlow == Order[IF flowIndex + visit < Flows THEN 1 + flowIndex + visit ELSE Flows]

Flow == Order[1 + ((flowIndex + visit) % Flows)]

\* STEP 1.  The snapshot of a round.
StartRound ==
  /\ inPc = "round" /\ running
  /\ rounds < MaxRounds
  /\ rounds' = rounds + 1
  /\ visit' = 0
  /\ inPc' = "flow"
  /\ UNCHANGED <<sharedVars, nextId, deficit, flowIndex, localDeficit,
                 socket, readAny, inDrops, visits, reads>>

IngressExit ==
  /\ inPc = "round" /\ ~running
  /\ inPc' = "done"
  /\ UNCHANGED <<sharedVars, nextId, deficit, flowIndex, visit,
                 localDeficit, socket, readAny, inDrops, rounds, visits, reads>>

\* fetch_add of the quantum to the deficit of the next flow.
StartFlow ==
  /\ inPc = "flow" /\ running
  /\ visit < Flows
  /\ localDeficit' = deficit[Flow] + Quantum[Flow]
  /\ deficit' = [deficit EXCEPT ![Flow] = localDeficit']
  /\ visits' = [visits EXCEPT ![Flow] = @ + 1]
  /\ socket' = 1 /\ readAny' = FALSE
  /\ inPc' = "poll"
  /\ UNCHANGED <<sharedVars, nextId, flowIndex, visit, inDrops,
                 rounds, reads>>

\* STEP 4.  The socket loop has credit left.
Polling == inPc = "poll" /\ socket <= Sockets[Flow] /\ localDeficit > 0 /\ running

\* recv returns WouldBlock or an error: try the next socket.
SkipSocket ==
  /\ Polling
  /\ socket' = socket + 1
  /\ UNCHANGED <<sharedVars, nextId, deficit, flowIndex, inPc, visit,
                 localDeficit, readAny, inDrops, rounds, visits, reads>>

\* try_send; a refused packet ends this pass over the sockets, not the visit.
Offer(p, packet) ==
  \/ /\ Len(inQueue[p]) < InCapacity[p]
     /\ inQueue' = [inQueue EXCEPT ![p] = Append(@, packet)]
     /\ socket' = socket + 1
     /\ UNCHANGED inDrops
  \/ /\ Len(inQueue[p]) >= InCapacity[p]
     /\ inDrops' = [inDrops EXCEPT ![p] = @ + 1]
     /\ socket' = Sockets[p] + 1
     /\ UNCHANGED inQueue

\* Timestamp::now: any time since the last read; the first read is time 0.
Clock == now' \in IF nextId = 0 THEN {0} ELSE {t \in Times : t >= now}

\* Mutant: a datagram that is refused costs no credit.
BugReadSocket ==
  /\ Polling
  /\ nextId < MaxDatagrams
  /\ Clock
  /\ Offer(Flow, [id |-> nextId, ts |-> now'])
  /\ nextId' = nextId + 1
  /\ localDeficit' = IF socket' > Sockets[Flow] THEN localDeficit ELSE localDeficit - 1
  /\ readAny' = TRUE
  /\ reads' = [reads EXCEPT ![Flow] = @ + 1]
  /\ UNCHANGED <<running, outQueue, deficit, flowIndex, inPc, visit, rounds, visits>>

\* A datagram is read, paid for, stamped with the next id and the time, and
\* offered to the input channel.  The thread touches nothing shared between
\* recv and try_send.
ReadSocket ==
  /\ Polling
  /\ nextId < MaxDatagrams
  /\ Clock
  /\ Offer(Flow, [id |-> nextId, ts |-> now'])
  /\ nextId' = nextId + 1
  /\ localDeficit' = localDeficit - 1
  /\ readAny' = TRUE
  /\ reads' = [reads EXCEPT ![Flow] = @ + 1]
  /\ UNCHANGED <<running, outQueue, deficit, flowIndex, inPc, visit, rounds, visits>>

\* A pass over the sockets is over: again if it read something.
NextPass ==
  /\ inPc = "poll"
  /\ socket > Sockets[Flow]
  /\ readAny /\ localDeficit > 0 /\ running
  /\ socket' = 1 /\ readAny' = FALSE
  /\ UNCHANGED <<sharedVars, nextId, deficit, flowIndex, inPc, visit,
                 localDeficit, inDrops, rounds, visits, reads>>

\* STEP 5.  The visit ends: the deficit that is left is stored.
EndFlow ==
  /\ inPc = "poll"
  /\ \/ socket > Sockets[Flow] /\ ~readAny
     \/ localDeficit = 0
     \/ ~running
  /\ deficit' = [deficit EXCEPT ![Flow] = localDeficit]
  /\ visit' = visit + 1
  /\ localDeficit' = 0 /\ socket' = 1 /\ readAny' = FALSE
  /\ inPc' = "flow"
  /\ UNCHANGED <<sharedVars, nextId, flowIndex, inDrops, rounds,
                 visits, reads>>

\* STEP 6.  The next round starts one flow further.
EndRound ==
  /\ inPc = "flow"
  /\ visit = Flows \/ ~running
  /\ flowIndex' = (flowIndex + 1) % Flows
  /\ visit' = 0
  /\ inPc' = "round"
  /\ UNCHANGED <<sharedVars, nextId, deficit, localDeficit, socket,
                 readAny, inDrops, rounds, visits, reads>>

IngressStep ==
  \/ StartRound \/ IngressExit \/ StartFlow
  \/ SkipSocket \/ ReadSocket \/ NextPass
  \/ EndFlow \/ EndRound

-----------------------------------------------------------------------------

\* The credit of a flow: its local copy while it is visited.
Credit(p) == IF inPc = "poll" /\ Flow = p THEN localDeficit ELSE deficit[p]

(***************************************************************************)
(* Every packet read was paid for out of the quanta the flow was given:    *)
(* whatever the passes over several sockets, drops and shutdown, the copy  *)
(* and the store of the deficit neither lose nor invent credit.            *)
(***************************************************************************)
CreditConserved == \A p \in Priority : reads[p] + Credit(p) = Quantum[p] * visits[p]

(***************************************************************************)
(* No flow is visited more than once more than another, although the start *)
(* of the round rotates: no flow falls behind.                             *)
(***************************************************************************)
VisitsBalanced == \A p, q \in Priority : running => visits[p] <= visits[q] + 1

=============================================================================
