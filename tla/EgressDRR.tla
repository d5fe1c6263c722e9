------------------------------ MODULE EgressDRR ------------------------------
(***************************************************************************)
(* The egress scheduler (scheduler/egress_drr.rs, process_queues): one     *)
(* thread takes at most one packet of each priority per pass, in the order *)
(* of the priorities, gives the metrics collector an event, and sends the  *)
(* packet on one of its sockets.  What Record does to the event channel is *)
(* left to the module that composes egress with a collector.               *)
(*                                                                         *)
(* A send that would block is retried until it does not: a step that       *)
(* changes nothing.                                                        *)
(***************************************************************************)
EXTENDS PipelineChannels

CONSTANT Connected  \* the priorities that have output sockets

ASSUME EgressAssumption == Connected \subseteq Priority

VARIABLES
  egPc,      \* where the thread is
  place,     \* the priority of this pass that is looked at
  outgoing,  \* the packet in the hands of the thread
  lastId,    \* last_packet_ids; -1 for u64::MAX
  gone       \* history: packets sent, or given up after an error or without a socket

egressVars == <<egPc, place, outgoing, lastId, gone>>

EgressInit ==
  /\ egPc = "top"
  /\ place = 1
  /\ outgoing = NoPacket
  /\ lastId = [p \in Priority |-> -1]
  /\ gone = [p \in Priority |-> 0]

BeginPass ==
  /\ egPc = "top" /\ running
  /\ egPc' = "receive"
  /\ UNCHANGED <<channelVars, place, outgoing, lastId, gone>>

EgressExit ==
  /\ egPc = "top" /\ ~running
  /\ egPc' = "done"
  /\ UNCHANGED <<channelVars, place, outgoing, lastId, gone>>

\* To the next priority, or to the end of the pass.
Advance ==
  IF place < Len(Order)
  THEN place' = place + 1 /\ egPc' = "receive"
  ELSE place' = 1 /\ egPc' = "top"

\* try_recv finds the channel of this priority empty.
SkipPriority ==
  /\ egPc = "receive"
  /\ outQueue[Order[place]] = <<>>
  /\ Advance
  /\ UNCHANGED <<channelVars, outgoing, lastId, gone>>

\* STEP 2 and 3.
ReceiveOut(p) ==
  /\ egPc = "receive" /\ Order[place] = p
  /\ outQueue[p] # <<>>
  /\ outQueue' = [outQueue EXCEPT ![p] = Tail(@)]
  /\ lastId' = [lastId EXCEPT ![p] = Head(outQueue[p]).id]
  /\ outgoing' = Head(outQueue[p])
  /\ egPc' = "record"
  /\ UNCHANGED <<running, now, place, gone>>

\* STEP 4: record_packet reads the clock and returns.  Without an output socket for the
\* priority the packet goes nowhere.
Record ==
  LET p == Order[place]
  IN /\ egPc = "record"
     /\ \/ p \in Connected /\ egPc' = "send" /\ UNCHANGED <<place, outgoing, gone>>
        \/ /\ p \notin Connected
           /\ gone' = [gone EXCEPT ![p] = @ + 1]
           /\ outgoing' = NoPacket
           /\ Advance
     /\ UNCHANGED <<running, outQueue, lastId>>

\* send_to returns: the packet is out, or given up after an error.
SendOut ==
  LET p == Order[place]
  IN /\ egPc = "send"
     /\ gone' = [gone EXCEPT ![p] = @ + 1]
     /\ outgoing' = NoPacket
     /\ Advance
     /\ UNCHANGED <<channelVars, lastId>>

\* The steps but Record.
EgressStep ==
  \/ BeginPass \/ EgressExit \/ SkipPriority \/ SendOut
  \/ \E p \in Priority : ReceiveOut(p)

=============================================================================
