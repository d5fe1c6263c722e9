------------------------------ MODULE Pipeline ------------------------------
(***************************************************************************)
(* The default pipeline (pipeline.rs, SchedulerKind::Single): ingress, EDF *)
(* and egress threads that share only bounded channels, the packet counter *)
(* and the shutdown flag.                                                  *)
(***************************************************************************)
EXTENDS IngressDRR, SingleEDF, EgressDRR

vars == <<sharedVars, ingressVars, edfVars, egressVars>>

Init == ChannelInit /\ InputInit /\ IngressInit /\ EdfInit /\ EgressInit

Ingress == IngressStep /\ UNCHANGED <<edfVars, egressVars>>
Edf == EdfStep(nextId) /\ UNCHANGED <<ingressVars, egressVars>>
Egress ==
  /\ EgressStep \/ (Record /\ UNCHANGED now)
  /\ UNCHANGED <<inQueue, ingressVars, edfVars>>

Next ==
  \/ Ingress
  \/ Edf
  \/ Egress
  \/ Stop /\ UNCHANGED <<inQueue, ingressVars, edfVars, egressVars>>

Spec == Init /\ [][Next]_vars

\* Each thread keeps running; a socket that would block accepts data in the end.
\* Nothing is assumed of the network, the clock and the shutdown.
Fairness == WF_vars(Ingress) /\ WF_vars(Edf) /\ WF_vars(Egress)

FairSpec == Spec /\ Fairness

-----------------------------------------------------------------------------

One(condition) == IF condition THEN 1 ELSE 0

\* The packets of priority p in the hands of a thread.
InHand(p) ==
  One(buffers[p] # NoPacket)
  + One(edfPc = "forward" /\ chosenOf = p)
  + One(egPc \in {"record", "send"} /\ Order[place] = p)

(***************************************************************************)
(* Every datagram read is in one channel or one thread's hand, was sent or *)
(* given up by egress, or is counted in one drop counter: no stage loses a *)
(* packet silently, none is sent twice.                                    *)
(***************************************************************************)
PacketsConserved ==
  \A p \in Priority :
    reads[p] = Len(inQueue[p]) + Len(outQueue[p]) + InHand(p)
               + gone[p] + inDrops[p] + outDrops[p]

\* The packets of p between ingress and egress, those closest to egress first.
InTransit(p) ==
  LET hold(condition, packet) == IF condition THEN <<packet>> ELSE <<>>
  IN outQueue[p] \o hold(edfPc = "forward" /\ chosenOf = p, chosen)
     \o hold(buffers[p] # NoPacket, buffers[p]) \o inQueue[p]

(***************************************************************************)
(* "This is a sanity check: with proper sequence tracking, this should     *)
(* never fail": the id of the next packet of a priority is above the last  *)
(* one egress saw, and the packets on their way keep the order of arrival  *)
(* (packet ordering check of process_queues).                              *)
(***************************************************************************)
EgressOrderHolds ==
  \A p \in Priority :
    LET ids == <<lastId[p]>> \o [i \in 1 .. Len(InTransit(p)) |-> InTransit(p)[i].id]
    IN \A i \in 1 .. Len(ids) - 1 : ids[i] < ids[i + 1]

(***************************************************************************)
(* While the pipeline runs, what was read always gets through it; after    *)
(* the flag is cleared the three threads end.                              *)
(***************************************************************************)
PipelineDrains ==
  []<>(IF running THEN \A p \in Priority : InTransit(p) = <<>>
       ELSE inPc = "done" /\ edfPc = "done" /\ egPc = "done")

=============================================================================
