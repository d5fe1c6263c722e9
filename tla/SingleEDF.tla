------------------------------ MODULE SingleEDF ------------------------------
(***************************************************************************)
(* The single-threaded EDF scheduler (scheduler/edf.rs, process_next, and  *)
(* its driver in pipeline.rs): one head-of-line packet per priority, the   *)
(* earliest deadline first, ties to the higher priority.                   *)
(***************************************************************************)
EXTENDS IngressChannels

VARIABLES
  edfPc,     \* where the thread is
  slot,      \* the priority whose buffer is looked at
  buffers,   \* pending: the head-of-line packet of each priority
  chosen,    \* the packet being processed
  chosenOf,  \* its priority
  outDrops,  \* output_drop_counters
  seenId     \* history: PACKET_ID_COUNTER when process_next began

edfVars == <<edfPc, slot, buffers, chosen, chosenOf, outDrops, seenId>>

EdfInit ==
  /\ edfPc = "top"
  /\ slot = 1
  /\ buffers = [p \in Priority |-> NoPacket]
  /\ chosen = NoPacket
  /\ chosenOf = "none"
  /\ outDrops = [p \in Priority |-> 0]
  /\ seenId = 0

\* The driver calls process_next while the flag is set; ids is PACKET_ID_COUNTER.
BeginNext(ids) ==
  /\ edfPc = "top" /\ running
  /\ slot' = 1
  /\ seenId' = ids
  /\ edfPc' = "fill"
  /\ UNCHANGED <<sharedVars, buffers, chosen, chosenOf, outDrops>>

EdfExit ==
  /\ edfPc = "top" /\ ~running
  /\ edfPc' = "done"
  /\ UNCHANGED <<sharedVars, slot, buffers, chosen, chosenOf, outDrops, seenId>>

\* Mutant: a buffer in use is filled again.
BugFill ==
  LET p == Order[slot]
  IN /\ edfPc = "fill"
     /\ slot <= Len(Order)
     /\ slot' = slot + 1
     /\ IF inQueue[p] # <<>>
        THEN /\ buffers' = [buffers EXCEPT ![p] = Head(inQueue[p])]
             /\ inQueue' = [inQueue EXCEPT ![p] = Tail(@)]
        ELSE UNCHANGED <<buffers, inQueue>>
     /\ UNCHANGED <<running, now, outQueue, edfPc, chosen, chosenOf, outDrops, seenId>>

\* STEP 1.  Fill the buffer of one priority, if it is empty, from its channel.
Fill ==
  LET p == Order[slot]
  IN /\ edfPc = "fill"
     /\ slot <= Len(Order)
     /\ slot' = slot + 1
     /\ IF buffers[p] = NoPacket /\ inQueue[p] # <<>>
        THEN /\ buffers' = [buffers EXCEPT ![p] = Head(inQueue[p])]
             /\ inQueue' = [inQueue EXCEPT ![p] = Tail(@)]
        ELSE UNCHANGED <<buffers, inQueue>>
     /\ UNCHANGED <<running, now, outQueue, edfPc, chosen, chosenOf, outDrops, seenId>>

\* Mutant: the last priority is never looked at.
BugFilled == {i \in 1 .. Len(Order) - 1 : buffers[Order[i]] # NoPacket}

\* The priorities with a packet in their buffer.
Filled == {i \in 1 .. Len(Order) : buffers[Order[i]] # NoPacket}
DueAt(i) == Deadline(Order[i], buffers[Order[i]])

\* Mutant: the highest priority first.
BugEarliest == CHOOSE i \in Filled : \A j \in Filled : i <= j

\* STEP 2.  The earliest deadline, the higher priority on a tie.
Earliest ==
  CHOOSE i \in Filled :
    \A j \in Filled : DueAt(i) < DueAt(j) \/ (DueAt(i) = DueAt(j) /\ i <= j)

ChooseNone ==
  /\ edfPc = "fill"
  /\ slot > Len(Order)
  /\ Filled = {}
  /\ edfPc' = "top"
  /\ slot' = 1 /\ seenId' = 0
  /\ UNCHANGED <<sharedVars, buffers, chosen, chosenOf, outDrops>>

\* STEP 3 and 4.  Take the packet out of its buffer and process it.
Choose ==
  /\ edfPc = "fill"
  /\ slot > Len(Order)
  /\ Filled # {}
  /\ LET p == Order[Earliest]
     IN /\ chosen' = buffers[p]
        /\ chosenOf' = p
        /\ buffers' = [buffers EXCEPT ![p] = NoPacket]
  /\ slot' = 1
  /\ edfPc' = "forward"
  /\ UNCHANGED <<sharedVars, outDrops, seenId>>

\* Mutant: a refused packet goes back to the end of its input channel.
BugForward ==
  /\ edfPc = "forward"
  /\ IF Len(outQueue[chosenOf]) < OutCapacity[chosenOf]
     THEN /\ outQueue' = [outQueue EXCEPT ![chosenOf] = Append(@, chosen)]
          /\ UNCHANGED inQueue
     ELSE /\ inQueue' = [inQueue EXCEPT ![chosenOf] = Append(@, chosen)]
          /\ UNCHANGED outQueue
  /\ chosen' = NoPacket
  /\ chosenOf' = "none"
  /\ seenId' = 0
  /\ edfPc' = "top"
  /\ UNCHANGED <<running, now, slot, buffers, outDrops>>

\* STEP 5.  try_send to egress, or count a drop.
Forward ==
  /\ edfPc = "forward"
  /\ \/ /\ Len(outQueue[chosenOf]) < OutCapacity[chosenOf]
        /\ outQueue' = [outQueue EXCEPT ![chosenOf] = Append(@, chosen)]
        /\ UNCHANGED outDrops
     \/ /\ Len(outQueue[chosenOf]) >= OutCapacity[chosenOf]
        /\ outDrops' = [outDrops EXCEPT ![chosenOf] = @ + 1]
        /\ UNCHANGED outQueue
  /\ chosen' = NoPacket
  /\ chosenOf' = "none"
  /\ seenId' = 0
  /\ edfPc' = "top"
  /\ UNCHANGED <<running, now, inQueue, slot, buffers>>

EdfStep(ids) ==
  BeginNext(ids) \/ EdfExit \/ Fill \/ ChooseNone \/ Choose \/ Forward

-----------------------------------------------------------------------------

(***************************************************************************)
(* The scheduler is globally EDF although it looks at one packet of each   *)
(* priority only: of the packets that were in its channels when            *)
(* process_next began, none is due before the one it processes.            *)
(***************************************************************************)
EarliestFirst ==
  edfPc = "forward" /\ chosen.id < seenId =>
    \A p \in Priority :
      /\ buffers[p] # NoPacket /\ buffers[p].id < seenId =>
           Deadline(p, buffers[p]) >= Deadline(chosenOf, chosen)
      /\ \A i \in 1 .. Len(inQueue[p]) :
           inQueue[p][i].id < seenId =>
             Deadline(p, inQueue[p][i]) >= Deadline(chosenOf, chosen)

=============================================================================
