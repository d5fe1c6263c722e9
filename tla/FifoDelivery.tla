---------------------------- MODULE FifoDelivery ----------------------------
(***************************************************************************)
(* What the completion router promises to the egress scheduler, without    *)
(* workers, numbers in flight or reordering buffers: per priority, packets *)
(* accepted 0, 1, 2, ... are decided strictly in that order, each one      *)
(* either enters the bounded channel or is counted as dropped because the  *)
(* channel was full, and the egress scheduler receives what was sent in    *)
(* the order it was sent.                                                  *)
(***************************************************************************)
EXTENDS Integers, Sequences

CONSTANTS Priority, Capacity

VARIABLES
  accepted,  \* packets accepted so far
  decided,   \* packets decided so far: the first ones accepted
  sent,      \* the decided packets that entered the channel
  received,  \* how many of sent were received
  dropped    \* decided packets the full channel refused

vars == <<accepted, decided, sent, received, dropped>>

Init ==
  /\ accepted = [p \in Priority |-> 0]
  /\ decided = [p \in Priority |-> 0]
  /\ sent = [p \in Priority |-> <<>>]
  /\ received = [p \in Priority |-> 0]
  /\ dropped = [p \in Priority |-> 0]

Accept(p) ==
  /\ accepted' = [accepted EXCEPT ![p] = @ + 1]
  /\ UNCHANGED <<decided, sent, received, dropped>>

Decide(p) ==
  /\ decided[p] < accepted[p]
  /\ decided' = [decided EXCEPT ![p] = @ + 1]
  /\ \/ /\ Len(sent[p]) - received[p] < Capacity[p]
        /\ sent' = [sent EXCEPT ![p] = Append(@, decided[p])]
        /\ UNCHANGED dropped
     \/ /\ Len(sent[p]) - received[p] >= Capacity[p]
        /\ dropped' = [dropped EXCEPT ![p] = @ + 1]
        /\ UNCHANGED sent
  /\ UNCHANGED <<accepted, received>>

Receive(p) ==
  /\ received[p] < Len(sent[p])
  /\ received' = [received EXCEPT ![p] = @ + 1]
  /\ UNCHANGED <<accepted, decided, sent, dropped>>

Next == \E p \in Priority : Accept(p) \/ Decide(p) \/ Receive(p)

Spec == Init /\ [][Next]_vars

=============================================================================
