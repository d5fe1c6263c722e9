-------------------------- MODULE IngressChannels --------------------------
(***************************************************************************)
(* The bounded channel of each priority from ingress to the EDF scheduler  *)
(* of the default pipeline (pipeline.rs, build_priority_channels).         *)
(*                                                                         *)
(* A packet is the record of its id, given out in the order of arrival,    *)
(* and of its timestamp; two packets may have the same timestamp.          *)
(***************************************************************************)
EXTENDS PipelineChannels

CONSTANTS
  Budget,       \* latency_budget of each priority
  InCapacity,   \* ingress_to_edf: capacity of each input channel
  Times         \* the times at which a packet may be read

ASSUME InputAssumption ==
  /\ Budget \in [Priority -> Nat]
  /\ InCapacity \in [Priority -> Nat \ {0}]
  /\ Times \subseteq Nat /\ 0 \in Times

VARIABLE inQueue  \* packets from ingress to EDF, oldest first

sharedVars == <<channelVars, inQueue>>

InputInit == inQueue = [p \in Priority |-> <<>>]

Deadline(p, packet) == packet.ts + Budget[p]

=============================================================================
