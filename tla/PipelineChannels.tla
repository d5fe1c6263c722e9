-------------------------- MODULE PipelineChannels --------------------------
(***************************************************************************)
(* What the threads of every pipeline share (pipeline.rs, packet.rs): the  *)
(* bounded channel of each priority from the EDF scheduler to egress, the  *)
(* shutdown flag and the clock.                                            *)
(***************************************************************************)
EXTENDS Integers, Sequences

CONSTANTS
  Priority,     \* the priorities in use
  OutCapacity   \* edf_to_egress: capacity of each output channel

AllPriorities == <<"High", "Medium", "Low", "BestEffort">>

ASSUME ChannelAssumption ==
  /\ \A p \in Priority : \E i \in 1 .. 4 : AllPriorities[i] = p
  /\ OutCapacity \in [Priority -> Nat \ {0}]

VARIABLES
  running,   \* the shutdown flag of the pipeline
  now,       \* the clock, as a thread last read it
  outQueue   \* packets from EDF to egress, oldest first

channelVars == <<running, now, outQueue>>

ChannelInit ==
  /\ running = TRUE
  /\ now = 0
  /\ outQueue = [p \in Priority |-> <<>>]

\* Priority::ALL, restricted to the priorities in use.
Used(p) == IF p \in Priority THEN <<p>> ELSE <<>>
Order == Used("High") \o Used("Medium") \o Used("Low") \o Used("BestEffort")

NoPacket == [id |-> -1, ts |-> -1]

\* Pipeline::shutdown.
Stop ==
  /\ running
  /\ running' = FALSE
  /\ UNCHANGED <<now, outQueue>>

=============================================================================
