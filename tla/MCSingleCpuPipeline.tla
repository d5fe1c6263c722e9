------------------------- MODULE MCSingleCpuPipeline -------------------------
(* Two High sockets whose budgets differ and a Medium one, which has no     *)
(* output socket.  Two datagrams; the output channels of one packet         *)
(* overflow, an event channel of one event holds egress up, the stash of    *)
(* one buffer runs out, and a measurement is out of the window as soon as   *)
(* the clock has moved.  Of two measurements the median is rounded up: it   *)
(* stands for the lengths of tens of thousands where f64 does so.           *)
EXTENDS SingleCpuPipeline

MCPriority == {"High", "Medium"}
MCInputs ==
  <<[of |-> "High", budget |-> 1], [of |-> "High", budget |-> 0],
    [of |-> "Medium", budget |-> 0]>>
MCOutCapacity == [p \in MCPriority |-> 1]
MCSizes == {100}
MCHints == {100, 1500}
MCConnected == {"High"}
MCQuantiles == {500, 950, 990, 999}
MCRoundsUp == {<<2, 500>>}
=============================================================================
