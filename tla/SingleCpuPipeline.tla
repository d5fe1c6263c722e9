-------------------------- MODULE SingleCpuPipeline --------------------------
(***************************************************************************)
(* The pipeline of SchedulerKind::SingleCPUEDF (pipeline.rs): the single-  *)
(* CPU scheduler reads the sockets itself, egress follows it, and every    *)
(* packet that leaves is recorded by the metrics collector.  The threads   *)
(* share the output channels, the event channel, the buffer pool and the   *)
(* shutdown flag.                                                          *)
(***************************************************************************)
EXTENDS SingleCpuEDF, EgressDRR, MetricsCollector

VARIABLE mostInUse  \* history: the most buffers of each class in use at once; at least Stash

vars == <<channelVars, free, edfVars, egressVars, metricsVars, mostInUse>>

Init ==
  /\ ChannelInit /\ PoolInit /\ EdfInit /\ EgressInit /\ MetricsInit
  /\ mostInUse = [c \in Class |-> Stash]

One(condition) == IF condition THEN 1 ELSE 0
CountOf(s, Test(_)) == Cardinality({i \in 1 .. Len(s) : Test(s[i])})

\* The buffers of class c that somebody holds.
InUse(c) ==
  LET Holds(packet) == packet.buffer = c
      queued(s) == Cardinality(UNION {{<<p, i>> : i \in {j \in 1 .. Len(s[p]) : Holds(s[p][j])}} :
                                        p \in Priority})
  IN queued(edfQueue) + queued(outQueue) + One(lease = c)
     + One(chosen # NoPacket /\ Holds(chosen)) + One(outgoing # NoPacket /\ Holds(outgoing))

Edf ==
  /\ EdfStep
  /\ UNCHANGED <<egressVars, metricsVars>>
  /\ mostInUse' = [c \in Class |-> IF InUse(c)' > mostInUse[c] THEN InUse(c)' ELSE mostInUse[c]]

\* The packet that was in the hands of egress is dropped, and its buffer with it.
DropPacket == IF outgoing' = NoPacket THEN Release(outgoing.buffer) ELSE UNCHANGED free

\* elapsed is read first, Instant::now after it: a packet may be in time by the one and late
\* by the other.
EgressRecord ==
  /\ Record
  /\ ReadClock
  /\ \E read \in now .. now' : RecordPacket(Order[place], read - outgoing.ts, now' > outgoing.due)
  /\ DropPacket

Egress ==
  /\ \/ EgressRecord
     \/ EgressStep /\ UNCHANGED metricsVars
        /\ IF outgoing # NoPacket THEN DropPacket ELSE UNCHANGED free
  /\ UNCHANGED <<edfVars, mostInUse>>

Metrics ==
  /\ Processor \/ (ReadClock /\ RecordLatency)
  /\ UNCHANGED <<free, edfVars, egressVars, mostInUse>>

Statistics ==
  /\ StatisticsExit \/ (ReadClock /\ SendMetrics)
  /\ UNCHANGED <<free, edfVars, egressVars, mostInUse>>

Shutdown == Stop /\ UNCHANGED <<free, edfVars, egressVars, metricsVars, mostInUse>>

Next == Edf \/ Egress \/ Metrics \/ Statistics \/ Shutdown

Spec == Init /\ [][Next]_vars

\* Every thread keeps running; nothing is assumed of the network, the clock and the shutdown.
Fairness == WF_vars(Edf) /\ WF_vars(Egress) /\ WF_vars(Metrics) /\ WF_vars(Statistics)

FairSpec == Spec /\ Fairness

-----------------------------------------------------------------------------

\* The packets of p before egress has recorded them.
Underway(p) ==
  Len(edfQueue[p]) + Len(outQueue[p]) + One(edfPc = "forward" /\ chosen.of = p)
  + One(egPc = "record" /\ Order[place] = p)

\* The packets of p whose events the collector has not recorded yet.
Unrecorded(p) == CountOf(events \o batch, LAMBDA event : event.of = p)

(***************************************************************************)
(* What the collector counts is what egress took: every packet read is     *)
(* under way, counted as dropped, or in exactly one event, whether egress  *)
(* waits for room in the event channel, and whatever its sockets do.       *)
(***************************************************************************)
PacketsAccounted ==
  \A p \in Priority :
    reads[p] = Underway(p) + outDrops[p] + Unrecorded(p) + metrics[p].count

(***************************************************************************)
(* A buffer goes back to the class it was taken from, once, whichever      *)
(* thread drops it: there are never more buffers of a class than the       *)
(* greater of the stash and the most that were ever in use at once.        *)
(***************************************************************************)
BuffersConserved ==
  \A c \in Class : free[c] + InUse(c) = mostInUse[c]

(***************************************************************************)
(* Whenever the Statistics-Thread may take the mutex, and however late it  *)
(* does, what it sends of every class is exact, though the measurements    *)
(* are cut by two threads and some expire while no packet is recorded.     *)
(* The rounding of the f64 product moves a percentile by one place where   *)
(* both are right, and never further (send_current_metrics).               *)
(***************************************************************************)
SnapshotExact ==
  procPc # "record" =>
    \A time \in now .. MaxTime, p \in Priority : Exact(CleanedUp(time)[p], p, time)

(***************************************************************************)
(* While the pipeline runs every packet read is sent or given up and its   *)
(* event is recorded: the full event channel delays egress only.  After    *)
(* shutdown the scheduler, egress and the statistics thread end.           *)
(***************************************************************************)
PacketsLeave ==
  []<>(IF running
       THEN \A p \in Priority : reads[p] = outDrops[p] + gone[p] /\ Unrecorded(p) = 0
       ELSE edfPc = "done" /\ egPc = "done" /\ statPc = "done")

=============================================================================
