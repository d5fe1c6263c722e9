-------------------------- MODULE MetricsCollector --------------------------
(***************************************************************************)
(* The metrics collector (metrics.rs): egress sends an event for each      *)
(* packet through a bounded channel; the Metrics-Processor thread gathers  *)
(* a batch and records it under a mutex; the Statistics-Thread of          *)
(* pipeline.rs takes the mutex from time to time (100 ms), removes what is *)
(* older than the window and computes a snapshot from a clone.             *)
(*                                                                         *)
(* The cached percentiles are computed on clones only, whose caches are    *)
(* empty: they are operators of the statistics.  Mean and deviation, the   *)
(* queue fields and the channel to the metrics server are left out.        *)
(***************************************************************************)
EXTENDS PipelineChannels, FiniteSets

CONSTANTS
  EventCapacity, \* capacity of the event channel (1024)
  BatchSize,     \* events in a batch (100)
  Window,        \* time_window (10 s)
  Quantiles,     \* the percentiles of a snapshot, in thousandths (500, 950, 990, 999)
  RoundsUp       \* the lengths and percentiles whose product f64 puts above the exact one:
                 \* only products that are whole, such as <<41000, 999>>

ASSUME MetricsAssumption ==
  /\ EventCapacity \in Nat \ {0} /\ BatchSize \in Nat \ {0}
  /\ Window \in Nat
  /\ Quantiles \subseteq 1 .. 1000
  /\ RoundsUp \subseteq Nat \X Quantiles

VARIABLES
  events,    \* the event channel, oldest first
  batch,     \* events gathered and not yet recorded
  procPc,    \* where the Metrics-Processor is; in "record" it holds the mutex
  metrics,   \* the metrics map: packet_count, deadline_misses and latencies
  statPc,    \* where the Statistics-Thread is
  recorded   \* history: what was recorded, with the time of recording

procVars == <<batch, procPc, recorded>>
metricsVars == <<events, procVars, metrics, statPc>>

NoMetrics == [count |-> 0, misses |-> 0, latencies |-> <<>>]

MetricsInit ==
  /\ events = <<>>
  /\ batch = <<>>
  /\ procPc = "gather"
  /\ metrics = [p \in Priority |-> NoMetrics]
  /\ statPc = "top"
  /\ recorded = <<>>

\* record_packet: send waits while the channel is full.
RecordPacket(p, latency, missed) ==
  /\ Len(events) < EventCapacity
  /\ events' = Append(events, [of |-> p, latency |-> latency, missed |-> missed])
  /\ UNCHANGED <<procVars, metrics, statPc>>

\* try_recv while the batch has room.
Gather ==
  /\ procPc = "gather"
  /\ Len(batch) < BatchSize /\ events # <<>>
  /\ batch' = Append(batch, Head(events))
  /\ events' = Tail(events)
  /\ UNCHANGED <<channelVars, procPc, metrics, statPc, recorded>>

\* Mutant: only a full batch is recorded.
BugGathered == Len(batch) = BatchSize

\* The batch is full, or the channel was found empty.
Gathered == Len(batch) = BatchSize \/ (batch # <<>> /\ events = <<>>)

TakeMutex ==
  /\ procPc = "gather" /\ Gathered
  /\ procPc' = "record"
  /\ UNCHANGED <<channelVars, events, batch, metrics, statPc, recorded>>

\* The cutoff itself is inside the window.
Expired(measurement, time) == measurement.ts < time - Window

\* The latencies from the first that is not expired on.
Trim(latencies, time) ==
  LET kept == {i \in 1 .. Len(latencies) : ~Expired(latencies[i], time)}
      first == CHOOSE i \in kept : \A j \in kept : i <= j
  IN IF kept = {} THEN <<>> ELSE SubSeq(latencies, first, Len(latencies))

\* record_latency of the next event of the batch; after the last the mutex is released.
RecordLatency ==
  LET event == Head(batch)
      p == event.of
  IN /\ procPc = "record"
     /\ now' >= now
     /\ metrics' = [metrics EXCEPT ![p] =
          [count |-> @.count + 1,
           misses |-> @.misses + IF event.missed THEN 1 ELSE 0,
           latencies |-> Trim(Append(@.latencies, [us |-> event.latency, ts |-> now']), now')]]
     /\ recorded' = Append(recorded, [of |-> p, us |-> event.latency, missed |-> event.missed,
                                      ts |-> now'])
     /\ batch' = Tail(batch)
     /\ procPc' = IF Len(batch) = 1 THEN "gather" ELSE "record"
     /\ UNCHANGED <<running, outQueue, events, statPc>>

\* The thread ends when the collector is dropped only, with the pipeline.
Processor == Gather \/ TakeMutex

-----------------------------------------------------------------------------
(* The Statistics-Thread. *)

\* Mutant: one measurement at most is removed, not all that have expired.
BugCleanedUp(time) ==
  [p \in Priority |->
    [metrics[p] EXCEPT !.latencies =
       IF @ # <<>> /\ Expired(Head(@), time) THEN Tail(@) ELSE @]]

\* cleanup_old_measurements of every class: what is sent is computed from a clone of it.
CleanedUp(time) ==
  [p \in Priority |->
    [count |-> metrics[p].count, misses |-> metrics[p].misses,
     latencies |-> Trim(metrics[p].latencies, time)]]

\* The flag was read before the drop counters and the wait for the mutex: it may be cleared
\* by now.  The clone is private, so what is computed from it later is decided here.
SendMetrics ==
  /\ statPc = "top" /\ procPc # "record"
  /\ now' >= now
  /\ metrics' = CleanedUp(now')
  /\ UNCHANGED <<running, outQueue, events, procVars, statPc>>

StatisticsExit ==
  /\ statPc = "top" /\ ~running
  /\ statPc' = "done"
  /\ UNCHANGED <<channelVars, events, procVars, metrics>>

\* (ceil(len * quantile) - 1).min(len - 1), counted from 1.
Index(len, quantile) ==
  LET rank == (len * quantile + IF <<len, quantile>> \in RoundsUp THEN 1000 ELSE 999) \div 1000
  IN IF rank < len THEN rank ELSE len

\* The places of the latencies in the sorted copy: each once, in ascending order.
Ranking(latencies) ==
  CHOOSE f \in [1 .. Len(latencies) -> 1 .. Len(latencies)] :
    \A i, j \in 1 .. Len(latencies) :
      i < j => f[i] # f[j] /\ latencies[f[i]].us <= latencies[f[j]].us

\* compute_and_cache_percentiles.
Percentile(latencies, quantile) ==
  latencies[Ranking(latencies)[Index(Len(latencies), quantile)]].us

-----------------------------------------------------------------------------

\* sent accounts for every packet of class p recorded: the packets and the missed deadlines
\* ever, and percentiles of all the measurements of the window before time and no others.
\* Each percentile is one of them that at least its share do not exceed and no more than its
\* share lie below.
Exact(sent, p, time) ==
  LET mine == {i \in 1 .. Len(recorded) : recorded[i].of = p}
      recent == {i \in mine : recorded[i].ts >= time - Window}
      Within(us) == {i \in recent : recorded[i].us <= us}
  IN /\ sent.count = Cardinality(mine)
     /\ sent.misses = Cardinality({i \in mine : recorded[i].missed})
     /\ Len(sent.latencies) = Cardinality(recent)
     /\ \A q \in Quantiles : recent # {} =>
          LET value == Percentile(sent.latencies, q)
          IN /\ \E i \in recent : recorded[i].us = value
             /\ 1000 * Cardinality(Within(value)) >= q * Cardinality(recent)
             /\ 1000 * Cardinality(Within(value - 1)) <= q * Cardinality(recent)

=============================================================================
