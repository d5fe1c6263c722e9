-------------------------- MODULE MultiWorkerProofs --------------------------
(***************************************************************************)
(* Theorems of the completion router and of the multi-worker EDF scheduler *)
(* that is built on it, whichever of its three workers run, for any set of *)
(* priorities, budgets, quotas, capacity estimates, channel capacities and *)
(* traffic.                                                                *)
(* Seen through the router's variables the workers are RouterNext, so what *)
(* is proved of the router, on its own and first, holds of them.           *)
(***************************************************************************)
EXTENDS MultiWorkerEDF, QuotaProofs, FiniteSetTheorems, TLAPS

(***************************************************************************)
(* The completion router: what its run checks on a small instance.         *)
(***************************************************************************)

(***************************************************************************)
(* Appending the number that is due keeps a history increasing and below   *)
(* the number that is due next.                                            *)
(***************************************************************************)
LEMMA AppendIncreases ==
  ASSUME NEW h \in Seq(Sequence), NEW n \in Sequence, IncreasingBelow(h, n)
  PROVE  IncreasingBelow(Append(h, n), n + 1)
<1>0. Sequence \subseteq Nat
  BY MaxSequenceAssumption DEF Sequence
<1> DEFINE g == Append(h, n)
<1>1. Len(h) \in Nat /\ Len(g) = Len(h) + 1
  OBVIOUS
<1>2. n \in Nat /\ \A i \in 1 .. Len(h) : g[i] = h[i] /\ h[i] \in Nat
  <2>1. \A i \in 1 .. Len(h) : g[i] = h[i] /\ h[i] \in Sequence
    OBVIOUS
  <2> QED
    BY <1>0, <2>1
<1>3. g[Len(h) + 1] = n
  OBVIOUS
<1>4. \A i \in 1 .. Len(g) : i \in 1 .. Len(h) \/ i = Len(h) + 1
  BY <1>1
<1> HIDE DEF g
<1>5. ASSUME NEW i \in 1 .. Len(g) PROVE g[i] < n + 1
  BY <1>2, <1>3, <1>4 DEF IncreasingBelow
<1>6. ASSUME NEW i \in 1 .. Len(g), NEW j \in 1 .. Len(g), i < j
      PROVE  g[i] < g[j]
  <2>1. i \in 1 .. Len(h)
    BY <1>1, <1>4, <1>6
  <2>2. CASE j \in 1 .. Len(h)
    BY <1>2, <1>6, <2>1, <2>2 DEF IncreasingBelow
  <2>3. CASE j = Len(h) + 1
    BY <1>2, <1>3, <2>1, <2>3 DEF IncreasingBelow
  <2> QED
    BY <1>4, <2>2, <2>3
<1>7. IncreasingBelow(g, n + 1)
  BY <1>5, <1>6 DEF IncreasingBelow
<1> QED
  BY <1>7 DEF g

\* A number that is due and not sent leaves the history increasing.
LEMMA SkipIncreases ==
  ASSUME NEW h \in Seq(Sequence), NEW n \in Nat, IncreasingBelow(h, n)
  PROVE  IncreasingBelow(h, n + 1)
<1>1. \A i \in 1 .. Len(h) : h[i] \in Sequence
  OBVIOUS
<1>2. \A i \in 1 .. Len(h) : h[i] \in Nat
  BY <1>1, MaxSequenceAssumption DEF Sequence
<1> QED
  BY <1>2 DEF IncreasingBelow

\* send_packet touches the channel and the drop counter of its priority alone.
LEMMA SendEffect ==
  ASSUME NEW p \in Priority, NEW s \in Sequence, TypeOK, Send(p, s), NEW q \in Priority
  PROVE  /\ sent'[q] \in Seq(Sequence) /\ drops'[q] \in Nat
         /\ q # p => sent'[q] = sent[q] /\ drops'[q] = drops[q]
         /\ q = p => \/ /\ Queued(q) < QueueCapacity[q]
                        /\ sent'[q] = Append(sent[q], s) /\ drops'[q] = drops[q]
                     \/ /\ Queued(q) >= QueueCapacity[q]
                        /\ sent'[q] = sent[q] /\ drops'[q] = drops[q] + 1
<1>1. sent[q] \in Seq(Sequence) /\ drops[q] \in Nat
  BY DEF TypeOK
<1>2. CASE /\ Queued(p) < QueueCapacity[p]
           /\ sent' = [sent EXCEPT ![p] = Append(@, s)]
           /\ UNCHANGED drops
  BY <1>1, <1>2 DEF TypeOK
<1>3. CASE /\ Queued(p) >= QueueCapacity[p]
           /\ drops' = [drops EXCEPT ![p] = @ + 1]
           /\ UNCHANGED sent
  BY <1>1, <1>3 DEF TypeOK
<1> QED
  BY <1>2, <1>3 DEF Send

(***************************************************************************)
(* send_packet, whatever it does, decides exactly one packet: it is the    *)
(* next of the history or one more drop, and the channel keeps its bound.  *)
(***************************************************************************)
LEMMA SendDecidesOne ==
  ASSUME NEW p \in Priority, NEW s \in Sequence, TypeOK, SentInOrder, SentOrCounted,
         Send(p, s), taken' = taken, s = nextEmit[p],
         nextEmit' = [nextEmit EXCEPT ![p] = @ + 1]
  PROVE  /\ sent' \in [Priority -> Seq(Sequence)]
         /\ drops' \in [Priority -> Nat]
         /\ SentInOrder'
         /\ SentOrCounted'
<1>1. ASSUME NEW q \in Priority
      PROVE  /\ sent[q] \in Seq(Sequence) /\ Len(sent[q]) \in Nat /\ nextEmit[q] \in Nat
             /\ drops[q] \in Nat /\ taken[q] \in Nat /\ QueueCapacity[q] \in Nat \ {0}
             /\ taken'[q] = taken[q]
             /\ q # p => nextEmit'[q] = nextEmit[q]
             /\ q = p => nextEmit'[q] = nextEmit[q] + 1
  <2>1. sent[q] \in Seq(Sequence)
    BY DEF TypeOK
  <2>2. Len(sent[q]) \in Nat
    BY <2>1
  <2> QED
    BY <2>1, <2>2, QueueCapacityAssumption DEF TypeOK
<1>2. ASSUME NEW q \in Priority PROVE IncreasingBelow(sent'[q], nextEmit'[q])
  <2>1. IncreasingBelow(sent[q], nextEmit[q])
    BY DEF SentInOrder
  <2>2. CASE q # p
    BY <1>1, <2>1, <2>2, SendEffect
  <2>3. CASE q = p
    <3>1. IncreasingBelow(Append(sent[q], s), s + 1)
      BY <1>1, <2>1, <2>3, AppendIncreases
    <3>2. IncreasingBelow(sent[q], s + 1)
      BY <1>1, <2>1, <2>3, SkipIncreases
    <3>3. nextEmit'[q] = s + 1
      BY <1>1, <2>3
    <3>4. sent'[q] = sent[q] \/ sent'[q] = Append(sent[q], s)
      BY <2>3, SendEffect
    <3> QED
      BY <3>1, <3>2, <3>3, <3>4
  <2> QED
    BY <2>2, <2>3
<1>3. ASSUME NEW q \in Priority
      PROVE  /\ Len(sent'[q]) + drops'[q] = nextEmit'[q]
             /\ taken'[q] <= Len(sent'[q])
             /\ Len(sent'[q]) - taken'[q] <= QueueCapacity[q]
  <2>1. /\ Len(sent[q]) + drops[q] = nextEmit[q]
        /\ taken[q] <= Len(sent[q])
        /\ Len(sent[q]) - taken[q] <= QueueCapacity[q]
    BY DEF SentOrCounted, Queued
  <2>2. CASE q # p
    BY <1>1, <2>1, <2>2, SendEffect
  <2>3. CASE q = p
    <3>1. Len(Append(sent[q], s)) = Len(sent[q]) + 1
      BY <1>1
    <3>2. \/ /\ Len(sent[q]) - taken[q] < QueueCapacity[q]
             /\ Len(sent'[q]) = Len(sent[q]) + 1 /\ drops'[q] = drops[q]
          \/ Len(sent'[q]) = Len(sent[q]) /\ drops'[q] = drops[q] + 1
      BY <2>3, <3>1, SendEffect DEF Queued
    <3> QED
      BY <1>1, <2>1, <2>3, <3>2
  <2> QED
    BY <2>2, <2>3
<1>4. sent' \in [Priority -> Seq(Sequence)] /\ drops' \in [Priority -> Nat]
  <2>1. \A q \in Priority : sent'[q] \in Seq(Sequence) /\ drops'[q] \in Nat
    BY SendEffect
  <2>2. /\ sent' = [q \in Priority |-> sent'[q]]
        /\ drops' = [q \in Priority |-> drops'[q]]
    BY DEF Send, TypeOK
  <2> QED
    BY <2>1, <2>2
<1> QED
  BY <1>2, <1>3, <1>4 DEF SentInOrder, SentOrCounted, Queued

-----------------------------------------------------------------------------

(***************************************************************************)
(* The part of the invariant that speaks of numbers, for one priority, as a*)
(* fact of plain sets: F is in flight, P is parked, e is due next, n is the*)
(* next number given out, d says that the mutex is held.                   *)
(***************************************************************************)
Numbers(F, P, e, n, d) ==
  /\ e <= n
  /\ F \cup P = e .. n - 1
  /\ F \cap P = {}
  /\ ~d /\ P # {} => e \in F

NumbersOf(p) == Numbers(inFlight[p], pending[p], nextEmit[p], nextSequence[p], draining[p])

LEMMA NumbersOfInvariant ==
  (Partition /\ WaitsOnlyForWorkers) <=> \A p \in Priority : NumbersOf(p)
BY DEF Partition, WaitsOnlyForWorkers, NumbersOf, Numbers

LEMMA NumbersOfInvariantPrimed ==
  (Partition /\ WaitsOnlyForWorkers)' <=> \A p \in Priority : NumbersOf(p)'
BY DEF Partition, WaitsOnlyForWorkers, NumbersOf, Numbers

\* What each operation does to the numbers of its priority.
LEMMA NumbersSteps ==
  ASSUME NEW e \in Nat, NEW n \in Nat, NEW d \in BOOLEAN, NEW F, NEW P, Numbers(F, P, e, n, d)
  PROVE  /\ Numbers(F \cup {n}, P, e, n + 1, d)
         /\ ~d /\ e \in F => Numbers(F \ {e}, P, e + 1, n, TRUE)
         /\ \A s \in F : ~d /\ s # e => Numbers(F \ {s}, P \cup {s}, e, n, d)
         /\ d /\ e \in P => Numbers(F, P \ {e}, e + 1, n, d)
         /\ d /\ e \notin P => Numbers(F, P, e, n, FALSE)
<1>1. /\ e <= n /\ F \cap P = {}
      /\ \A x : x \in F \cup P <=> x \in e .. n - 1
      /\ ~d /\ P # {} => e \in F
  BY DEF Numbers
<1>2. Numbers(F \cup {n}, P, e, n + 1, d)
  <2>1. (F \cup {n}) \cup P = e .. n
    BY <1>1
  <2>2. (F \cup {n}) \cap P = {}
    BY <1>1
  <2> QED
    BY <1>1, <2>1, <2>2 DEF Numbers
<1>3. ASSUME ~d, e \in F PROVE Numbers(F \ {e}, P, e + 1, n, TRUE)
  <2>1. e + 1 <= n /\ (F \ {e}) \cup P = e + 1 .. n - 1
    BY <1>1, <1>3
  <2> QED
    BY <1>1, <2>1 DEF Numbers
<1>4. ASSUME NEW s \in F, ~d, s # e PROVE Numbers(F \ {s}, P \cup {s}, e, n, d)
  <2>1. e \in F
    BY <1>1, <1>4
  <2> QED
    BY <1>1, <1>4, <2>1 DEF Numbers
<1>5. ASSUME d, e \in P PROVE Numbers(F, P \ {e}, e + 1, n, d)
  <2>1. e + 1 <= n /\ F \cup (P \ {e}) = e + 1 .. n - 1
    BY <1>1, <1>5
  <2> QED
    BY <1>1, <1>5, <2>1 DEF Numbers
<1>6. ASSUME d, e \notin P PROVE Numbers(F, P, e, n, FALSE)
  <2>1. P # {} => e \in F
    BY <1>1, <1>6
  <2> QED
    BY <1>1, <2>1 DEF Numbers
<1> QED
  BY <1>2, <1>3, <1>4, <1>5, <1>6

-----------------------------------------------------------------------------

\* The invariant of an action that leaves the channel and its history alone.
LEMMA HistoryUntouched ==
  ASSUME SentInOrder, SentOrCounted, UNCHANGED <<nextEmit, sent, taken, drops>>
  PROVE  SentInOrder' /\ SentOrCounted'
BY DEF SentInOrder, SentOrCounted, Queued

LEMMA AssignPreserves ==
  ASSUME RouterInv, NEW p \in Priority, Assign(p)
  PROVE  RouterInv'
<1>1. TypeOK /\ (\A q \in Priority : NumbersOf(q)) /\ SentInOrder /\ SentOrCounted
  BY NumbersOfInvariant DEF RouterInv
<1>2. nextSequence[p] \in Sequence
  BY <1>1, MaxSequenceAssumption DEF TypeOK, Assign, Sequence
<1>3. TypeOK'
  <2>1. /\ nextSequence[p] + 1 \in 0 .. MaxSequence
        /\ inFlight[p] \cup {nextSequence[p]} \in SUBSET Sequence
    BY <1>1, <1>2, MaxSequenceAssumption DEF TypeOK, Sequence
  <2> QED
    BY <1>1, <2>1 DEF TypeOK, Assign
<1>4. ASSUME NEW q \in Priority PROVE NumbersOf(q)'
  <2>1. nextEmit[q] \in Nat /\ nextSequence[q] \in Nat /\ draining[q] \in BOOLEAN
    BY <1>1, MaxSequenceAssumption DEF TypeOK
  <2>2. CASE q # p
    BY <1>1, <2>2 DEF NumbersOf, TypeOK, Assign
  <2>3. CASE q = p
    <3>1. Numbers(inFlight[q] \cup {nextSequence[q]}, pending[q], nextEmit[q],
                  nextSequence[q] + 1, draining[q])
      BY <1>1, <2>1, NumbersSteps DEF NumbersOf
    <3>2. /\ inFlight'[q] = inFlight[q] \cup {nextSequence[q]}
          /\ nextSequence'[q] = nextSequence[q] + 1
          /\ UNCHANGED <<pending, nextEmit, draining>>
      BY <1>1, <2>3 DEF TypeOK, Assign
    <3> QED
      BY <3>1, <3>2 DEF NumbersOf
  <2> QED
    BY <2>2, <2>3
<1>5. SentInOrder' /\ SentOrCounted'
  BY <1>1, HistoryUntouched DEF Assign
<1> QED
  BY <1>3, <1>4, <1>5, NumbersOfInvariantPrimed DEF RouterInv

LEMMA CompleteNextPreserves ==
  ASSUME RouterInv, NEW p \in Priority, NEW s \in inFlight[p], CompleteNext(p, s)
  PROVE  RouterInv'
<1>1. TypeOK /\ (\A q \in Priority : NumbersOf(q)) /\ SentInOrder /\ SentOrCounted
  BY NumbersOfInvariant DEF RouterInv
<1>2. s \in Sequence /\ s = nextEmit[p]
  BY <1>1 DEF TypeOK, CompleteNext
<1>3. /\ sent' \in [Priority -> Seq(Sequence)] /\ drops' \in [Priority -> Nat]
      /\ SentInOrder' /\ SentOrCounted'
  BY <1>1, <1>2, SendDecidesOne DEF CompleteNext
<1>4. TypeOK'
  BY <1>1, <1>3 DEF TypeOK, CompleteNext
<1>5. ASSUME NEW q \in Priority PROVE NumbersOf(q)'
  <2>1. nextEmit[q] \in Nat /\ nextSequence[q] \in Nat /\ draining[q] \in BOOLEAN
    BY <1>1, MaxSequenceAssumption DEF TypeOK
  <2>2. CASE q # p
    BY <1>1, <2>2 DEF NumbersOf, TypeOK, CompleteNext
  <2>3. CASE q = p
    <3>1. Numbers(inFlight[q] \ {nextEmit[q]}, pending[q], nextEmit[q] + 1,
                  nextSequence[q], TRUE)
      BY <1>1, <1>2, <2>1, <2>3, NumbersSteps DEF NumbersOf, CompleteNext
    <3>2. /\ inFlight'[q] = inFlight[q] \ {nextEmit[q]}
          /\ nextEmit'[q] = nextEmit[q] + 1
          /\ draining'[q] = TRUE
          /\ UNCHANGED <<pending, nextSequence>>
      BY <1>1, <1>2, <2>3 DEF TypeOK, CompleteNext
    <3> QED
      BY <3>1, <3>2 DEF NumbersOf
  <2> QED
    BY <2>2, <2>3
<1> QED
  BY <1>3, <1>4, <1>5, NumbersOfInvariantPrimed DEF RouterInv

LEMMA CompleteEarlyPreserves ==
  ASSUME RouterInv, NEW p \in Priority, NEW s \in inFlight[p], CompleteEarly(p, s)
  PROVE  RouterInv'
<1>1. TypeOK /\ (\A q \in Priority : NumbersOf(q)) /\ SentInOrder /\ SentOrCounted
  BY NumbersOfInvariant DEF RouterInv
<1>2. s \in Sequence
  BY <1>1 DEF TypeOK
<1>3. TypeOK'
  BY <1>1, <1>2 DEF TypeOK, CompleteEarly
<1>4. ASSUME NEW q \in Priority PROVE NumbersOf(q)'
  <2>1. nextEmit[q] \in Nat /\ nextSequence[q] \in Nat /\ draining[q] \in BOOLEAN
    BY <1>1, MaxSequenceAssumption DEF TypeOK
  <2>2. CASE q # p
    BY <1>1, <2>2 DEF NumbersOf, TypeOK, CompleteEarly
  <2>3. CASE q = p
    <3>1. Numbers(inFlight[q] \ {s}, pending[q] \cup {s}, nextEmit[q],
                  nextSequence[q], draining[q])
      BY <1>1, <2>1, <2>3, NumbersSteps DEF NumbersOf, CompleteEarly
    <3>2. /\ inFlight'[q] = inFlight[q] \ {s}
          /\ pending'[q] = pending[q] \cup {s}
          /\ UNCHANGED <<nextEmit, nextSequence, draining>>
      BY <1>1, <2>3 DEF TypeOK, CompleteEarly
    <3> QED
      BY <3>1, <3>2 DEF NumbersOf
  <2> QED
    BY <2>2, <2>3
<1>5. SentInOrder' /\ SentOrCounted'
  BY <1>1, HistoryUntouched DEF CompleteEarly
<1> QED
  BY <1>3, <1>4, <1>5, NumbersOfInvariantPrimed DEF RouterInv

LEMMA CascadePreserves ==
  ASSUME RouterInv, NEW p \in Priority, Cascade(p)
  PROVE  RouterInv'
<1>1. TypeOK /\ (\A q \in Priority : NumbersOf(q)) /\ SentInOrder /\ SentOrCounted
  BY NumbersOfInvariant DEF RouterInv
<1>2. nextEmit[p] \in Sequence
  BY <1>1 DEF TypeOK, Cascade
<1>3. /\ sent' \in [Priority -> Seq(Sequence)] /\ drops' \in [Priority -> Nat]
      /\ SentInOrder' /\ SentOrCounted'
  BY <1>1, <1>2, SendDecidesOne DEF Cascade
<1>4. TypeOK'
  BY <1>1, <1>3 DEF TypeOK, Cascade
<1>5. ASSUME NEW q \in Priority PROVE NumbersOf(q)'
  <2>1. nextEmit[q] \in Nat /\ nextSequence[q] \in Nat /\ draining[q] \in BOOLEAN
    BY <1>1, MaxSequenceAssumption DEF TypeOK
  <2>2. CASE q # p
    BY <1>1, <2>2 DEF NumbersOf, TypeOK, Cascade
  <2>3. CASE q = p
    <3>1. Numbers(inFlight[q], pending[q] \ {nextEmit[q]}, nextEmit[q] + 1,
                  nextSequence[q], draining[q])
      BY <1>1, <2>1, <2>3, NumbersSteps DEF NumbersOf, Cascade
    <3>2. /\ pending'[q] = pending[q] \ {nextEmit[q]}
          /\ nextEmit'[q] = nextEmit[q] + 1
          /\ UNCHANGED <<inFlight, nextSequence, draining>>
      BY <1>1, <2>3 DEF TypeOK, Cascade
    <3> QED
      BY <3>1, <3>2 DEF NumbersOf
  <2> QED
    BY <2>2, <2>3
<1> QED
  BY <1>3, <1>4, <1>5, NumbersOfInvariantPrimed DEF RouterInv

LEMMA ReleasePreserves ==
  ASSUME RouterInv, NEW p \in Priority, Release(p)
  PROVE  RouterInv'
<1>1. TypeOK /\ (\A q \in Priority : NumbersOf(q)) /\ SentInOrder /\ SentOrCounted
  BY NumbersOfInvariant DEF RouterInv
<1>2. TypeOK'
  BY <1>1 DEF TypeOK, Release
<1>3. ASSUME NEW q \in Priority PROVE NumbersOf(q)'
  <2>1. nextEmit[q] \in Nat /\ nextSequence[q] \in Nat /\ draining[q] \in BOOLEAN
    BY <1>1, MaxSequenceAssumption DEF TypeOK
  <2>2. CASE q # p
    BY <1>1, <2>2 DEF NumbersOf, TypeOK, Release
  <2>3. CASE q = p
    <3>1. Numbers(inFlight[q], pending[q], nextEmit[q], nextSequence[q], FALSE)
      BY <1>1, <2>1, <2>3, NumbersSteps DEF NumbersOf, Release
    <3>2. draining'[q] = FALSE /\ UNCHANGED <<inFlight, pending, nextEmit, nextSequence>>
      BY <1>1, <2>3 DEF TypeOK, Release
    <3> QED
      BY <3>1, <3>2 DEF NumbersOf
  <2> QED
    BY <2>2, <2>3
<1>4. SentInOrder' /\ SentOrCounted'
  BY <1>1, HistoryUntouched DEF Release
<1> QED
  BY <1>2, <1>3, <1>4, NumbersOfInvariantPrimed DEF RouterInv

LEMMA TakePreserves ==
  ASSUME RouterInv, NEW p \in Priority, Take(p)
  PROVE  RouterInv'
<1>1. TypeOK /\ Partition /\ WaitsOnlyForWorkers /\ SentInOrder /\ SentOrCounted
  BY DEF RouterInv
<1>2. TypeOK'
  BY <1>1 DEF TypeOK, Take
<1>3. (Partition /\ WaitsOnlyForWorkers)' /\ SentInOrder'
  BY <1>1 DEF Partition, WaitsOnlyForWorkers, SentInOrder, Take
<1>4. ASSUME NEW q \in Priority
      PROVE  /\ Len(sent[q]) + drops[q] = nextEmit[q]
             /\ taken'[q] <= Len(sent[q])
             /\ Len(sent[q]) - taken'[q] <= QueueCapacity[q]
  <2>1. Len(sent[q]) \in Nat /\ taken[q] \in Nat /\ QueueCapacity[q] \in Nat
    <3>1. sent[q] \in Seq(Sequence)
      BY <1>1 DEF TypeOK
    <3> QED
      BY <1>1, <3>1, QueueCapacityAssumption DEF TypeOK
  <2>2. taken'[q] = IF q = p THEN taken[q] + 1 ELSE taken[q]
    BY <1>1 DEF TypeOK, Take
  <2>3. q = p => Len(sent[q]) - taken[q] > 0
    BY DEF Take, Queued
  <2> QED
    BY <1>1, <2>1, <2>2, <2>3 DEF SentOrCounted, Queued
<1>5. SentOrCounted'
  BY <1>4 DEF SentOrCounted, Queued, Take
<1> QED
  BY <1>2, <1>3, <1>5 DEF RouterInv

LEMMA InitEstablishes == RouterInit => RouterInv
<1> SUFFICES ASSUME RouterInit PROVE RouterInv
  OBVIOUS
<1>1. TypeOK
  BY MaxSequenceAssumption DEF RouterInit, TypeOK
<1>2. Partition /\ WaitsOnlyForWorkers
  BY DEF RouterInit, Partition, WaitsOnlyForWorkers
<1>3. SentInOrder /\ SentOrCounted
  BY QueueCapacityAssumption
  DEF RouterInit, SentInOrder, SentOrCounted, IncreasingBelow, Queued
<1> QED
  BY <1>1, <1>2, <1>3 DEF RouterInv

LEMMA StepPreserves == RouterInv /\ [RouterNext]_routerVars => RouterInv'
<1> SUFFICES ASSUME RouterInv, [RouterNext]_routerVars PROVE RouterInv'
  OBVIOUS
<1>1. CASE UNCHANGED routerVars
  BY <1>1 DEF routerVars, RouterInv, TypeOK, Partition, WaitsOnlyForWorkers,
              SentInOrder, SentOrCounted, Queued
<1>2. CASE RouterNext
  <2> PICK p \in Priority : Assign(p) \/ Complete(p) \/ Cascade(p) \/ Release(p) \/ Take(p)
    BY <1>2 DEF RouterNext
  <2>1. CASE Complete(p)
    BY <2>1, CompleteNextPreserves, CompleteEarlyPreserves DEF Complete
  <2> QED
    BY <2>1, AssignPreserves, CascadePreserves, ReleasePreserves, TakePreserves
<1> QED
  BY <1>1, <1>2

-----------------------------------------------------------------------------

(***************************************************************************)
(* The tracker keeps its promises whatever the workers, the egress         *)
(* scheduler and the sizes are: numbers are in exactly one place, packets  *)
(* wait only for packets that workers hold, and what enters the channel is *)
(* in order, counted and within the capacity (SequenceTracker::complete).  *)
(***************************************************************************)
THEOREM RouterInvariant == RouterSpec => []RouterInv
<1>1. RouterInit => RouterInv
  BY InitEstablishes
<1>2. RouterInv /\ [RouterNext]_routerVars => RouterInv'
  BY StepPreserves
<1> QED
  BY <1>1, <1>2, PTL DEF RouterSpec

(***************************************************************************)
(* When the workers hold no packet of a priority and nobody is inside      *)
(* complete(), its tracker is empty and has decided every number it gave   *)
(* out: no packet is left behind.                                          *)
(***************************************************************************)
THEOREM NothingLeftBehind == RouterSpec => []QuiescentIsEmpty
<1>1. RouterInv => QuiescentIsEmpty
  <2> SUFFICES ASSUME RouterInv, NEW p \in Priority, inFlight[p] = {}, ~draining[p]
               PROVE  pending[p] = {} /\ nextEmit[p] = nextSequence[p]
    BY DEF QuiescentIsEmpty
  <2>1. pending[p] = {}
    BY DEF RouterInv, WaitsOnlyForWorkers
  <2>2. nextEmit[p] \in Nat /\ nextSequence[p] \in Nat
    BY MaxSequenceAssumption DEF RouterInv, TypeOK
  <2>3. nextEmit[p] <= nextSequence[p] /\ nextEmit[p] .. nextSequence[p] - 1 = {}
    BY <2>1 DEF RouterInv, Partition
  <2>4. nextEmit[p] < nextSequence[p] => nextEmit[p] \in nextEmit[p] .. nextSequence[p] - 1
    BY <2>2
  <2> QED
    BY <2>1, <2>2, <2>3, <2>4
<1> QED
  BY <1>1, RouterInvariant, PTL

(***************************************************************************)
(* Seen from the egress scheduler the router is a FIFO queue per priority: *)
(* out-of-order completion, the parking of packets and the drain of a run  *)
(* of them under the mutex are invisible (SequenceTracker, send_packet).   *)
(***************************************************************************)
THEOREM RouterImplementsFifo == RouterSpec => FifoSpec
<1>1. RouterInit => Fifo!Init
  BY DEF RouterInit, Fifo!Init
<1>2. RouterInv /\ [RouterNext]_routerVars => [Fifo!Next]_(Fifo!vars)
  <2> SUFFICES ASSUME RouterInv, [RouterNext]_routerVars
               PROVE  Fifo!Next \/ UNCHANGED Fifo!vars
    BY DEF Fifo!vars
  <2>1. CASE UNCHANGED routerVars
    BY <2>1 DEF routerVars, Fifo!vars
  <2>2. CASE RouterNext
    <3> PICK p \in Priority : Assign(p) \/ Complete(p) \/ Cascade(p) \/ Release(p) \/ Take(p)
      BY <2>2 DEF RouterNext
    <3>0. /\ nextEmit[p] \in Nat /\ nextSequence[p] \in Nat
          /\ Len(sent[p]) \in Nat /\ taken[p] \in Nat
      <4>1. sent[p] \in Seq(Sequence)
        BY DEF RouterInv, TypeOK
      <4> QED
        BY <4>1, MaxSequenceAssumption DEF RouterInv, TypeOK
    <3>1. nextEmit[p] \in inFlight[p] \cup pending[p] => nextEmit[p] < nextSequence[p]
      BY <3>0 DEF RouterInv, Partition
    <3>2. ASSUME Send(p, nextEmit[p]), nextEmit[p] \in inFlight[p] \cup pending[p],
                 nextEmit' = [nextEmit EXCEPT ![p] = @ + 1], UNCHANGED <<nextSequence, taken>>
          PROVE  Fifo!Decide(p)
      BY <3>1, <3>2 DEF Send, Queued, Fifo!Decide
    <3>3. CASE Assign(p)
      BY <3>3 DEF Assign, Fifo!Accept, Fifo!Next
    <3>4. CASE Complete(p)
      <4> PICK s \in inFlight[p] : CompleteNext(p, s) \/ CompleteEarly(p, s)
        BY <3>4 DEF Complete
      <4>1. CASE CompleteNext(p, s)
        <5>1. Fifo!Decide(p)
          BY <3>2, <4>1 DEF CompleteNext
        <5> QED
          BY <5>1 DEF Fifo!Next
      <4>2. CASE CompleteEarly(p, s)
        BY <4>2 DEF CompleteEarly, Fifo!vars
      <4> QED
        BY <4>1, <4>2
    <3>5. CASE Cascade(p)
      <4>1. Fifo!Decide(p)
        BY <3>2, <3>5 DEF Cascade
      <4> QED
        BY <4>1 DEF Fifo!Next
    <3>6. CASE Release(p)
      BY <3>6 DEF Release, Fifo!vars
    <3>7. CASE Take(p)
      <4>1. taken[p] < Len(sent[p])
        BY <3>0, <3>7 DEF Take, Queued
      <4> QED
        BY <3>7, <4>1 DEF Take, Fifo!Receive, Fifo!Next
    <3> QED
      BY <3>3, <3>4, <3>5, <3>6, <3>7
  <2> QED
    BY <2>1, <2>2
<1> QED
  BY <1>1, <1>2, RouterInvariant, PTL DEF RouterSpec, FifoSpec, Fifo!Spec

-----------------------------------------------------------------------------
(* The workers. *)

Item == [priority : Priority, sequence : Nat, ts : Nat]
RawItem == [priority : Priority \cup {"none"}, sequence : Int, ts : Int]

\* A worker holds a packet that is not numbered yet.
Carrying == {"admit", "preemptAdmit", "guardAdmit"}

\* A worker has popped an item and not begun to complete it.
Selected == {"preempt", "preemptAdmit", "guard", "guardAdmit", "process"}

Labels == {"top", "limits", "drain", "admit", "emit", "done"} \cup Selected

\* What a worker holds fits the place where it is.
Shape(w) ==
  /\ pc[w] = "limits" => turn[w] <= Len(Serves(w))
  /\ pc[w] \in {"top", "emit"} \cup Selected => turn[w] = 1
  /\ pc[w] \in Carrying => hand[w].priority \in Priority /\ hand[w].ts \in Nat
  /\ pc[w] \in {"preemptAdmit", "guardAdmit"} => hand[w].priority = "High"
  /\ pc[w] \in Selected \cup {"emit"} => current[w] \in Item
  /\ pc[w] \in Selected => initial[w] \in Priority

\* What the controller has read of the counters, and what it will.
LoadTypes == unread \subseteq Loads /\ depth \in [Priorities -> Int]

WorkerTypes ==
  /\ LoadTypes
  /\ QuotaTypes
  /\ arrived \in Nat
  /\ inQueue \in [Priority -> Seq(Nat)]
  /\ admitted \in [Priority -> Seq(Nat)]
  /\ nextSequence \in [Priority -> Nat]
  /\ pc \in [Workers -> Labels]
  /\ turn \in [Workers -> Nat \ {0}]
  /\ limits \in [Workers -> [total : Nat, of : [Priorities -> Nat]]]
  /\ heap \in [Workers -> SUBSET Item]
  /\ hand \in [Workers -> RawItem]
  /\ current \in [Workers -> RawItem]
  /\ initial \in [Workers -> Priority \cup {"none"}]
  /\ counters \in [Workers -> [Priority -> Int]]
  /\ \A w \in Workers : Shape(w)

-----------------------------------------------------------------------------

\* What a worker serves are priorities, High first.
LEMMA ServesPriorities ==
  ASSUME NEW w \in Workers
  PROVE  /\ Len(Serves(w)) \in Nat \ {0}
         /\ "High" \in Priority
         /\ \A k \in 1 .. Len(Serves(w)) : Serves(w)[k] \in Priority
<1>1. w \in 0 .. 2
  BY WorkerAssumption DEF WorkerIds
<1>2. Len(Serves(w)) \in Nat \ {0} /\ Serves(w)[1] = "High"
  BY <1>1 DEF Serves, Assignments
<1>3. \A k \in 1 .. Len(Serves(w)) : Serves(w)[k] \in Priority
  BY WorkerAssumption
<1>. QED
  BY <1>2, <1>3

\* try_recv takes the oldest packet of the channel into the hand.
LEMMA ReceiveEffect ==
  ASSUME WorkerTypes, NEW w \in Workers, NEW p \in Priority, Receive(w, p)
  PROVE  /\ inQueue[p] # <<>> /\ Head(inQueue[p]) \in Nat
         /\ hand' \in [Workers -> RawItem]
         /\ hand'[w].priority = p /\ hand'[w].ts = Head(inQueue[p])
         /\ \A v \in Workers \ {w} : hand'[v] = hand[v]
         /\ inQueue' \in [Priority -> Seq(Nat)]
         /\ inQueue'[p] = Tail(inQueue[p])
         /\ \A q \in Priority \ {p} : inQueue'[q] = inQueue[q]
<1>1. inQueue[p] \in Seq(Nat) /\ inQueue[p] # <<>>
  BY DEF WorkerTypes, Receive
<1>2. Head(inQueue[p]) \in Nat /\ Tail(inQueue[p]) \in Seq(Nat)
  BY <1>1
<1>. DEFINE i == [priority |-> p, sequence |-> -1, ts |-> Head(inQueue[p])]
<1>4. i \in RawItem /\ i.priority = p /\ i.ts = Head(inQueue[p])
  BY <1>2 DEF RawItem
<1>5. hand' = [hand EXCEPT ![w] = i]
  BY DEF Receive
<1>. HIDE DEF i
<1>6. /\ hand' \in [Workers -> RawItem] /\ hand'[w] = i
      /\ \A v \in Workers \ {w} : hand'[v] = hand[v]
  BY <1>4, <1>5 DEF WorkerTypes
<1>7. /\ inQueue' \in [Priority -> Seq(Nat)]
      /\ inQueue'[p] = Tail(inQueue[p])
      /\ \A q \in Priority \ {p} : inQueue'[q] = inQueue[q]
  BY <1>2 DEF Receive, WorkerTypes
<1>. QED
  BY <1>1, <1>2, <1>4, <1>6, <1>7

\* The packet in hand with its number.
LEMMA PreparedIs ==
  ASSUME WorkerTypes, NEW w \in Workers, pc[w] \in Carrying
  PROVE  /\ Prepared(w) \in Item
         /\ Prepared(w).priority = hand[w].priority
         /\ Prepared(w).sequence = nextSequence[hand[w].priority]
         /\ Prepared(w).ts = hand[w].ts
         /\ hand[w].priority \in Priority /\ hand[w].ts \in Nat
<1>1. hand[w] \in RawItem /\ hand[w].priority \in Priority /\ hand[w].ts \in Nat
  BY DEF WorkerTypes, Shape
<1>2. nextSequence[hand[w].priority] \in Nat
  BY <1>1 DEF WorkerTypes
<1>. QED
  BY <1>1, <1>2 DEF Prepared, Item

\* assign_sequence gives the packet in hand the next number of its priority.
LEMMA PrepareEffect ==
  ASSUME WorkerTypes, NEW w \in Workers, pc[w] \in Carrying, Prepare(w)
  PROVE  /\ Assign(hand[w].priority)
         /\ nextSequence' \in [Priority -> Nat]
         /\ nextSequence' = [nextSequence EXCEPT ![hand[w].priority] = @ + 1]
         /\ inFlight' = [inFlight EXCEPT ![hand[w].priority]
                                         = @ \cup {nextSequence[hand[w].priority]}]
         /\ admitted' \in [Priority -> Seq(Nat)]
         /\ admitted' = [admitted EXCEPT ![hand[w].priority] = Append(@, hand[w].ts)]
         /\ hand' \in [Workers -> RawItem]
         /\ \A v \in Workers \ {w} : hand'[v] = hand[v]
<1>. DEFINE p == hand[w].priority
<1>1. p \in Priority /\ hand[w].ts \in Nat
  BY PreparedIs
<1>2. NoItem \in RawItem
  BY DEF NoItem, RawItem
<1>3. /\ Assign(p)
      /\ nextSequence' = [nextSequence EXCEPT ![p] = @ + 1]
      /\ inFlight' = [inFlight EXCEPT ![p] = @ \cup {nextSequence[p]}]
      /\ admitted' = [admitted EXCEPT ![p] = Append(@, hand[w].ts)]
      /\ hand' = [hand EXCEPT ![w] = NoItem]
  BY DEF Prepare, Assign
<1>4. admitted[p] \in Seq(Nat) /\ nextSequence[p] \in Nat
  BY <1>1 DEF WorkerTypes
<1>5. Append(admitted[p], hand[w].ts) \in Seq(Nat)
  BY <1>1, <1>4
<1>. HIDE DEF p
<1>6. admitted' \in [Priority -> Seq(Nat)] /\ nextSequence' \in [Priority -> Nat]
  BY <1>1, <1>3, <1>4, <1>5 DEF WorkerTypes
<1>7. hand' \in [Workers -> RawItem] /\ \A v \in Workers \ {w} : hand'[v] = hand[v]
  BY <1>2, <1>3 DEF WorkerTypes
<1>. QED
  BY <1>3, <1>6, <1>7 DEF p


\* A step of worker w leaves what the other workers hold alone.
OthersKeep(w) ==
  \A v \in Workers \ {w} :
    /\ pc'[v] = pc[v] /\ turn'[v] = turn[v] /\ limits'[v] = limits[v]
    /\ heap'[v] = heap[v] /\ hand'[v] = hand[v] /\ current'[v] = current[v]
    /\ initial'[v] = initial[v] /\ counters'[v] = counters[v]

\* Types of the variables of one worker step, its own shape aside.
StepTypes(w) ==
  /\ QuotaTypes'
  /\ arrived' \in Nat
  /\ inQueue' \in [Priority -> Seq(Nat)]
  /\ admitted' \in [Priority -> Seq(Nat)]
  /\ nextSequence' \in [Priority -> Nat]
  /\ pc' \in [Workers -> Labels]
  /\ turn' \in [Workers -> Nat \ {0}]
  /\ limits' \in [Workers -> [total : Nat, of : [Priorities -> Nat]]]
  /\ heap' \in [Workers -> SUBSET Item]
  /\ hand' \in [Workers -> RawItem]
  /\ current' \in [Workers -> RawItem]
  /\ initial' \in [Workers -> Priority \cup {"none"}]
  /\ counters' \in [Workers -> [Priority -> Int]]

LEMMA ShapesFollow ==
  ASSUME WorkerTypes, NEW w \in Workers, StepTypes(w), OthersKeep(w), Shape(w)',
         UNCHANGED controllerVars
  PROVE  WorkerTypes'
<1>1. ASSUME NEW v \in Workers \ {w} PROVE Shape(v)'
  <2>1. Shape(v)
    BY DEF WorkerTypes
  <2>. QED
    BY <2>1 DEF OthersKeep, Shape
<1>2. LoadTypes'
  BY DEF WorkerTypes, LoadTypes, controllerVars
<1>. QED
  BY <1>1, <1>2 DEF WorkerTypes, StepTypes

\* No worker touches what the controller has read.
LEMMA WorkersLeaveLoads ==
  ASSUME NEW w \in Workers, WorkerStep(w)
  PROVE  UNCHANGED controllerVars
BY DEF WorkerStep, Top, Exit, ReadLimit, DrainNext, DrainReceive, DrainAdmit, SelectNone, Select,
       PreemptEnd, PreemptReceive, PreemptAdmit, GuardEnd, GuardReceive, GuardAdmit, Process,
       EmitNext, EmitEnd

\* Steps that move the program counter and receive or number nothing.
LEMMA MoveKeepsTypes ==
  ASSUME WorkerTypes, NEW w \in Workers,
         \/ Top(w) \/ ReadLimit(w) \/ DrainNext(w) \/ SelectNone(w)
         \/ PreemptEnd(w) \/ GuardEnd(w)
  PROVE  StepTypes(w) /\ OthersKeep(w) /\ Shape(w)'
<1>1. Len(Serves(w)) \in Nat \ {0} /\ w \in WorkerIds
  BY ServesPriorities, WorkerAssumption
<1>2. limits[w].total \in Nat /\ limits[w].of \in [Priorities -> Nat] /\ turn[w] \in Nat \ {0}
  BY DEF WorkerTypes
<1>3. totalLimit[w] \in Nat /\ priorityLimit[w] \in [Priorities -> Nat]
  BY <1>1 DEF WorkerTypes, QuotaTypes
<1>4. \/ limits' = limits
      \/ \E r \in [total : Nat, of : [Priorities -> Nat]] : limits' = [limits EXCEPT ![w] = r]
  <2>1. CASE Top(w)
    <3>1. [total |-> totalLimit[w], of |-> limits[w].of] \in [total : Nat, of : [Priorities -> Nat]]
      BY <1>2, <1>3
    <3>. QED
      BY <2>1, <3>1 DEF Top
  <2>2. CASE ReadLimit(w)
    <3>. DEFINE p == Serves(w)[turn[w]]
                of == [limits[w].of EXCEPT ![p] = priorityLimit[w][p]]
    <3>1. p \in Priority /\ p \in Priorities
      BY <1>1, <2>2, ServesPriorities, WorkerAssumption DEF ReadLimit, WorkerTypes, Shape
    <3>2. limits' = [limits EXCEPT ![w] = [total |-> limits[w].total, of |-> of]]
      BY <2>2 DEF ReadLimit, WorkerTypes
    <3>. HIDE DEF p
    <3>3. of \in [Priorities -> Nat]
      BY <1>2, <1>3, <3>1
    <3>. HIDE DEF of
    <3>. QED
      BY <1>2, <3>2, <3>3
  <2>3. CASE DrainNext(w) \/ SelectNone(w) \/ PreemptEnd(w) \/ GuardEnd(w)
    BY <2>3 DEF DrainNext, SelectNone, PreemptEnd, GuardEnd
  <2>. QED
    BY <2>1, <2>2, <2>3
<1>5. \/ turn' = turn
      \/ \E n \in Nat \ {0} : turn' = [turn EXCEPT ![w] = n]
  BY <1>2 DEF Top, ReadLimit, DrainNext, SelectNone, PreemptEnd, GuardEnd
<1>6. PICK l \in {"limits", "drain", "top", "guard", "process"} :
        /\ pc' = [pc EXCEPT ![w] = l]
        /\ l = "limits" => turn'[w] <= Len(Serves(w))
        /\ l = "top" => turn'[w] = 1
        /\ l \in {"guard", "process"} => pc[w] \in {"preempt", "guard"} /\ turn' = turn
  <2>1. turn[w] \in Nat \ {0} /\ turn \in [Workers -> Nat \ {0}] /\ pc \in [Workers -> Labels]
    BY DEF WorkerTypes
  <2>2. CASE Top(w)
    <3>1. turn' = turn /\ turn[w] = 1 /\ pc' = [pc EXCEPT ![w] = "limits"]
      BY <2>2 DEF Top, Goto, WorkerTypes, Shape
    <3>. QED
      BY <1>1, <3>1
  <2>3. CASE ReadLimit(w)
    <3>1. CASE turn[w] = Len(Serves(w))
      BY <2>3, <3>1 DEF ReadLimit, Goto
    <3>2. CASE turn[w] # Len(Serves(w))
      <4>1. turn[w] <= Len(Serves(w))
        BY <2>3 DEF ReadLimit, WorkerTypes, Shape
      <4>2. pc' = [pc EXCEPT ![w] = "limits"] /\ turn'[w] = turn[w] + 1
        BY <2>1, <2>3, <3>2 DEF ReadLimit, Goto
      <4>. QED
        BY <1>1, <2>1, <3>2, <4>1, <4>2
    <3>. QED
      BY <3>1, <3>2
  <2>4. CASE DrainNext(w)
    BY <2>1, <2>4 DEF DrainNext
  <2>5. CASE SelectNone(w)
    BY <2>1, <2>5 DEF SelectNone, Goto
  <2>6. CASE PreemptEnd(w) \/ GuardEnd(w)
    BY <2>6 DEF PreemptEnd, GuardEnd, Goto, GuardOrProcess
  <2>. QED
    BY <2>2, <2>3, <2>4, <2>5, <2>6
<1>7. UNCHANGED <<routerVars, quotaVars, arrived, inQueue, heap, hand, current, initial,
                  counters, admitted>>
  BY DEF Top, ReadLimit, DrainNext, SelectNone, PreemptEnd, GuardEnd
<1>8. StepTypes(w) /\ OthersKeep(w)
  <2>1. /\ pc' \in [Workers -> Labels] /\ \A v \in Workers \ {w} : pc'[v] = pc[v]
    BY <1>6 DEF WorkerTypes, Labels, Selected
  <2>2. /\ turn' \in [Workers -> Nat \ {0}] /\ \A v \in Workers \ {w} : turn'[v] = turn[v]
    BY <1>5 DEF WorkerTypes
  <2>3. /\ limits' \in [Workers -> [total : Nat, of : [Priorities -> Nat]]]
        /\ \A v \in Workers \ {w} : limits'[v] = limits[v]
    BY <1>4 DEF WorkerTypes
  <2>4. QuotaTypes'
    BY <1>7 DEF WorkerTypes, QuotaTypes, quotaVars
  <2>. QED
    BY <1>7, <2>1, <2>2, <2>3, <2>4 DEF WorkerTypes, StepTypes, OthersKeep, routerVars
<1>9. Shape(w)'
  BY <1>6, <1>7 DEF WorkerTypes, Shape, Carrying, Selected
<1>. QED
  BY <1>8, <1>9

LEMMA ExitKeepsTypes ==
  ASSUME WorkerTypes, NEW w \in Workers, Exit(w)
  PROVE  StepTypes(w) /\ OthersKeep(w) /\ Shape(w)'
<1>1. heap' = [heap EXCEPT ![w] = {}] /\ pc' = [pc EXCEPT ![w] = "done"]
  BY DEF Exit, Goto
<1>2. UNCHANGED <<routerVars, quotaVars, arrived, inQueue, turn, limits, hand, current, initial,
                  counters, admitted>>
  BY DEF Exit
<1>3. /\ pc' \in [Workers -> Labels] /\ heap' \in [Workers -> SUBSET Item] /\ pc'[w] = "done"
      /\ \A v \in Workers \ {w} : pc'[v] = pc[v] /\ heap'[v] = heap[v]
  BY <1>1 DEF WorkerTypes, Labels
<1>4. QuotaTypes'
  BY <1>2 DEF WorkerTypes, QuotaTypes, quotaVars
<1>. QED
  BY <1>2, <1>3, <1>4 DEF WorkerTypes, StepTypes, OthersKeep, Shape, Carrying, Selected, routerVars

LEMMA ReceiveKeepsTypes ==
  ASSUME WorkerTypes, NEW w \in Workers,
         DrainReceive(w) \/ PreemptReceive(w) \/ GuardReceive(w)
  PROVE  /\ StepTypes(w) /\ OthersKeep(w) /\ Shape(w)'
         /\ hand'[w].priority \in Priority /\ Receive(w, hand'[w].priority)
         /\ ~Full(w, hand'[w].priority)
<1>1. PICK p \in Priority, l \in Carrying :
        /\ Receive(w, p) /\ ~Full(w, p)
        /\ pc' = [pc EXCEPT ![w] = l]
        /\ l = "admit" \/ p = "High"
        /\ l # "admit" => pc[w] \in Selected
  <2>1. CASE DrainReceive(w)
    <3>1. turn[w] \in 1 .. Len(Serves(w))
      BY <2>1, ServesPriorities DEF DrainReceive, WorkerTypes
    <3>. QED
      BY <2>1, <3>1, ServesPriorities DEF DrainReceive, Goto, Carrying
  <2>2. CASE PreemptReceive(w) \/ GuardReceive(w)
    BY <2>2, ServesPriorities DEF PreemptReceive, GuardReceive, Goto, Carrying, Selected
  <2>. QED
    BY <2>1, <2>2
<1>2. UNCHANGED <<routerVars, quotaVars, arrived, turn, limits, heap, current, initial,
                  counters, admitted>>
  BY DEF DrainReceive, PreemptReceive, GuardReceive
<1>3. /\ pc' \in [Workers -> Labels] /\ pc'[w] = l
      /\ \A v \in Workers \ {w} : pc'[v] = pc[v]
  BY <1>1 DEF WorkerTypes, Labels, Carrying, Selected
<1>4. /\ hand' \in [Workers -> RawItem] /\ hand'[w].priority = p /\ hand'[w].ts \in Nat
      /\ inQueue' \in [Priority -> Seq(Nat)]
      /\ \A v \in Workers \ {w} : hand'[v] = hand[v]
  BY <1>1, ReceiveEffect
<1>5. QuotaTypes'
  BY <1>2 DEF WorkerTypes, QuotaTypes, quotaVars
<1>6. StepTypes(w) /\ OthersKeep(w)
  BY <1>2, <1>3, <1>4, <1>5 DEF WorkerTypes, StepTypes, OthersKeep, routerVars
<1>7. Shape(w)'
  BY <1>1, <1>2, <1>3, <1>4 DEF WorkerTypes, Shape, Carrying, Selected
<1>. QED
  BY <1>1, <1>4, <1>6, <1>7

LEMMA SelectKeepsTypes ==
  ASSUME WorkerTypes, NEW w \in Workers, Select(w)
  PROVE  /\ StepTypes(w) /\ OthersKeep(w) /\ Shape(w)'
         /\ current'[w] \in Earliest(heap[w]) /\ heap'[w] = heap[w] \ {current'[w]}
         /\ initial'[w] = current'[w].priority
         /\ pc'[w] \in {"preempt", "guard"}
         /\ pc'[w] = "guard" => current'[w].priority = "Medium"
<1>1. PICK i \in Earliest(heap[w]), l \in {"preempt", "guard"} :
        /\ heap' = [heap EXCEPT ![w] = heap[w] \ {i}]
        /\ counters' = [counters EXCEPT ![w][i.priority] = @ - 1]
        /\ current' = [current EXCEPT ![w] = i]
        /\ initial' = [initial EXCEPT ![w] = i.priority]
        /\ pc' = [pc EXCEPT ![w] = l]
        /\ l = "guard" => i.priority = "Medium"
  BY DEF Select, GuardOrProcess, Goto
<1>2. /\ turn' = [turn EXCEPT ![w] = 1]
      /\ UNCHANGED <<routerVars, quotaVars, arrived, inQueue, limits, hand, admitted>>
  BY DEF Select
<1>3. i \in heap[w] /\ i \in Item /\ i \in RawItem /\ i.priority \in Priority
  BY DEF Earliest, WorkerTypes, Item, RawItem
<1>4. /\ pc' \in [Workers -> Labels] /\ heap' \in [Workers -> SUBSET Item]
      /\ current' \in [Workers -> RawItem] /\ turn' \in [Workers -> Nat \ {0}]
      /\ initial' \in [Workers -> Priority \cup {"none"}]
      /\ pc'[w] = l /\ current'[w] = i /\ turn'[w] = 1 /\ initial'[w] = i.priority
      /\ heap'[w] = heap[w] \ {i}
      /\ \A v \in Workers \ {w} :
           /\ pc'[v] = pc[v] /\ heap'[v] = heap[v] /\ current'[v] = current[v]
           /\ turn'[v] = turn[v] /\ initial'[v] = initial[v]
  <2>1. /\ pc' \in [Workers -> Labels] /\ pc'[w] = l
        /\ \A v \in Workers \ {w} : pc'[v] = pc[v]
    BY <1>1 DEF WorkerTypes, Labels, Selected
  <2>2. /\ heap' \in [Workers -> SUBSET Item] /\ heap'[w] = heap[w] \ {i}
        /\ \A v \in Workers \ {w} : heap'[v] = heap[v]
    BY <1>1 DEF WorkerTypes
  <2>3. /\ current' \in [Workers -> RawItem] /\ current'[w] = i
        /\ \A v \in Workers \ {w} : current'[v] = current[v]
    BY <1>1, <1>3 DEF WorkerTypes
  <2>. QED
    BY <1>1, <1>2, <1>3, <2>1, <2>2, <2>3 DEF WorkerTypes
<1>5. /\ counters' \in [Workers -> [Priority -> Int]]
      /\ \A v \in Workers \ {w} : counters'[v] = counters[v]
  BY <1>1, <1>3 DEF WorkerTypes
<1>6. QuotaTypes'
  BY <1>2 DEF WorkerTypes, QuotaTypes, quotaVars
<1>7. StepTypes(w) /\ OthersKeep(w)
  BY <1>2, <1>4, <1>5, <1>6 DEF WorkerTypes, StepTypes, OthersKeep, routerVars
<1>8. Shape(w)'
  BY <1>1, <1>3, <1>4 DEF Shape, Carrying, Selected
<1>. QED
  BY <1>1, <1>4, <1>7, <1>8

\* A packet gets its number; it, or the current one, goes into the heap or is lost.
LEMMA AdmitKeepsTypes ==
  ASSUME WorkerTypes, NEW w \in Workers, DrainAdmit(w) \/ PreemptAdmit(w) \/ GuardAdmit(w)
  PROVE  StepTypes(w) /\ OthersKeep(w) /\ Shape(w)' /\ pc[w] \in Carrying /\ Prepare(w)
<1>1. pc[w] \in Carrying /\ Prepare(w)
  BY DEF DrainAdmit, PreemptAdmit, GuardAdmit, Carrying
<1>. DEFINE i == Prepared(w)
<1>2. i \in Item /\ i \in RawItem /\ i.priority \in Priority
  BY <1>1, PreparedIs DEF Item, RawItem
<1>3. heap[w] \in SUBSET Item /\ (pc[w] # "admit" => current[w] \in Item /\ initial[w] \in Priority)
  BY <1>1 DEF WorkerTypes, Shape, Carrying, Selected
<1>4. UNCHANGED <<quotaVars, arrived, inQueue, limits, initial>>
  BY DEF DrainAdmit, PreemptAdmit, GuardAdmit
<1>5. /\ heap' \in [Workers -> SUBSET Item]
      /\ \A v \in Workers \ {w} : heap'[v] = heap[v]
  <2>1. \/ heap' = heap
        \/ heap' = [heap EXCEPT ![w] = heap[w] \cup {i}]
        \/ pc[w] # "admit" /\ heap' = [heap EXCEPT ![w] = heap[w] \cup {current[w]}]
        \/ heap' = [heap EXCEPT ![w] = heap[w]]
    BY DEF DrainAdmit, PreemptAdmit, GuardAdmit, Requeue
  <2>. HIDE DEF i
  <2>2. heap[w] \cup {i} \in SUBSET Item
    BY <1>2, <1>3
  <2>3. pc[w] # "admit" => heap[w] \cup {current[w]} \in SUBSET Item
    BY <1>3
  <2>. QED
    BY <1>3, <2>1, <2>2, <2>3 DEF WorkerTypes
<1>6. \/ counters' = counters
      \/ \E p \in Priority : counters' = [counters EXCEPT ![w][p] = @ + 1]
  <2>1. CASE DrainAdmit(w)
    BY <1>1, <2>1, PreparedIs DEF DrainAdmit
  <2>2. CASE PreemptAdmit(w)
    BY <1>3, <2>2, ServesPriorities DEF PreemptAdmit, Requeue
  <2>3. CASE GuardAdmit(w)
    BY <1>3, <2>3 DEF GuardAdmit, Requeue
  <2>. QED
    BY <2>1, <2>2, <2>3
<1>7. /\ counters' \in [Workers -> [Priority -> Int]]
      /\ \A v \in Workers \ {w} : counters'[v] = counters[v]
  <2>1. counters \in [Workers -> [Priority -> Int]]
    BY DEF WorkerTypes
  <2>2. CASE counters' = counters
    BY <2>1, <2>2
  <2>3. ASSUME NEW p \in Priority, counters' = [counters EXCEPT ![w][p] = @ + 1]
        PROVE  /\ counters' \in [Workers -> [Priority -> Int]]
               /\ \A v \in Workers \ {w} : counters'[v] = counters[v]
    BY <2>1, <2>3
  <2>. QED
    BY <1>6, <2>2, <2>3
<1>8. /\ current' = current \/ (pc[w] # "admit" /\ current' = [current EXCEPT ![w] = i])
      /\ pc[w] = "admit" => current' = current
  BY DEF DrainAdmit, PreemptAdmit, GuardAdmit, Requeue
<1>9. PICK l \in {"drain", "preempt", "guard", "process"} :
        /\ pc' = [pc EXCEPT ![w] = l]
        /\ l # "drain" => pc[w] # "admit" /\ turn' = turn
  BY DEF DrainAdmit, PreemptAdmit, GuardAdmit, GuardOrProcess, Goto
<1>10. /\ turn' \in [Workers -> Nat \ {0}]
       /\ \A v \in Workers \ {w} : turn'[v] = turn[v]
  <2>1. turn' = turn \/ turn' = [turn EXCEPT ![w] = @ + 1]
    BY DEF DrainAdmit, PreemptAdmit, GuardAdmit
  <2>. QED
    BY <2>1 DEF WorkerTypes
<1>. HIDE DEF i
<1>11. /\ pc' \in [Workers -> Labels] /\ pc'[w] = l
       /\ \A v \in Workers \ {w} : pc'[v] = pc[v]
  BY <1>9 DEF WorkerTypes, Labels, Selected
<1>12. /\ current' \in [Workers -> RawItem]
       /\ pc[w] # "admit" => current'[w] \in Item
       /\ \A v \in Workers \ {w} : current'[v] = current[v]
  BY <1>2, <1>3, <1>8 DEF WorkerTypes
<1>13. QuotaTypes'
  BY <1>4 DEF WorkerTypes, QuotaTypes, quotaVars
<1>14. StepTypes(w) /\ OthersKeep(w)
  <2>1. /\ nextSequence' \in [Priority -> Nat] /\ admitted' \in [Priority -> Seq(Nat)]
        /\ hand' \in [Workers -> RawItem] /\ \A v \in Workers \ {w} : hand'[v] = hand[v]
    BY <1>1, PrepareEffect
  <2>. QED
    BY <1>4, <1>5, <1>7, <1>10, <1>11, <1>12, <1>13, <2>1 DEF WorkerTypes, StepTypes, OthersKeep
<1>15. Shape(w)'
  <2>1. pc[w] # "admit" => turn[w] = 1 /\ initial'[w] \in Priority
    BY <1>1, <1>3, <1>4 DEF WorkerTypes, Shape, Carrying, Selected
  <2>. QED
    BY <1>9, <1>11, <1>12, <2>1 DEF Shape, Carrying, Selected
<1>. QED
  BY <1>1, <1>14, <1>15

LEMMA CompleteKeepsTypes ==
  ASSUME WorkerTypes, NEW w \in Workers, Process(w) \/ EmitNext(w) \/ EmitEnd(w)
  PROVE  StepTypes(w) /\ OthersKeep(w) /\ Shape(w)'
<1>1. UNCHANGED <<quotaVars, arrived, inQueue, admitted, nextSequence, turn, limits, heap, hand,
                  counters>>
  BY DEF Process, EmitNext, EmitEnd, CompleteNext, CompleteEarly, Cascade, Release, workerVars
<1>2. QuotaTypes'
  BY <1>1 DEF WorkerTypes, QuotaTypes, quotaVars
<1>3. NoItem \in RawItem
  BY DEF NoItem, RawItem
<1>4. CASE UNCHANGED <<pc, current, initial>>
  BY <1>1, <1>2, <1>4 DEF WorkerTypes, StepTypes, OthersKeep, Shape
<1>5. CASE Goto(w, "emit") /\ UNCHANGED <<current, initial>> /\ pc[w] = "process"
  <2>1. /\ pc' \in [Workers -> Labels] /\ pc'[w] = "emit"
        /\ \A v \in Workers \ {w} : pc'[v] = pc[v]
    BY <1>5 DEF WorkerTypes, Labels, Goto
  <2>2. StepTypes(w) /\ OthersKeep(w)
    BY <1>1, <1>2, <1>5, <2>1 DEF WorkerTypes, StepTypes, OthersKeep
  <2>3. Shape(w)'
    BY <1>1, <1>5, <2>1 DEF WorkerTypes, Shape, Carrying, Selected
  <2>. QED
    BY <2>2, <2>3
<1>6. CASE EndIteration(w) /\ pc[w] \in {"process", "emit"}
  <2>1. /\ pc' \in [Workers -> Labels] /\ pc'[w] = "top"
        /\ current' \in [Workers -> RawItem] /\ initial' \in [Workers -> Priority \cup {"none"}]
        /\ \A v \in Workers \ {w} :
             pc'[v] = pc[v] /\ current'[v] = current[v] /\ initial'[v] = initial[v]
    BY <1>3, <1>6 DEF WorkerTypes, Labels, EndIteration, Goto
  <2>2. StepTypes(w) /\ OthersKeep(w)
    BY <1>1, <1>2, <2>1 DEF WorkerTypes, StepTypes, OthersKeep
  <2>3. Shape(w)'
    BY <1>1, <1>6, <2>1 DEF WorkerTypes, Shape, Carrying, Selected
  <2>. QED
    BY <2>2, <2>3
<1>. QED
  BY <1>4, <1>5, <1>6 DEF Process, EmitNext, EmitEnd, workerVars

\* A load reads a counter of a worker that runs.
LEMMA LoadIsInteger ==
  ASSUME WorkerTypes, NEW load \in Loads
  PROVE  load.of \in Priorities /\ counters[load.worker][load.of] \in Int
<1>1. load.worker \in Workers
  BY DEF Loads
<1>2. load.of \in Priority
  BY <1>1, ServesPriorities DEF Loads
<1>. QED
  BY <1>1, <1>2, WorkerAssumption DEF WorkerTypes

\* Steps of the other threads.
LEMMA OthersKeepTypes ==
  ASSUME WorkerTypes,
         \/ \E p \in Priority : Arrive(p) \/ EgressTake(p)
         \/ Stop \/ ReadCounter \/ StartRebalance \/ PublishQuota \/ UNCHANGED vars
  PROVE  WorkerTypes'
<1>1. ASSUME NEW p \in Priority, Arrive(p) PROVE WorkerTypes'
  <2>1. inQueue[p] \in Seq(Nat) /\ arrived \in Nat
    BY DEF WorkerTypes
  <2>2. Append(inQueue[p], arrived) \in Seq(Nat) /\ arrived + 1 \in Nat
    BY <2>1
  <2>3. inQueue' \in [Priority -> Seq(Nat)] /\ arrived' \in Nat
    BY <1>1, <2>2 DEF Arrive, WorkerTypes
  <2>. QED
    BY <1>1, <2>3 DEF Arrive, WorkerTypes, QuotaTypes, LoadTypes, controllerVars, quotaVars, workerVars, routerVars,
                          Shape
<1>2. ASSUME NEW p \in Priority, EgressTake(p) PROVE WorkerTypes'
  BY <1>2 DEF EgressTake, Take, WorkerTypes, QuotaTypes, LoadTypes, controllerVars, quotaVars,
              workerVars, Shape
<1>3. CASE ReadCounter \/ StartRebalance \/ PublishQuota
  <2>1. QuotaTypes /\ LoadTypes
    BY DEF WorkerTypes
  <2>2. ASSUME NEW load \in Loads PROVE DepthWith(load) \in [Priorities -> Int]
    BY <2>1, LoadIsInteger DEF LoadTypes, DepthWith
  <2>3. ASSUME NEW load \in Loads, NEW capacity \in Capacities
        PROVE  Estimates(capacity, DepthWith(load))
    BY <2>2, WorkerAssumption DEF Estimates, Priorities
  <2>4. QuotaTypes' /\ LoadTypes'
    <3>1. CASE ReadCounter
      BY <2>1, <2>2, <3>1 DEF ReadCounter, LoadTypes, QuotaTypes, quotaVars
    <3>2. CASE StartRebalance
      <4>1. PICK load \in Loads, capacity \in Capacities : Rebalance(capacity, DepthWith(load))
        BY <2>1, <3>2 DEF StartRebalance, LoadTypes
      <4>2. QuotaTypes'
        BY <2>1, <2>3, <4>1, RebalanceTypes
      <4>. QED
        BY <3>2, <4>2 DEF StartRebalance, LoadTypes, NoDepth
    <3>3. CASE PublishQuota
      BY <2>1, <3>3, PublishTypes DEF PublishQuota, LoadTypes, controllerVars
    <3>. QED
      BY <1>3, <3>1, <3>2, <3>3
  <2>5. UNCHANGED <<routerVars, arrived, inQueue, workerVars, admitted>>
    BY <1>3 DEF ReadCounter, StartRebalance, PublishQuota
  <2>. QED
    BY <2>4, <2>5 DEF WorkerTypes, workerVars, routerVars, Shape
<1>4. CASE Stop \/ UNCHANGED vars
  BY <1>4 DEF Stop, vars, WorkerTypes, QuotaTypes, LoadTypes, controllerVars, quotaVars, workerVars,
              routerVars, Shape
<1>. QED
  BY <1>1, <1>2, <1>3, <1>4

LEMMA WorkerTypesStep ==
  ASSUME WorkerTypes, NEW w \in Workers, WorkerStep(w)
  PROVE  StepTypes(w) /\ OthersKeep(w) /\ Shape(w)'
BY MoveKeepsTypes, ExitKeepsTypes, ReceiveKeepsTypes, SelectKeepsTypes, AdmitKeepsTypes,
   CompleteKeepsTypes DEF WorkerStep

LEMMA TypesStep == WorkerTypes /\ [Next]_vars => WorkerTypes'
BY WorkerTypesStep, WorkersLeaveLoads, ShapesFollow, OthersKeepTypes DEF Next

LEMMA TypesInit == Init => WorkerTypes
<1>. SUFFICES ASSUME Init PROVE WorkerTypes
  OBVIOUS
<1>1. QuotaTypes
  BY QuotaInitTypes DEF Init
<1>2. NoItem \in RawItem
  BY DEF NoItem, RawItem
<1>3. \A w \in Workers :
        [total |-> InitialTotal[w], of |-> InitialLimit[w]]
          \in [total : Nat, of : [Priorities -> Nat]]
  BY QuotaAssumption, WorkerAssumption
<1>. QED
  BY <1>1, <1>2, <1>3
  DEF Init, RouterInit, WorkerTypes, LoadTypes, NoDepth, Labels, Selected, Carrying, Shape

LEMMA TypesHold == Spec => []WorkerTypes
BY TypesInit, TypesStep, PTL DEF Spec

-----------------------------------------------------------------------------
(* The workers use the router as RouterSpec allows. *)

LEMMA RouterStep ==
  ASSUME WorkerTypes, [Next]_vars
  PROVE  [RouterNext]_routerVars
<1>1. ASSUME NEW p \in Priority, Arrive(p) \/ EgressTake(p) PROVE [RouterNext]_routerVars
  BY <1>1 DEF Arrive, EgressTake, RouterNext
<1>2. ASSUME NEW w \in Workers, DrainAdmit(w) \/ PreemptAdmit(w) \/ GuardAdmit(w)
      PROVE  [RouterNext]_routerVars
  <2>1. hand[w].priority \in Priority /\ Assign(hand[w].priority)
    BY <1>2, AdmitKeepsTypes, PrepareEffect, PreparedIs
  <2>. QED
    BY <2>1 DEF RouterNext
<1>3. ASSUME NEW w \in Workers, Process(w) \/ EmitNext(w) \/ EmitEnd(w)
      PROVE  [RouterNext]_routerVars
  <2>. DEFINE p == current[w].priority
  <2>1. p \in Priority
    BY <1>3 DEF Process, EmitNext, EmitEnd, WorkerTypes, Shape, Selected, Item
  <2>2. Complete(p) \/ Cascade(p) \/ Release(p)
    BY <1>3 DEF Process, EmitNext, EmitEnd, Complete, CompleteNext, CompleteEarly
  <2>. QED
    BY <2>1, <2>2 DEF RouterNext
<1>4. ASSUME NEW w \in Workers,
             \/ Top(w) \/ Exit(w) \/ ReadLimit(w) \/ DrainNext(w) \/ DrainReceive(w)
             \/ SelectNone(w) \/ Select(w) \/ PreemptEnd(w) \/ PreemptReceive(w)
             \/ GuardEnd(w) \/ GuardReceive(w)
      PROVE  [RouterNext]_routerVars
  BY <1>4 DEF Top, Exit, ReadLimit, DrainNext, DrainReceive, SelectNone, Select, PreemptEnd,
              PreemptReceive, GuardEnd, GuardReceive
<1>5. CASE Stop \/ ReadCounter \/ StartRebalance \/ PublishQuota \/ UNCHANGED vars
  BY <1>5 DEF Stop, ReadCounter, StartRebalance, PublishQuota, vars
<1>. QED
  BY <1>1, <1>2, <1>3, <1>4, <1>5 DEF Next, WorkerStep

(***************************************************************************)
(* Whatever the workers do, the router is used as RouterSpec says: a worker*)
(* completes only packets it numbered, and inside complete() only cascades *)
(* and releases (run_worker, CompletionRouter::prepare and complete).      *)
(***************************************************************************)
THEOREM WorkersUseRouter == Spec => RouterSpec
<1>1. Init => RouterInit
  BY DEF Init
<1>. QED
  BY <1>1, TypesHold, RouterStep, PTL DEF Spec, RouterSpec

(***************************************************************************)
(* The scheduler as a whole keeps the invariant of its sequence trackers.  *)
(***************************************************************************)
THEOREM WorkersKeepRouter == Spec => []RouterInv
BY WorkersUseRouter, RouterInvariant, PTL

(***************************************************************************)
(* Seen from the egress scheduler, three workers with their heaps, quotas, *)
(* preemption and displaced packets are one FIFO queue per priority, in the*)
(* order in which packets got their numbers.                               *)
(***************************************************************************)
THEOREM WorkersImplementFifo == Spec => FifoSpec
BY WorkersUseRouter, RouterImplementsFifo, PTL

-----------------------------------------------------------------------------
(* Deadlines. *)

\* Nothing in the heap is due before an item that is not High.
DueFirst(w) ==
  pc[w] \in Selected /\ current[w].priority # "High" =>
    \A i \in heap[w] : Deadline(i) >= Deadline(current[w])

DeadlineInv == \A w \in Workers : DueFirst(w)

LEMMA DeadlineType == ASSUME NEW i \in Item PROVE Deadline(i) \in Nat
BY WorkerAssumption DEF Item, Deadline

LEMMA DueFirstStep ==
  ASSUME WorkerTypes, NEW w \in Workers, DueFirst(w), WorkerStep(w)
  PROVE  DueFirst(w)'
<1>1. ASSUME \/ Top(w) \/ ReadLimit(w) \/ DrainNext(w) \/ SelectNone(w)
             \/ PreemptEnd(w) \/ GuardEnd(w) \/ Exit(w)
             \/ DrainReceive(w) \/ PreemptReceive(w) \/ GuardReceive(w)
      PROVE  DueFirst(w)'
  <2>1. current' = current /\ (heap' = heap \/ pc'[w] \notin Selected)
    BY <1>1 DEF Top, ReadLimit, DrainNext, SelectNone, PreemptEnd, GuardEnd, Exit,
                DrainReceive, PreemptReceive, GuardReceive, Goto, WorkerTypes, Selected
  <2>2. pc'[w] \in Selected => pc[w] \in Selected
    BY <1>1 DEF Top, ReadLimit, DrainNext, SelectNone, PreemptEnd, GuardEnd, Exit,
                DrainReceive, PreemptReceive, GuardReceive, Goto, WorkerTypes, Selected
  <2>. QED
    BY <2>1, <2>2 DEF DueFirst, Deadline
<1>2. CASE Select(w)
  <2>1. /\ current'[w] \in Earliest(heap[w]) /\ heap'[w] = heap[w] \ {current'[w]}
        /\ heap[w] \in SUBSET Item
    BY <1>2, SelectKeepsTypes DEF WorkerTypes
  <2>2. \A i \in heap'[w] : Deadline(i) >= Deadline(current'[w])
    BY <2>1, DeadlineType DEF Earliest
  <2>. QED
    BY <2>2 DEF DueFirst, Deadline
<1>3. CASE DrainAdmit(w)
  <2>1. pc'[w] = "drain"
    BY <1>3 DEF DrainAdmit, Goto, WorkerTypes
  <2>. QED
    BY <2>1 DEF DueFirst, Selected
<1>4. CASE PreemptAdmit(w) \/ GuardAdmit(w)
  <2>. DEFINE i == Prepared(w)
  <2>1. i \in Item /\ i.priority = "High" /\ current[w] \in Item /\ pc[w] \in Selected
        /\ heap[w] \in SUBSET Item
    BY <1>4, PreparedIs DEF PreemptAdmit, GuardAdmit, WorkerTypes, Shape, Carrying, Selected
  <2>2. CASE current' = [current EXCEPT ![w] = i]
    BY <2>1, <2>2 DEF WorkerTypes, DueFirst
  <2>3. CASE /\ current' = current /\ ~(Deadline(i) < Deadline(current[w]))
             /\ heap'[w] = heap[w] \/ heap'[w] = heap[w] \cup {i}
    BY <2>1, <2>3, DeadlineType DEF DueFirst, Deadline
  <2>. QED
    BY <1>4, <2>2, <2>3 DEF PreemptAdmit, GuardAdmit, Requeue, WorkerTypes
<1>5. CASE Process(w) \/ EmitNext(w) \/ EmitEnd(w)
  <2>1. pc'[w] \in {"emit", "top"}
    BY <1>5 DEF Process, EmitNext, EmitEnd, EndIteration, Goto, WorkerTypes, workerVars
  <2>. QED
    BY <2>1 DEF DueFirst, Selected
<1>. QED
  BY <1>1, <1>2, <1>3, <1>4, <1>5 DEF WorkerStep

LEMMA DeadlineStep == WorkerTypes /\ DeadlineInv /\ [Next]_vars => DeadlineInv'
<1>. SUFFICES ASSUME WorkerTypes, DeadlineInv, [Next]_vars, NEW v \in Workers
              PROVE  DueFirst(v)'
  BY DEF DeadlineInv
<1>1. ASSUME NEW w \in Workers, WorkerStep(w) PROVE DueFirst(v)'
  <2>1. CASE v = w
    BY <1>1, <2>1, DueFirstStep DEF DeadlineInv
  <2>2. CASE v # w
    BY <1>1, <2>2, WorkerTypesStep DEF OthersKeep, DeadlineInv, DueFirst, Deadline
  <2>. QED
    BY <2>1, <2>2
<1>2. CASE UNCHANGED workerVars
  BY <1>2 DEF workerVars, DeadlineInv, DueFirst, Deadline
<1>. QED
  BY <1>1, <1>2 DEF Next, Arrive, EgressTake, Stop, ReadCounter, StartRebalance, PublishQuota, vars

(***************************************************************************)
(* For any quotas and any displacement, a worker never begins to process a *)
(* packet other than High while its heap holds one that is due earlier:    *)
(* High packets pushed behind the current one are due later than it, and   *)
(* one that is due earlier takes its place (STEP 2 to STEP 4).             *)
(***************************************************************************)
THEOREM NoInversionHolds == Spec => []NoInversion
<1>1. Init => DeadlineInv
  BY DEF Init, DeadlineInv, DueFirst, Selected
<1>2. DeadlineInv => NoInversion
  BY DEF DeadlineInv, DueFirst, NoInversion, Selected
<1>. QED
  BY <1>1, <1>2, DeadlineStep, TypesHold, PTL DEF Spec

-----------------------------------------------------------------------------
(* Arrival order. *)

Serving(w, p) == \E k \in 1 .. Len(Serves(w)) : Serves(w)[k] = p

\* A single worker serves p.
Sole(p) == \E w \in Workers : \A v \in Workers : Serving(v, p) => v = w

Below(n, h) == \A k \in 1 .. Len(h) : n < h[k]

\* A channel is in the order of arrival, and what is numbered came before what is in it.
ChannelOrder(p) ==
  /\ IncreasingBelow(inQueue[p], arrived)
  /\ \A j \in 1 .. Len(admitted[p]) : admitted[p][j] < arrived /\ Below(admitted[p][j], inQueue[p])
  /\ Sole(p) => InArrivalOrder(p)

\* The packet in a hand came before what is in the channel and, when no other
\* worker serves its priority, after what is numbered.
HandOrder(w) ==
  pc[w] \in Carrying =>
    LET p == hand[w].priority
    IN /\ Serving(w, p)
       /\ hand[w].ts < arrived /\ Below(hand[w].ts, inQueue[p])
       /\ Sole(p) => \A j \in 1 .. Len(admitted[p]) : admitted[p][j] < hand[w].ts

ArrivalInv == (\A p \in Priority : ChannelOrder(p)) /\ (\A w \in Workers : HandOrder(w))

\* Appending to an increasing history a number above it.
LEMMA AppendAbove ==
  ASSUME NEW h \in Seq(Nat), NEW x \in Nat, NEW n \in Nat, x < n,
         \A i, j \in 1 .. Len(h) : i < j => h[i] < h[j],
         \A i \in 1 .. Len(h) : h[i] < x
  PROVE  IncreasingBelow(Append(h, x), n)
<1>. DEFINE g == Append(h, x)
<1>1. /\ Len(h) \in Nat /\ Len(g) = Len(h) + 1 /\ g[Len(h) + 1] = x
      /\ \A i \in 1 .. Len(h) : g[i] = h[i] /\ h[i] \in Nat
  OBVIOUS
<1>2. \A i \in 1 .. Len(g) : i \in 1 .. Len(h) \/ i = Len(h) + 1
  BY <1>1
<1>. HIDE DEF g
<1>3. \A i \in 1 .. Len(g) : g[i] < n
  BY <1>1, <1>2
<1>4. ASSUME NEW i \in 1 .. Len(g), NEW j \in 1 .. Len(g), i < j PROVE g[i] < g[j]
  <2>1. i \in 1 .. Len(h)
    BY <1>1, <1>2, <1>4
  <2>. QED
    BY <1>1, <1>2, <1>4, <2>1
<1>5. IncreasingBelow(g, n)
  BY <1>3, <1>4 DEF IncreasingBelow
<1>. QED
  BY <1>5 DEF g

\* What is appended to a sequence is its last element.
LEMMA AppendElements ==
  ASSUME NEW h \in Seq(Nat), NEW x \in Nat
  PROVE  \A i \in 1 .. Len(Append(h, x)) :
           \/ i \in 1 .. Len(h) /\ Append(h, x)[i] = h[i]
           \/ i = Len(h) + 1 /\ Append(h, x)[i] = x
<1>1. Len(h) \in Nat /\ Len(Append(h, x)) = Len(h) + 1
  OBVIOUS
<1>. QED
  BY <1>1

\* The rest of an increasing queue is above its head.
LEMMA TailIncreases ==
  ASSUME NEW h \in Seq(Nat), h # <<>>, NEW n \in Nat, IncreasingBelow(h, n)
  PROVE  /\ Head(h) < n
         /\ IncreasingBelow(Tail(h), n)
         /\ Below(Head(h), Tail(h))
         /\ \A x \in Nat : Below(x, h) => x < Head(h) /\ Below(x, Tail(h))
<1>. DEFINE t == Tail(h)
<1>1. /\ Len(h) \in Nat /\ Len(h) >= 1 /\ Len(t) = Len(h) - 1 /\ Head(h) = h[1]
      /\ \A i \in 1 .. Len(t) : t[i] = h[i + 1]
      /\ \A i \in 1 .. Len(h) : h[i] \in Nat
  OBVIOUS
<1>2. \A i \in 1 .. Len(t) : i + 1 \in 1 .. Len(h) /\ 1 < i + 1
  BY <1>1
<1>3. 1 \in 1 .. Len(h)
  BY <1>1
<1>. HIDE DEF t
<1>4. IncreasingBelow(t, n)
  <2>1. \A i \in 1 .. Len(t) : t[i] < n
    BY <1>1, <1>2 DEF IncreasingBelow
  <2>2. ASSUME NEW i \in 1 .. Len(t), NEW j \in 1 .. Len(t), i < j PROVE t[i] < t[j]
    <3>1. i + 1 < j + 1
      BY <2>2
    <3>. QED
      BY <1>1, <1>2, <3>1 DEF IncreasingBelow
  <2>. QED
    BY <2>1, <2>2 DEF IncreasingBelow
<1>5. Head(h) < n /\ Below(Head(h), t)
  BY <1>1, <1>2, <1>3 DEF IncreasingBelow, Below
<1>6. \A x \in Nat : Below(x, h) => x < Head(h) /\ Below(x, t)
  BY <1>1, <1>2, <1>3 DEF Below
<1>. QED
  BY <1>4, <1>5, <1>6 DEF t

LEMMA ArrivalInit == Init => ArrivalInv
<1>. SUFFICES ASSUME Init PROVE ArrivalInv
  OBVIOUS
<1>1. \A p \in Priority : inQueue[p] = <<>> /\ admitted[p] = <<>>
  BY DEF Init
<1>2. \A w \in Workers : pc[w] \notin Carrying
  BY DEF Init, Carrying
<1>. QED
  BY <1>1, <1>2 DEF ArrivalInv, ChannelOrder, HandOrder, IncreasingBelow, InArrivalOrder

\* The packet that arrives is the newest.
LEMMA ArriveKeepsOrder ==
  ASSUME WorkerTypes, ArrivalInv, NEW p \in Priority, Arrive(p)
  PROVE  ArrivalInv'
<1>1. /\ arrived \in Nat /\ arrived' = arrived + 1
      /\ inQueue[p] \in Seq(Nat) /\ inQueue'[p] = Append(inQueue[p], arrived)
      /\ \A q \in Priority \ {p} : inQueue'[q] = inQueue[q]
      /\ UNCHANGED <<admitted, pc, hand>>
  BY DEF WorkerTypes, Arrive, workerVars
<1>2. ASSUME NEW q \in Priority
      PROVE  /\ IncreasingBelow(inQueue'[q], arrived')
             /\ \A x \in Nat : x < arrived /\ Below(x, inQueue[q]) =>
                               x < arrived' /\ Below(x, inQueue'[q])
  <2>1. IncreasingBelow(inQueue[q], arrived) /\ inQueue[q] \in Seq(Nat)
    BY DEF ArrivalInv, ChannelOrder, WorkerTypes
  <2>2. \A i \in 1 .. Len(inQueue[q]) : inQueue[q][i] \in Nat
    BY <2>1
  <2>3. CASE q # p
    BY <1>1, <2>1, <2>2, <2>3 DEF IncreasingBelow
  <2>4. CASE q = p
    <3>1. IncreasingBelow(Append(inQueue[p], arrived), arrived + 1)
      BY <1>1, <2>1, <2>4, AppendAbove DEF IncreasingBelow
    <3>2. \A x \in Nat : x < arrived /\ Below(x, inQueue[p]) => Below(x, Append(inQueue[p], arrived))
      BY <1>1, AppendElements DEF Below
    <3>. DEFINE g == Append(inQueue[p], arrived)
    <3>3. inQueue'[q] = g
      BY <1>1, <2>4
    <3>4. IncreasingBelow(g, arrived + 1) /\ \A x \in Nat : x < arrived /\ Below(x, inQueue[q]) => Below(x, g)
      BY <2>4, <3>1, <3>2
    <3>. HIDE DEF g
    <3>. QED
      BY <1>1, <3>3, <3>4
  <2>. QED
    BY <2>3, <2>4
<1>3. ASSUME NEW q \in Priority PROVE ChannelOrder(q)'
  <2>1. admitted[q] \in Seq(Nat)
    BY DEF WorkerTypes
  <2>2. \A j \in 1 .. Len(admitted[q]) : admitted[q][j] \in Nat
    BY <2>1
  <2>. QED
    BY <1>1, <1>2, <2>2 DEF ArrivalInv, ChannelOrder, InArrivalOrder, Below
<1>4. ASSUME NEW w \in Workers PROVE HandOrder(w)'
  <2>1. pc[w] \in Carrying => hand[w].ts \in Nat /\ hand[w].priority \in Priority
    BY DEF WorkerTypes, Shape
  <2>. QED
    BY <1>1, <1>2, <2>1 DEF ArrivalInv, HandOrder, Below
<1>. QED
  BY <1>3, <1>4 DEF ArrivalInv

\* The packet that is received leaves its channel, and is older than the rest of it.
LEMMA ReceiveKeepsOrder ==
  ASSUME WorkerTypes, ArrivalInv, NEW w \in Workers,
         DrainReceive(w) \/ PreemptReceive(w) \/ GuardReceive(w)
  PROVE  ArrivalInv'
<1>0. PICK p \in Priority : p = hand'[w].priority
  BY ReceiveKeepsTypes
<1>1. /\ p \in Priority /\ Receive(w, p) /\ pc' \in [Workers -> Labels]
      /\ \A v \in Workers \ {w} : pc'[v] = pc[v]
  BY <1>0, ReceiveKeepsTypes DEF StepTypes, OthersKeep
<1>2. Serving(w, p)
  <2>1. CASE DrainReceive(w)
    <3>1. turn[w] \in 1 .. Len(Serves(w))
      BY <2>1, ServesPriorities DEF DrainReceive, WorkerTypes
    <3>. QED
      BY <1>0, <2>1, <3>1, ServesPriorities, ReceiveEffect DEF DrainReceive, Serving
  <2>2. CASE PreemptReceive(w) \/ GuardReceive(w)
    <3>1. p = "High"
      BY <1>0, <2>2, ServesPriorities, ReceiveEffect DEF PreemptReceive, GuardReceive
    <3>2. Serves(w)[1] = "High" /\ 1 \in 1 .. Len(Serves(w))
      BY ServesPriorities, WorkerAssumption DEF WorkerIds, Serves, Assignments
    <3>. QED
      BY <3>1, <3>2 DEF Serving
  <2>. QED
    BY <2>1, <2>2
<1>3. UNCHANGED <<arrived, admitted>>
  BY DEF DrainReceive, PreemptReceive, GuardReceive
<1>4. /\ inQueue[p] # <<>> /\ inQueue[p] \in Seq(Nat) /\ Head(inQueue[p]) \in Nat
      /\ inQueue'[p] = Tail(inQueue[p]) /\ hand'[w].ts = Head(inQueue[p])
      /\ \A q \in Priority \ {p} : inQueue'[q] = inQueue[q]
      /\ \A v \in Workers \ {w} : hand'[v] = hand[v]
  BY <1>1, ReceiveEffect DEF WorkerTypes
<1>5. /\ Head(inQueue[p]) < arrived /\ Below(Head(inQueue[p]), inQueue'[p])
      /\ IncreasingBelow(inQueue'[p], arrived)
      /\ \A x \in Nat : Below(x, inQueue[p]) => x < Head(inQueue[p]) /\ Below(x, inQueue'[p])
  <2>1. IncreasingBelow(inQueue[p], arrived) /\ arrived \in Nat
    BY <1>1 DEF ArrivalInv, ChannelOrder, WorkerTypes
  <2>. QED
    BY <1>4, <2>1, TailIncreases
<1>6. ASSUME NEW q \in Priority PROVE ChannelOrder(q)'
  <2>1. admitted[q] \in Seq(Nat)
    BY DEF WorkerTypes
  <2>2. \A j \in 1 .. Len(admitted[q]) : admitted[q][j] \in Nat
    BY <2>1
  <2>3. CASE q = p
    BY <1>3, <1>4, <1>5, <2>2, <2>3 DEF ArrivalInv, ChannelOrder, InArrivalOrder
  <2>4. CASE q # p
    BY <1>3, <1>4, <2>4 DEF ArrivalInv, ChannelOrder, InArrivalOrder
  <2>. QED
    BY <2>3, <2>4
<1>7. ASSUME NEW v \in Workers PROVE HandOrder(v)'
  <2>1. CASE v = w
    <3>1. admitted[p] \in Seq(Nat)
      BY <1>1 DEF WorkerTypes
    <3>2. \A j \in 1 .. Len(admitted[p]) : admitted[p][j] < Head(inQueue[p])
      BY <1>1, <1>5, <3>1 DEF ArrivalInv, ChannelOrder
    <3>. QED
      BY <1>2, <1>3, <1>4, <1>5, <2>1, <1>0, <3>2 DEF HandOrder
  <2>2. CASE v # w
    <3>1. pc[v] \in Carrying => hand[v].ts \in Nat /\ hand[v].priority \in Priority
      BY DEF WorkerTypes, Shape
    <3>2. pc'[v] = pc[v] /\ hand'[v] = hand[v]
      BY <1>1, <1>4, <2>2
    <3>. QED
      <4>1. SUFFICES ASSUME pc[v] \in Carrying PROVE HandOrder(v)'
        BY <3>2 DEF HandOrder
      <4>2. CASE hand[v].priority = p
        <5>1. /\ Serving(v, p) /\ hand[v].ts < arrived /\ Below(hand[v].ts, inQueue'[p])
              /\ Sole(p) => \A j \in 1 .. Len(admitted[p]) : admitted[p][j] < hand[v].ts
          BY <1>5, <3>1, <4>1, <4>2 DEF ArrivalInv, HandOrder
        <5>. QED
          BY <1>3, <3>2, <4>2, <5>1 DEF HandOrder, Sole, Serving
      <4>3. CASE hand[v].priority # p
        BY <1>3, <1>4, <3>1, <3>2, <4>1, <4>3 DEF ArrivalInv, HandOrder, Sole, Serving
      <4>. QED
        BY <4>2, <4>3
  <2>. QED
    BY <2>1, <2>2
<1>. QED
  BY <1>6, <1>7 DEF ArrivalInv

\* The packet that is numbered came after all that a sole worker has numbered.
LEMMA AdmitKeepsOrder ==
  ASSUME WorkerTypes, ArrivalInv, NEW w \in Workers,
         DrainAdmit(w) \/ PreemptAdmit(w) \/ GuardAdmit(w)
  PROVE  ArrivalInv'
<1>1. pc[w] \in Carrying /\ Prepare(w) /\ \A v \in Workers \ {w} : pc'[v] = pc[v]
  BY AdmitKeepsTypes DEF OthersKeep
<1>2. PICK p \in Priority, ts \in Nat : p = hand[w].priority /\ ts = hand[w].ts
  BY <1>1 DEF WorkerTypes, Shape
<1>3. /\ admitted[p] \in Seq(Nat) /\ admitted'[p] = Append(admitted[p], ts)
      /\ \A q \in Priority \ {p} : admitted'[q] = admitted[q]
      /\ \A v \in Workers \ {w} : hand'[v] = hand[v]
  BY <1>1, <1>2, PrepareEffect DEF WorkerTypes
<1>4. UNCHANGED <<arrived, inQueue>>
  BY DEF DrainAdmit, PreemptAdmit, GuardAdmit
<1>5. /\ Serving(w, p) /\ ts < arrived /\ Below(ts, inQueue[p])
      /\ Sole(p) => \A j \in 1 .. Len(admitted[p]) : admitted[p][j] < ts
  BY <1>1, <1>2 DEF ArrivalInv, HandOrder
<1>6. pc'[w] \notin Carrying
  BY DEF WorkerTypes, DrainAdmit, PreemptAdmit, GuardAdmit, Goto, GuardOrProcess, Carrying
<1>7. \A j \in 1 .. Len(admitted'[p]) :
        \/ j \in 1 .. Len(admitted[p]) /\ admitted'[p][j] = admitted[p][j]
        \/ admitted'[p][j] = ts
  BY <1>2, <1>3, AppendElements
<1>8. ASSUME NEW q \in Priority PROVE ChannelOrder(q)'
  <2>1. CASE q # p
    BY <1>3, <1>4, <2>1 DEF ArrivalInv, ChannelOrder, InArrivalOrder
  <2>2. CASE q = p
    <3>1. Sole(p) => InArrivalOrder(p)'
      <4>1. SUFFICES ASSUME Sole(p) PROVE InArrivalOrder(p)'
        OBVIOUS
      <4>2. InArrivalOrder(p)
        BY <1>2, <4>1 DEF ArrivalInv, ChannelOrder
      <4>3. IncreasingBelow(Append(admitted[p], ts), ts + 1)
        <5>1. \A i, j \in 1 .. Len(admitted[p]) : i < j => admitted[p][i] < admitted[p][j]
          BY <4>2 DEF InArrivalOrder
        <5>2. ts + 1 \in Nat /\ ts < ts + 1
          BY <1>2
        <5>. QED
          BY <1>2, <1>3, <1>5, <4>1, <5>1, <5>2, AppendAbove
      <4>. DEFINE g == Append(admitted[p], ts)
      <4>4. admitted'[p] = g /\ IncreasingBelow(g, ts + 1)
        BY <1>3, <4>3
      <4>. HIDE DEF g
      <4>. QED
        BY <4>4 DEF IncreasingBelow, InArrivalOrder
    <3>2. \A j \in 1 .. Len(admitted'[p]) :
            admitted'[p][j] < arrived /\ Below(admitted'[p][j], inQueue[p])
      BY <1>2, <1>5, <1>7 DEF ArrivalInv, ChannelOrder
    <3>. QED
      BY <1>2, <1>4, <2>2, <3>1, <3>2 DEF ArrivalInv, ChannelOrder, Sole, Serving
  <2>. QED
    BY <2>1, <2>2
<1>9. ASSUME NEW v \in Workers PROVE HandOrder(v)'
  <2>1. CASE v = w
    BY <1>6, <2>1 DEF HandOrder
  <2>2. CASE v # w
    <3>1. pc'[v] = pc[v] /\ hand'[v] = hand[v]
      BY <1>1, <1>3, <2>2
    <3>2. SUFFICES ASSUME pc[v] \in Carrying PROVE HandOrder(v)'
      BY <3>1 DEF HandOrder
    <3>3. CASE hand[v].priority # p
      <4>1. hand[v].priority \in Priority
        BY <3>2 DEF WorkerTypes, Shape
      <4>. QED
        BY <1>3, <1>4, <3>1, <3>2, <3>3, <4>1 DEF ArrivalInv, HandOrder
    <3>4. CASE hand[v].priority = p
      <4>1. Serving(v, p)
        BY <3>2, <3>4 DEF ArrivalInv, HandOrder
      <4>2. ~Sole(p)
        BY <1>5, <2>2, <4>1 DEF Sole
      <4>. QED
        BY <1>4, <3>1, <3>2, <3>4, <4>2 DEF ArrivalInv, HandOrder
    <3>. QED
      BY <3>3, <3>4
  <2>. QED
    BY <2>1, <2>2
<1>. QED
  BY <1>8, <1>9 DEF ArrivalInv

\* All other steps leave the channels, the hands and the numbers alone.
LEMMA RestKeepsOrder ==
  ASSUME ArrivalInv, UNCHANGED <<arrived, inQueue, admitted, hand>>,
         \A v \in Workers : pc'[v] \in Carrying => pc[v] \in Carrying
  PROVE  ArrivalInv'
<1>1. \A p \in Priority : ChannelOrder(p)'
  BY DEF ArrivalInv, ChannelOrder, InArrivalOrder
<1>2. \A v \in Workers : HandOrder(v)'
  BY DEF ArrivalInv, HandOrder
<1>. QED
  BY <1>1, <1>2 DEF ArrivalInv

LEMMA ArrivalStep == WorkerTypes /\ ArrivalInv /\ [Next]_vars => ArrivalInv'
<1>. SUFFICES ASSUME WorkerTypes, ArrivalInv, [Next]_vars PROVE ArrivalInv'
  OBVIOUS
<1>1. ASSUME NEW w \in Workers, WorkerStep(w) PROVE ArrivalInv'
  <2>1. CASE DrainReceive(w) \/ PreemptReceive(w) \/ GuardReceive(w)
    BY <2>1, ReceiveKeepsOrder
  <2>2. CASE DrainAdmit(w) \/ PreemptAdmit(w) \/ GuardAdmit(w)
    BY <2>2, AdmitKeepsOrder
  <2>3. CASE \/ Top(w) \/ Exit(w) \/ ReadLimit(w) \/ DrainNext(w) \/ SelectNone(w) \/ Select(w)
             \/ PreemptEnd(w) \/ GuardEnd(w) \/ Process(w) \/ EmitNext(w) \/ EmitEnd(w)
    <3>1. UNCHANGED <<arrived, inQueue, admitted, hand>>
      BY <2>3 DEF Top, Exit, ReadLimit, DrainNext, SelectNone, Select, PreemptEnd, GuardEnd,
                  Process, EmitNext, EmitEnd, workerVars
    <3>2. pc' = pc \/ \E l : l \notin Carrying /\ pc' = [pc EXCEPT ![w] = l]
      BY <2>3 DEF Top, Exit, ReadLimit, DrainNext, SelectNone, Select, PreemptEnd, GuardEnd,
                  Process, EmitNext, EmitEnd, EndIteration, Goto, GuardOrProcess, Carrying, workerVars
    <3>3. \A v \in Workers : pc'[v] \in Carrying => pc[v] \in Carrying
      BY <3>2 DEF WorkerTypes
    <3>. QED
      BY <3>1, <3>3, RestKeepsOrder
  <2>. QED
    BY <1>1, <2>1, <2>2, <2>3 DEF WorkerStep
<1>2. ASSUME NEW p \in Priority, Arrive(p) PROVE ArrivalInv'
  BY <1>2, ArriveKeepsOrder
<1>3. CASE \/ \E p \in Priority : EgressTake(p)
           \/ Stop \/ ReadCounter \/ StartRebalance \/ PublishQuota \/ UNCHANGED vars
  BY <1>3, RestKeepsOrder DEF EgressTake, Stop, ReadCounter, StartRebalance, PublishQuota, vars, workerVars
<1>. QED
  BY <1>1, <1>2, <1>3 DEF Next

(***************************************************************************)
(* For any traffic and quotas, a priority that a single worker serves gets *)
(* its sequence numbers in the order of arrival: by WorkersImplementFifo it*)
(* then leaves the scheduler in that order (try_recv and prepare).         *)
(***************************************************************************)
THEOREM SingleWorkerFifoHolds == Spec => []SingleWorkerFifo
<1>1. ArrivalInv => SingleWorkerFifo
  BY DEF ArrivalInv, ChannelOrder, SingleWorkerFifo, Sole, Serving
<1>. QED
  BY <1>1, ArrivalInit, ArrivalStep, TypesHold, PTL DEF Spec

-----------------------------------------------------------------------------
(* The items the workers hold, their numbers and their quotas. *)

SameNumber(i, j) == i.priority = j.priority /\ i.sequence = j.sequence

\* The numbers of what a worker holds are its own and in flight.
Numbered(w) ==
  /\ IsFiniteSet(heap[w])
  /\ \A i \in Held(w) :
       /\ i.sequence < nextSequence[i.priority]
       /\ i.sequence \in inFlight[i.priority]
  /\ \A i, j \in Held(w) : SameNumber(i, j) => i = j

\* No two workers hold one number.
Apart(v, w) == \A i \in Held(v), j \in Held(w) : ~SameNumber(i, j)

\* What a worker holds came before what its channel holds.
Older(i) == i.ts < arrived /\ Below(i.ts, inQueue[i.priority])

\* The current item is out of the heap; it is the one that was popped or a High
\* one, which no later packet displaces; there is room for what is in the hand.
Placed(w) ==
  /\ pc[w] \in Selected =>
       /\ current[w] \notin heap[w]
       /\ current[w].priority \in {"High", initial[w]}
  /\ pc[w] \in {"guard", "guardAdmit"} => current[w].priority \in {"Medium", "Low"}
  /\ pc[w] = "preemptAdmit" /\ current[w].priority = "High" => current[w].ts < hand[w].ts
  /\ pc[w] \in Carrying => ~Full(w, hand[w].priority)

ItemInv ==
  \A w \in Workers :
    /\ Numbered(w) /\ Placed(w)
    /\ \A i \in Held(w) : Older(i)
    /\ \A v \in Workers \ {w} : Apart(v, w)

\* The worker is about to put a displaced packet back into its heap.
Requeues(w) ==
  \/ pc[w] = "guardAdmit"
  \/ pc[w] = "preemptAdmit" /\ Deadline(Prepared(w)) < Deadline(current[w])

\* An item that is pushed changes the count of its priority by one.
LEMMA PushCounts ==
  ASSUME NEW w \in Workers, IsFiniteSet(heap[w]), NEW x \in Item, x \notin heap[w],
         heap'[w] = heap[w] \cup {x}, NEW p \in Priority
  PROVE  /\ x.priority = p => Count(heap'[w], p) = Count(heap[w], p) + 1
         /\ x.priority # p => Count(heap'[w], p) = Count(heap[w], p)
<1>. DEFINE T == {i \in heap[w] : i.priority = p}
            U == {i \in heap'[w] : i.priority = p}
<1>1. IsFiniteSet(T) /\ x \notin T
  BY FS_Subset
<1>2. x.priority # p => U = T
  OBVIOUS
<1>3. x.priority = p => U = T \cup {x}
  OBVIOUS
<1>4. Count(heap[w], p) = Cardinality(T) /\ Count(heap'[w], p) = Cardinality(U)
  BY DEF Count
<1>. HIDE DEF T, U
<1>5. Cardinality(T \cup {x}) = Cardinality(T) + 1
  BY <1>1, FS_AddElement
<1>. QED
  BY <1>2, <1>3, <1>4, <1>5

\* So does one that is popped.
LEMMA PopCounts ==
  ASSUME NEW w \in Workers, IsFiniteSet(heap[w]), NEW x \in Item, x \in heap[w],
         heap'[w] = heap[w] \ {x}, NEW p \in Priority
  PROVE  /\ x.priority = p => Count(heap'[w], p) = Count(heap[w], p) - 1
         /\ x.priority # p => Count(heap'[w], p) = Count(heap[w], p)
<1>. DEFINE T == {i \in heap[w] : i.priority = p}
            U == {i \in heap'[w] : i.priority = p}
<1>1. IsFiniteSet(T)
  BY FS_Subset
<1>2. x.priority # p => U = T
  OBVIOUS
<1>3. x.priority = p => x \in T /\ U = T \ {x}
  OBVIOUS
<1>4. Count(heap[w], p) = Cardinality(T) /\ Count(heap'[w], p) = Cardinality(U)
  BY DEF Count
<1>. HIDE DEF T, U
<1>5. x \in T => Cardinality(T \ {x}) = Cardinality(T) - 1
  BY <1>1, FS_RemoveElement
<1>. QED
  BY <1>2, <1>3, <1>4, <1>5

\* A packet that is numbered always fits; one that is displaced may not.
LEMMA AdmitEffect ==
  ASSUME WorkerTypes, NEW w \in Workers, Numbered(w), Placed(w),
         DrainAdmit(w) \/ PreemptAdmit(w) \/ GuardAdmit(w)
  PROVE  /\ limits' = limits /\ initial' = initial
         /\ \/ /\ ~Requeues(w) /\ Fits(w, hand[w].priority)
               /\ heap'[w] = heap[w] \cup {Prepared(w)} /\ current'[w] = current[w]
               /\ counters'[w] = [counters[w] EXCEPT ![hand[w].priority] = @ + 1]
               /\ \/ pc[w] = "admit" /\ pc'[w] = "drain"
                  \/ pc[w] = "preemptAdmit" /\ pc'[w] = "preempt"
            \/ /\ Requeues(w)
               /\ heap'[w] = IF Fits(w, current[w].priority)
                             THEN heap[w] \cup {current[w]} ELSE heap[w]
               /\ current'[w] = Prepared(w)
               /\ counters'[w] = [counters[w] EXCEPT ![initial[w]] = @ + 1]
               /\ pc[w] \in Selected /\ pc'[w] \in {"preempt", "process"}
               /\ hand[w].priority = "High"
<1>1. pc[w] \in Carrying /\ hand[w].priority \in Priority /\ hand[w].priority \in Priorities
  BY WorkerAssumption DEF DrainAdmit, PreemptAdmit, GuardAdmit, Carrying, WorkerTypes, Shape
<1>2. Fits(w, hand[w].priority)
  <2>1. ~Full(w, hand[w].priority)
    BY <1>1 DEF Placed
  <2>2. limits[w].of[hand[w].priority] \in Nat /\ Count(heap[w], hand[w].priority) \in Nat
    <3>1. IsFiniteSet({i \in heap[w] : i.priority = hand[w].priority})
      BY FS_Subset DEF Numbered
    <3>2. limits[w].of \in [Priorities -> Nat]
      BY DEF WorkerTypes
    <3>. QED
      BY <1>1, <3>1, <3>2, FS_CardinalityType DEF Count
  <2>. QED
    BY <2>1, <2>2 DEF Fits, Full
<1>3. CASE DrainAdmit(w)
  BY <1>1, <1>2, <1>3 DEF DrainAdmit, WorkerTypes, Goto, Requeues
<1>4. CASE PreemptAdmit(w)
  <2>1. hand[w].priority = "High" /\ pc[w] = "preemptAdmit"
    BY <1>4 DEF PreemptAdmit, WorkerTypes, Shape
  <2>2. CASE Deadline(Prepared(w)) < Deadline(current[w])
    <3>1. Requeues(w) /\ Requeue(w) /\ Goto(w, "preempt")
      BY <1>4, <2>1, <2>2 DEF PreemptAdmit, Requeues
    <3>. QED
      BY <1>4, <2>1, <3>1 DEF PreemptAdmit, Requeue, Goto, WorkerTypes, Selected
  <2>3. CASE ~(Deadline(Prepared(w)) < Deadline(current[w]))
    BY <1>2, <1>4, <2>1, <2>3 DEF PreemptAdmit, Requeues, Goto, WorkerTypes
  <2>. QED
    BY <2>2, <2>3
<1>5. CASE GuardAdmit(w)
  BY <1>5 DEF GuardAdmit, Requeue, Requeues, Goto, WorkerTypes, Shape, Selected
<1>. QED
  BY <1>3, <1>4, <1>5

\* What a step of a worker does to what it holds.
LEMMA HeldEffect ==
  ASSUME WorkerTypes, NEW w \in Workers, Numbered(w), Placed(w), WorkerStep(w)
  PROVE  \/ /\ Held(w)' = Held(w) \/ (pc'[w] = "done" /\ Held(w)' = {})
            /\ nextSequence' = nextSequence /\ inFlight' = inFlight
         \/ /\ pc[w] \in Carrying /\ Prepare(w) /\ inQueue' = inQueue /\ arrived' = arrived
            /\ Held(w)' \subseteq Held(w) \cup {Prepared(w)}
            /\ (Requeues(w) => Fits(w, current[w].priority))
                 => Held(w)' = Held(w) \cup {Prepared(w)}
         \/ /\ pc[w] = "process" /\ Held(w)' = Held(w) \ {current[w]}
            /\ nextSequence' = nextSequence /\ current[w] \in Held(w)
            /\ inFlight' = [inFlight EXCEPT ![current[w].priority] = @ \ {current[w].sequence}]
<1>0. Held(w) = heap[w] \cup (IF pc[w] \in Selected THEN {current[w]} ELSE {})
  BY DEF Held, Selected
<1>00. Held(w)' = heap'[w] \cup (IF pc'[w] \in Selected THEN {current'[w]} ELSE {})
  BY DEF Held, Selected
<1>1. CASE \/ Top(w) \/ ReadLimit(w) \/ DrainNext(w) \/ SelectNone(w)
           \/ PreemptEnd(w) \/ GuardEnd(w)
           \/ DrainReceive(w) \/ PreemptReceive(w) \/ GuardReceive(w)
  <2>1. /\ nextSequence' = nextSequence /\ inFlight' = inFlight
        /\ heap' = heap /\ current' = current
    BY <1>1 DEF Top, ReadLimit, DrainNext, SelectNone, PreemptEnd, GuardEnd, DrainReceive,
                PreemptReceive, GuardReceive, routerVars
  <2>2. pc'[w] \in Selected <=> pc[w] \in Selected
    BY <1>1 DEF Top, ReadLimit, DrainNext, SelectNone, PreemptEnd, GuardEnd, DrainReceive,
                PreemptReceive, GuardReceive, WorkerTypes, Goto, Selected, GuardOrProcess
  <2>3. heap'[w] = heap[w] /\ current'[w] = current[w]
    BY <2>1
  <2>4. CASE pc[w] \in Selected
    BY <1>0, <1>00, <2>1, <2>2, <2>3, <2>4
  <2>5. CASE pc[w] \notin Selected
    BY <1>0, <1>00, <2>1, <2>2, <2>3, <2>5
  <2>. QED
    BY <2>4, <2>5
<1>2. CASE Exit(w)
  BY <1>00, <1>2 DEF Exit, Goto, WorkerTypes, Selected, routerVars
<1>3. CASE Select(w)
  <2>1. /\ current'[w] \in heap[w] /\ heap'[w] = heap[w] \ {current'[w]} /\ pc'[w] \in Selected
        /\ pc[w] \notin Selected /\ nextSequence' = nextSequence /\ inFlight' = inFlight
    BY <1>3, SelectKeepsTypes DEF Earliest, Selected, Select, routerVars
  <2>2. Held(w) = heap[w] /\ Held(w)' = (heap[w] \ {current'[w]}) \cup {current'[w]}
    BY <1>0, <1>00, <2>1
  <2>3. Held(w)' = Held(w)
    BY <2>1, <2>2
  <2>. QED
    BY <2>1, <2>3
<1>4. CASE DrainAdmit(w) \/ PreemptAdmit(w) \/ GuardAdmit(w)
  <2>1. pc[w] \in Carrying /\ Prepare(w) /\ inQueue' = inQueue /\ arrived' = arrived
    BY <1>4, AdmitKeepsTypes DEF DrainAdmit, PreemptAdmit, GuardAdmit
  <2>2. pc[w] = "preemptAdmit" => pc[w] \in Selected
    BY DEF Selected
  <2>3. pc[w] = "admit" => pc[w] \notin Selected
    BY DEF Selected
  <2>4. "preempt" \in Selected /\ "process" \in Selected /\ "drain" \notin Selected
    BY DEF Selected
  <2>. QED
    BY <1>0, <1>00, <1>4, <2>1, <2>2, <2>3, <2>4, AdmitEffect
<1>5. CASE Process(w)
  <2>1. /\ pc[w] = "process" /\ pc'[w] \notin Selected /\ heap' = heap
        /\ nextSequence' = nextSequence
        /\ inFlight' = [inFlight EXCEPT ![current[w].priority] = @ \ {current[w].sequence}]
    BY <1>5 DEF Process, CompleteNext, CompleteEarly, EndIteration, Goto, WorkerTypes, Selected
  <2>2. current[w] \notin heap[w] /\ pc[w] \in Selected
    BY <2>1 DEF Placed, Selected
  <2>. QED
    BY <1>0, <1>00, <2>1, <2>2
<1>6. CASE EmitNext(w) \/ EmitEnd(w)
  <2>1. /\ pc[w] \notin Selected /\ pc'[w] \notin Selected
        /\ nextSequence' = nextSequence /\ inFlight' = inFlight /\ heap' = heap
    BY <1>6 DEF EmitNext, EmitEnd, Cascade, Release, EndIteration, Goto, WorkerTypes, Selected,
                workerVars
  <2>2. Held(w) = heap[w] /\ Held(w)' = heap'[w]
    BY <1>0, <1>00, <2>1
  <2>. QED
    BY <2>1, <2>2
<1>. QED
  BY <1>1, <1>2, <1>3, <1>4, <1>5, <1>6 DEF WorkerStep


LEMMA HeldType ==
  ASSUME WorkerTypes, NEW w \in Workers
  PROVE  Held(w) \in SUBSET Item
BY DEF WorkerTypes, Shape, Held, Selected

LEMMA HeldOfOthers ==
  ASSUME NEW w \in Workers, OthersKeep(w), NEW v \in Workers \ {w}
  PROVE  Held(v)' = Held(v)
BY DEF OthersKeep, Held

\* A channel never receives anything older than it has.
LEMMA QueueEffect ==
  ASSUME WorkerTypes, ArrivalInv, [Next]_vars, NEW q \in Priority, NEW x \in Nat,
         x < arrived, Below(x, inQueue[q])
  PROVE  x < arrived' /\ Below(x, inQueue'[q])
<1>0. inQueue[q] \in Seq(Nat) /\ IncreasingBelow(inQueue[q], arrived) /\ arrived \in Nat
  BY DEF WorkerTypes, ArrivalInv, ChannelOrder
<1>1. ASSUME NEW p \in Priority, Arrive(p) PROVE x < arrived' /\ Below(x, inQueue'[q])
  <2>1. /\ arrived' = arrived + 1 /\ inQueue \in [Priority -> Seq(Nat)]
        /\ inQueue' = [inQueue EXCEPT ![p] = Append(@, arrived)]
    BY <1>1 DEF Arrive, WorkerTypes
  <2>2. CASE q = p
    <3>. DEFINE g == Append(inQueue[q], arrived)
    <3>1. inQueue'[q] = g
      BY <2>1, <2>2
    <3>2. \A i \in 1 .. Len(g) : (i \in 1 .. Len(inQueue[q]) /\ g[i] = inQueue[q][i]) \/ g[i] = arrived
      BY <1>0, AppendElements
    <3>. HIDE DEF g
    <3>. QED
      BY <1>0, <2>1, <3>1, <3>2 DEF Below
  <2>3. CASE q # p
    BY <1>0, <2>1, <2>3
  <2>. QED
    BY <2>2, <2>3
<1>2. ASSUME NEW w \in Workers, DrainReceive(w) \/ PreemptReceive(w) \/ GuardReceive(w)
      PROVE  x < arrived' /\ Below(x, inQueue'[q])
  <2>1. PICK p \in Priority : Receive(w, p)
    BY <1>2, ReceiveKeepsTypes
  <2>2. arrived' = arrived
    BY <1>2 DEF DrainReceive, PreemptReceive, GuardReceive
  <2>3. /\ inQueue[p] # <<>> /\ inQueue'[p] = Tail(inQueue[p])
        /\ \A r \in Priority \ {p} : inQueue'[r] = inQueue[r]
    BY <2>1, ReceiveEffect
  <2>4. q = p => Below(x, Tail(inQueue[q]))
    BY <1>0, <2>3, TailIncreases
  <2>. QED
    BY <2>2, <2>3, <2>4
<1>3. ASSUME NEW w \in Workers,
             \/ Top(w) \/ Exit(w) \/ ReadLimit(w) \/ DrainNext(w) \/ SelectNone(w) \/ Select(w)
             \/ PreemptEnd(w) \/ GuardEnd(w) \/ Process(w) \/ EmitNext(w) \/ EmitEnd(w)
             \/ DrainAdmit(w) \/ PreemptAdmit(w) \/ GuardAdmit(w)
      PROVE  x < arrived' /\ Below(x, inQueue'[q])
  <2>1. arrived' = arrived /\ inQueue' = inQueue
    BY <1>3 DEF Top, Exit, ReadLimit, DrainNext, SelectNone, Select, PreemptEnd, GuardEnd,
                Process, EmitNext, EmitEnd, DrainAdmit, PreemptAdmit, GuardAdmit
  <2>. QED
    BY <2>1
<1>4. CASE \/ \E p \in Priority : EgressTake(p)
           \/ Stop \/ ReadCounter \/ StartRebalance \/ PublishQuota \/ UNCHANGED vars
  <2>1. arrived' = arrived /\ inQueue' = inQueue
    BY <1>4 DEF EgressTake, Stop, ReadCounter, StartRebalance, PublishQuota, vars
  <2>. QED
    BY <2>1
<1>. QED
  BY <1>1, <1>2, <1>3, <1>4 DEF Next, WorkerStep

\* What is held stays older than what its channel holds.
LEMMA OlderStep ==
  ASSUME WorkerTypes, ArrivalInv, ItemInv, NEW w \in Workers, WorkerStep(w), NEW v \in Workers
  PROVE  \A i \in Held(v)' : Older(i)'
<1>1. ASSUME NEW u \in Workers, NEW i \in Held(u) PROVE Older(i)'
  <2>1. i \in Item /\ i.priority \in Priority /\ i.ts \in Nat
    BY HeldType DEF Item
  <2>2. i.ts < arrived /\ Below(i.ts, inQueue[i.priority])
    BY DEF ItemInv, Older
  <2>. QED
    BY <2>1, <2>2, QueueEffect DEF Older, Next
<1>2. CASE v # w
  BY <1>1, <1>2, WorkerTypesStep, HeldOfOthers
<1>3. CASE v = w
  <2>1. Numbered(w) /\ Placed(w)
    BY DEF ItemInv
  <2>2. CASE Held(w)' \subseteq Held(w)
    BY <1>1, <1>3, <2>2
  <2>3. CASE /\ pc[w] \in Carrying /\ Held(w)' \subseteq Held(w) \cup {Prepared(w)}
             /\ inQueue' = inQueue /\ arrived' = arrived
    <3>1. PICK i \in Item : i = Prepared(w)
      BY <2>3, PreparedIs
    <3>2. Older(i)
      BY <2>3, <3>1, PreparedIs DEF ArrivalInv, HandOrder, Older
    <3>3. Older(i)'
      BY <2>3, <3>2 DEF Older
    <3>. QED
      BY <1>1, <1>3, <2>3, <3>1, <3>3
  <2>. QED
    BY <2>1, <2>2, <2>3, HeldEffect
<1>. QED
  BY <1>2, <1>3

\* A worker's numbers stay its own.
LEMMA NumbersStep ==
  ASSUME WorkerTypes, TypeOK, ItemInv, NEW w \in Workers, WorkerStep(w)
  PROVE  /\ \A v \in Workers : \A i \in Held(v)' :
              /\ i.sequence < nextSequence'[i.priority]
              /\ i.sequence \in inFlight'[i.priority]
         /\ \A v \in Workers : \A i, j \in Held(v)' : SameNumber(i, j) => i = j
         /\ \A v, u \in Workers : v # u => \A i \in Held(v)', j \in Held(u)' : ~SameNumber(i, j)
<1>1. Numbered(w) /\ Placed(w)
  BY DEF ItemInv
<1>2. \A v \in Workers \ {w} : Held(v)' = Held(v)
  BY WorkerTypesStep, HeldOfOthers
<1>3. \A v \in Workers : Held(v) \in SUBSET Item
  BY HeldType
<1>4. \A v \in Workers : \A i \in Held(v) :
        /\ i.priority \in Priority /\ i.sequence \in Nat
        /\ i.sequence < nextSequence[i.priority] /\ i.sequence \in inFlight[i.priority]
  BY <1>3 DEF ItemInv, Numbered, Item
<1>5. /\ \A v \in Workers : \A i, j \in Held(v) : SameNumber(i, j) => i = j
      /\ \A v, u \in Workers : v # u => \A i \in Held(v), j \in Held(u) : ~SameNumber(i, j)
  BY DEF ItemInv, Numbered, Apart
<1>6. CASE /\ Held(w)' = Held(w) \/ Held(w)' = {}
           /\ nextSequence' = nextSequence /\ inFlight' = inFlight
  <2>1. \A v \in Workers : Held(v)' \subseteq Held(v)
    BY <1>2, <1>6
  <2>2. \A v \in Workers : \A i \in Held(v)' :
          i.sequence < nextSequence'[i.priority] /\ i.sequence \in inFlight'[i.priority]
    BY <1>4, <1>6, <2>1
  <2>. QED
    BY <1>5, <2>1, <2>2
<1>7. CASE /\ pc[w] \in Carrying /\ Prepare(w)
           /\ Held(w)' \subseteq Held(w) \cup {Prepared(w)}
  <2>1. PICK n \in Item :
          /\ n = Prepared(w) /\ n.priority \in Priority
          /\ n.sequence = nextSequence[n.priority] /\ n.priority = hand[w].priority
    BY <1>7, PreparedIs
  <2>2. /\ nextSequence \in [Priority -> Nat] /\ inFlight \in [Priority -> SUBSET Sequence]
        /\ nextSequence' = [nextSequence EXCEPT ![n.priority] = @ + 1]
        /\ inFlight' = [inFlight EXCEPT ![n.priority] = @ \cup {n.sequence}]
    <3>1. nextSequence \in [Priority -> Nat] /\ inFlight \in [Priority -> SUBSET Sequence]
      BY DEF TypeOK, WorkerTypes
    <3>2. /\ nextSequence' = [nextSequence EXCEPT ![hand[w].priority] = @ + 1]
          /\ inFlight' = [inFlight EXCEPT ![hand[w].priority]
                                         = @ \cup {nextSequence[hand[w].priority]}]
      BY <1>7, PrepareEffect
    <3>. QED
      BY <2>1, <3>1, <3>2
  <2>3. \A q \in Priority, s \in Nat :
          /\ s < nextSequence[q] => s < nextSequence'[q]
          /\ s \in inFlight[q] => s \in inFlight'[q]
    BY <2>1, <2>2
  <2>4. n.sequence < nextSequence'[n.priority] /\ n.sequence \in inFlight'[n.priority]
    BY <2>1, <2>2
  <2>5. \A v \in Workers : \A i \in Held(v) : ~SameNumber(i, n) /\ ~SameNumber(n, i)
    BY <1>4, <2>1, <2>2 DEF SameNumber
  <2>6. \A v \in Workers : \A i \in Held(v)' : i \in Held(v) \/ (v = w /\ i = n)
    BY <1>2, <1>7, <2>1
  <2>7. \A v \in Workers : \A i \in Held(v)' :
          i.sequence < nextSequence'[i.priority] /\ i.sequence \in inFlight'[i.priority]
    BY <1>4, <2>3, <2>4, <2>6
  <2>8. \A v \in Workers : \A i, j \in Held(v)' : SameNumber(i, j) => i = j
    BY <1>5, <2>5, <2>6
  <2>9. \A v, u \in Workers : v # u => \A i \in Held(v)', j \in Held(u)' : ~SameNumber(i, j)
    BY <1>5, <2>5, <2>6
  <2>. QED
    BY <2>7, <2>8, <2>9
<1>8. CASE /\ pc[w] = "process" /\ Held(w)' = Held(w) \ {current[w]}
           /\ nextSequence' = nextSequence /\ current[w] \in Held(w)
           /\ inFlight' = [inFlight EXCEPT ![current[w].priority] = @ \ {current[w].sequence}]
  <2>1. PICK c \in Held(w) : c = current[w]
    BY <1>8
  <2>2. /\ inFlight \in [Priority -> SUBSET Sequence] /\ c.priority \in Priority
        /\ inFlight' = [inFlight EXCEPT ![c.priority] = @ \ {c.sequence}]
    BY <1>4, <1>8, <2>1 DEF TypeOK
  <2>3. \A v \in Workers : \A i \in Held(v)' : i \in Held(v) /\ ~SameNumber(i, c)
    BY <1>2, <1>5, <1>8, <2>1
  <2>4. \A v \in Workers : \A i \in Held(v)' :
          i.sequence < nextSequence'[i.priority] /\ i.sequence \in inFlight'[i.priority]
    BY <1>4, <1>8, <2>2, <2>3 DEF SameNumber
  <2>. QED
    BY <1>5, <2>3, <2>4
<1>. QED
  BY <1>1, <1>6, <1>7, <1>8, HeldEffect

LEMMA HeapStaysFinite ==
  ASSUME WorkerTypes, NEW w \in Workers, Numbered(w), Placed(w), WorkerStep(w)
  PROVE  IsFiniteSet(heap'[w])
<1>1. IsFiniteSet(heap[w])
  BY DEF Numbered
<1>2. CASE DrainAdmit(w) \/ PreemptAdmit(w) \/ GuardAdmit(w)
  <2>1. heap'[w] = heap[w] \/ \E x : heap'[w] = heap[w] \cup {x}
    BY <1>2, AdmitEffect
  <2>. QED
    BY <1>1, <2>1, FS_AddElement
<1>3. CASE Select(w)
  <2>1. heap'[w] = heap[w] \ {current'[w]}
    BY <1>3, SelectKeepsTypes
  <2>. QED
    BY <1>1, <2>1, FS_Subset
<1>4. CASE Exit(w)
  BY <1>4, FS_EmptySet DEF Exit, WorkerTypes
<1>5. CASE \/ Top(w) \/ ReadLimit(w) \/ DrainNext(w) \/ SelectNone(w)
           \/ PreemptEnd(w) \/ GuardEnd(w) \/ Process(w) \/ EmitNext(w) \/ EmitEnd(w)
           \/ DrainReceive(w) \/ PreemptReceive(w) \/ GuardReceive(w)
  <2>1. heap' = heap
    BY <1>5 DEF Top, ReadLimit, DrainNext, SelectNone, PreemptEnd, GuardEnd, DrainReceive,
                PreemptReceive, GuardReceive, Process, EmitNext, EmitEnd, workerVars
  <2>. QED
    BY <1>1, <2>1
<1>. QED
  BY <1>2, <1>3, <1>4, <1>5 DEF WorkerStep

\* The place of the current item and the room for the one in the hand.
LEMMA PlacedStep ==
  ASSUME WorkerTypes, ArrivalInv, ItemInv, NEW w \in Workers, WorkerStep(w)
  PROVE  Placed(w)'
<1>1. Numbered(w) /\ Placed(w) /\ Shape(w)
  BY DEF ItemInv, WorkerTypes
<1>2. CASE DrainAdmit(w) \/ PreemptAdmit(w) \/ GuardAdmit(w)
  <2>1. PICK n \in Item : n = Prepared(w) /\ n.priority = hand[w].priority
                          /\ n.sequence = nextSequence[n.priority]
    BY <1>2, AdmitKeepsTypes, PreparedIs
  <2>2. n \notin Held(w)
    BY <1>1, <2>1 DEF Numbered, Item, WorkerTypes
  <2>3. n \notin heap[w] /\ (pc[w] \in Selected => n # current[w])
    BY <2>2 DEF Held, Selected
  <2>4. pc'[w] \notin Carrying
    BY <1>2 DEF WorkerTypes, DrainAdmit, PreemptAdmit, GuardAdmit, Goto, GuardOrProcess, Carrying
  <2>5. pc'[w] \in Selected => /\ current'[w] \notin heap'[w]
                              /\ current'[w].priority \in {"High", initial'[w]}
    <3>1. CASE /\ heap'[w] = heap[w] \cup {n} /\ current'[w] = current[w]
               /\ initial' = initial
               /\ pc'[w] \in Selected => pc[w] \in Selected
      BY <1>1, <2>3, <3>1 DEF Placed
    <3>2. CASE /\ heap'[w] \subseteq heap[w] \cup {current[w]} /\ current'[w] = n
               /\ n.priority = "High" /\ pc[w] \in Selected
      BY <1>1, <2>3, <3>2 DEF Placed
    <3>. QED
      BY <1>1, <1>2, <2>1, <3>1, <3>2, AdmitEffect DEF Selected
  <2>6. pc'[w] # "guard"
    BY <1>1, <1>2, AdmitEffect
  <2>. QED
    BY <2>4, <2>5, <2>6 DEF Placed, Carrying
<1>3. CASE Select(w)
  BY <1>3, SelectKeepsTypes DEF Placed, Carrying, Selected
<1>4. CASE DrainReceive(w) \/ PreemptReceive(w) \/ GuardReceive(w)
  <2>1. PICK p \in Priority : hand'[w].priority = p /\ Receive(w, p) /\ ~Full(w, p)
    BY <1>4, ReceiveKeepsTypes
  <2>2. limits' = limits /\ heap' = heap /\ current' = current /\ initial' = initial
    BY <1>4 DEF DrainReceive, PreemptReceive, GuardReceive
  <2>3. ~Full(w, p)'
    BY <2>1, <2>2 DEF Full, Count
  <2>4. /\ pc'[w] \in Selected => pc[w] \in Selected
        /\ pc'[w] \in {"guard", "guardAdmit"} => pc[w] = "guard"
        /\ pc'[w] = "preemptAdmit" => pc[w] = "preempt"
    BY <1>4 DEF DrainReceive, PreemptReceive, GuardReceive, Goto, WorkerTypes, Selected
  <2>5. ASSUME pc'[w] = "preemptAdmit", current[w].priority = "High"
        PROVE  current[w].ts < hand'[w].ts
    <3>1. PICK c \in Held(w) : c = current[w] /\ c.priority = "High" /\ c \in Item
      BY <2>4, <2>5, HeldType DEF Held
    <3>2. Below(c.ts, inQueue["High"]) /\ c.ts \in Nat
      BY <3>1 DEF ItemInv, Older, Item
    <3>3. p = "High" /\ hand'[w].ts = Head(inQueue["High"]) /\ inQueue["High"] # <<>>
      BY <1>4, <2>1, <2>4, <2>5, ReceiveEffect, ServesPriorities
      DEF DrainReceive, PreemptReceive, GuardReceive, WorkerTypes, Shape
    <3>4. inQueue["High"] \in Seq(Nat) /\ IncreasingBelow(inQueue["High"], arrived) /\ arrived \in Nat
      BY <3>3 DEF WorkerTypes, ArrivalInv, ChannelOrder
    <3>. QED
      BY <3>1, <3>2, <3>3, <3>4, TailIncreases
  <2>. QED
    BY <1>1, <2>1, <2>2, <2>3, <2>4, <2>5 DEF Placed
<1>5. CASE PreemptEnd(w) \/ GuardEnd(w)
  <2>1. /\ heap' = heap /\ current' = current /\ initial' = initial
        /\ pc[w] \in Selected /\ pc'[w] \in {"guard", "process"}
        /\ pc'[w] = "guard" => current[w].priority \in {"Medium", "Low"}
    BY <1>5 DEF PreemptEnd, GuardEnd, Goto, GuardOrProcess, WorkerTypes, Selected
  <2>. QED
    BY <1>1, <2>1 DEF Placed, Carrying
<1>6. CASE \/ Top(w) \/ Exit(w) \/ ReadLimit(w) \/ DrainNext(w) \/ SelectNone(w)
           \/ Process(w) \/ EmitNext(w) \/ EmitEnd(w)
  <2>1. pc'[w] \notin Selected \cup Carrying
    BY <1>6 DEF Top, Exit, ReadLimit, DrainNext, SelectNone, Process, EmitNext, EmitEnd,
                EndIteration, Goto, WorkerTypes, Selected, Carrying, workerVars
  <2>. QED
    BY <2>1 DEF Placed, Selected
<1>. QED
  BY <1>2, <1>3, <1>4, <1>5, <1>6 DEF WorkerStep


\* What a step that is no worker's leaves alone.
OtherStep ==
  \/ \E p \in Priority : Arrive(p) \/ EgressTake(p)
  \/ Stop \/ ReadCounter \/ StartRebalance \/ PublishQuota \/ UNCHANGED vars

LEMMA OtherEffect ==
  ASSUME OtherStep
  PROVE  /\ pc' = pc /\ limits' = limits /\ heap' = heap /\ hand' = hand /\ current' = current
         /\ initial' = initial /\ counters' = counters
         /\ nextSequence' = nextSequence /\ inFlight' = inFlight
BY DEF OtherStep, Arrive, EgressTake, Take, Stop, ReadCounter, StartRebalance, PublishQuota, vars,
       workerVars, routerVars

LEMMA ItemInit == Init => ItemInv
<1>. SUFFICES ASSUME Init, NEW w \in Workers
              PROVE  /\ Numbered(w) /\ Placed(w)
                     /\ \A i \in Held(w) : Older(i)
                     /\ \A v \in Workers \ {w} : Apart(v, w)
  BY DEF ItemInv
<1>1. heap[w] = {} /\ pc[w] = "top"
  BY DEF Init
<1>2. Held(w) = {} /\ pc[w] \notin Selected \cup Carrying
  BY <1>1 DEF Held, Selected, Carrying
<1>. QED
  BY <1>1, <1>2, FS_EmptySet DEF Numbered, Placed, Apart, Selected

LEMMA ItemStep == WorkerTypes /\ TypeOK /\ ArrivalInv /\ ItemInv /\ [Next]_vars => ItemInv'
<1>. SUFFICES ASSUME WorkerTypes, TypeOK, ArrivalInv, ItemInv, [Next]_vars PROVE ItemInv'
  OBVIOUS
<1>1. ASSUME NEW w \in Workers, WorkerStep(w), NEW v \in Workers
      PROVE  /\ Numbered(v)' /\ Placed(v)'
             /\ \A i \in Held(v)' : Older(i)'
             /\ \A u \in Workers \ {v} : Apart(u, v)'
  <2>1. IsFiniteSet(heap'[v]) /\ Placed(v)'
    <3>1. CASE v = w
      BY <1>1, <3>1, HeapStaysFinite, PlacedStep DEF ItemInv
    <3>2. CASE v # w
      <4>1. Placed(v) /\ IsFiniteSet(heap[v])
        BY DEF ItemInv, Numbered
      <4>2. OthersKeep(w)
        BY <1>1, WorkerTypesStep
      <4>. QED
        BY <3>2, <4>1, <4>2 DEF OthersKeep, Placed, Full, Count
    <3>. QED
      BY <3>1, <3>2
  <2>2. \A i \in Held(v)' : Older(i)'
    BY <1>1, OlderStep
  <2>3. /\ \A i \in Held(v)' :
             i.sequence < nextSequence'[i.priority] /\ i.sequence \in inFlight'[i.priority]
        /\ \A i, j \in Held(v)' : SameNumber(i, j) => i = j
        /\ \A u \in Workers : u # v => \A i \in Held(u)', j \in Held(v)' : ~SameNumber(i, j)
    BY <1>1, NumbersStep
  <2>4. Numbered(v)'
    BY <2>1, <2>3 DEF Numbered, SameNumber
  <2>5. \A u \in Workers \ {v} : Apart(u, v)'
    BY <2>3 DEF Apart, SameNumber
  <2>. QED
    BY <2>1, <2>2, <2>4, <2>5
<1>2. CASE OtherStep
  <2>1. /\ pc' = pc /\ limits' = limits /\ heap' = heap /\ hand' = hand /\ current' = current
        /\ initial' = initial /\ nextSequence' = nextSequence /\ inFlight' = inFlight
    BY <1>2, OtherEffect
  <2>2. \A w \in Workers : Held(w)' = Held(w)
    BY <2>1 DEF Held
  <2>3. ASSUME NEW w \in Workers PROVE Numbered(w)' /\ Placed(w)' /\ \A v \in Workers \ {w} : Apart(v, w)'
    <3>1. Numbered(w) /\ Placed(w) /\ \A v \in Workers \ {w} : Apart(v, w)
      BY DEF ItemInv
    <3>2. Numbered(w)'
      BY <2>1, <2>2, <3>1 DEF Numbered, SameNumber
    <3>3. Placed(w)'
      BY <2>1, <3>1 DEF Placed, Full, Count
    <3>4. \A v \in Workers \ {w} : Apart(v, w)'
      BY <2>2, <3>1 DEF Apart, SameNumber
    <3>. QED
      BY <3>2, <3>3, <3>4
  <2>4. ASSUME NEW w \in Workers, NEW i \in Held(w)' PROVE Older(i)'
    <3>1. i \in Held(w) /\ i \in Item
      BY <2>2, <2>4, HeldType
    <3>2. i.priority \in Priority /\ i.ts \in Nat /\ i.ts < arrived /\ Below(i.ts, inQueue[i.priority])
      BY <3>1 DEF ItemInv, Older, Item
    <3>. QED
      BY <3>2, QueueEffect DEF Older
  <2>. QED
    BY <2>3, <2>4 DEF ItemInv
<1>. QED
  BY <1>1, <1>2 DEF Next, OtherStep, ItemInv

\* The invariants of the workers and of the router they share.
WorkersInv == WorkerTypes /\ RouterInv /\ ArrivalInv /\ ItemInv

LEMMA WorkersInvariant == Spec => []WorkersInv
<1>1. RouterInv => TypeOK
  BY DEF RouterInv
<1>2. Spec => []RouterInv
  BY WorkersKeepRouter
<1>. QED
  BY <1>1, <1>2, ArrivalInit, ArrivalStep, ItemInit, ItemStep, TypesHold, PTL DEF Spec, WorkersInv

\* A worker holds only numbers that were given out and are not completed; no two items of one
\* worker or of two have the same number.
HeldOnce ==
  /\ \A w \in Workers : \A i \in Held(w) :
       i.sequence < nextSequence[i.priority] /\ i.sequence \in inFlight[i.priority]
  /\ \A v, w \in Workers : \A i \in Held(v), j \in Held(w) : SameNumber(i, j) => v = w /\ i = j

(***************************************************************************)
(* Whatever the controller does to the quotas, also when a displaced       *)
(* packet is refused, no packet is ever held twice, nor again after its    *)
(* number was completed: the worst a refused push does is to lose a packet *)
(* (run_worker, push_with_capacity).                                       *)
(***************************************************************************)
THEOREM NumbersHeldOnce == Spec => []HeldOnce
<1>1. WorkersInv => HeldOnce
  <2>. SUFFICES ASSUME WorkersInv PROVE HeldOnce
    OBVIOUS
  <2>1. \A w \in Workers : Numbered(w) /\ \A v \in Workers \ {w} : Apart(v, w)
    BY DEF WorkersInv, ItemInv
  <2>. QED
    BY <2>1 DEF HeldOnce, Numbered, Apart
<1>. QED
  BY <1>1, WorkersInvariant, PTL

-----------------------------------------------------------------------------
(* Displaced packets. *)

\* Only the item that was popped is ever displaced: High packets come in order.
LEMMA DisplacedIsInitial ==
  ASSUME WorkersInv, NEW w \in Workers, Requeues(w)
  PROVE  /\ pc[w] \in Selected /\ current[w] \in Item /\ current[w] \notin heap[w]
         /\ current[w].priority # "High" /\ current[w].priority = initial[w]
         /\ Cardinality(heap[w]) < limits[w].total
<1>1. /\ pc[w] \in {"preemptAdmit", "guardAdmit"} /\ pc[w] \in Selected /\ pc[w] \in Carrying
      /\ WorkerTypes /\ Placed(w) /\ Numbered(w) /\ Shape(w)
  BY DEF Requeues, Selected, Carrying, WorkersInv, ItemInv, WorkerTypes
<1>2. current[w] \in Item /\ current[w] \notin heap[w] /\ current[w].priority \in {"High", initial[w]}
  BY <1>1 DEF Placed, Shape
<1>3. current[w].priority # "High"
  <2>1. CASE pc[w] = "guardAdmit"
    BY <1>1, <2>1 DEF Placed
  <2>2. CASE pc[w] = "preemptAdmit"
    <3>1. SUFFICES ASSUME current[w].priority = "High" PROVE FALSE
      OBVIOUS
    <3>2. current[w].ts < hand[w].ts /\ current[w].ts \in Nat
      BY <1>1, <1>2, <2>2, <3>1 DEF Placed, Item
    <3>3. /\ Prepared(w).priority = "High" /\ Prepared(w).ts = hand[w].ts
          /\ hand[w].ts \in Nat /\ "High" \in Priority
      BY <1>1, <2>2, PreparedIs DEF Shape
    <3>4. Budget["High"] \in Nat
      BY <3>3, WorkerAssumption
    <3>5. Deadline(Prepared(w)) < Deadline(current[w])
      BY <2>2 DEF Requeues
    <3>. QED
      BY <3>1, <3>2, <3>3, <3>4, <3>5 DEF Deadline
  <2>. QED
    BY <1>1, <2>1, <2>2
<1>4. Cardinality(heap[w]) < limits[w].total
  <2>1. ~(Cardinality(heap[w]) >= limits[w].total)
    BY <1>1 DEF Placed, Full
  <2>2. Cardinality(heap[w]) \in Nat /\ limits[w].total \in Nat
    BY <1>1, FS_CardinalityType DEF Numbered, WorkerTypes
  <2>. QED
    BY <2>1, <2>2
<1>. QED
  BY <1>1, <1>2, <1>3, <1>4

\* The numbers in flight are those of what the workers hold.
NothingLost ==
  (\A w \in Workers : pc[w] # "done") =>
    \A p \in Priority : \A s \in inFlight[p] :
      \E w \in Workers : \E i \in Held(w) : i.priority = p /\ i.sequence = s

LEMMA NothingLostStep ==
  WorkersInv /\ RequeueSucceeds /\ NothingLost /\ [Next]_vars => NothingLost'
<1>. SUFFICES ASSUME WorkersInv, RequeueSucceeds, NothingLost, [Next]_vars,
                     \A w \in Workers : pc'[w] # "done"
              PROVE  \A p \in Priority : \A s \in inFlight'[p] :
                       \E w \in Workers : \E i \in Held(w)' : i.priority = p /\ i.sequence = s
  BY DEF NothingLost
<1>1. ASSUME NEW w \in Workers, WorkerStep(w), NEW p \in Priority, NEW s \in inFlight'[p]
      PROVE  \E v \in Workers : \E i \in Held(v)' : i.priority = p /\ i.sequence = s
  <2>1. /\ WorkerTypes /\ Numbered(w) /\ Placed(w)
        /\ inFlight \in [Priority -> SUBSET Sequence]
    BY DEF WorkersInv, ItemInv, RouterInv, TypeOK
  <2>2. OthersKeep(w)
    BY <1>1, <2>1, WorkerTypesStep
  <2>3. \A v \in Workers \ {w} : Held(v)' = Held(v)
    BY <2>2, HeldOfOthers
  <2>4. pc[w] # "done"
    BY <1>1, <2>1 DEF WorkerStep, Top, Exit, ReadLimit, DrainNext, DrainReceive, DrainAdmit,
          SelectNone, Select, PreemptEnd, PreemptReceive, PreemptAdmit, GuardEnd, GuardReceive,
          GuardAdmit, Process, EmitNext, EmitEnd
  <2>5. \A v \in Workers : pc[v] # "done"
    BY <2>2, <2>4 DEF OthersKeep
  <2>6. \A t \in inFlight[p] : \E v \in Workers : \E i \in Held(v) : i.priority = p /\ i.sequence = t
    BY <2>5 DEF NothingLost
  <2>7. CASE Held(w)' = Held(w) /\ inFlight' = inFlight
    BY <1>1, <2>3, <2>6, <2>7
  <2>8. CASE /\ pc[w] \in Carrying /\ Prepare(w)
             /\ (Requeues(w) => Fits(w, current[w].priority))
                  => Held(w)' = Held(w) \cup {Prepared(w)}
    <3>1. Held(w)' = Held(w) \cup {Prepared(w)}
      BY <2>8 DEF RequeueSucceeds, Requeues
    <3>2. \A v \in Workers : Held(v) \subseteq Held(v)'
      BY <2>3, <3>1
    <3>3. s \in inFlight[p] \/ (p = Prepared(w).priority /\ s = Prepared(w).sequence)
      <4>1. PICK q \in Priority : q = hand[w].priority
        BY <2>1, <2>8, PreparedIs
      <4>2. Prepared(w).priority = q /\ Prepared(w).sequence = nextSequence[q]
        BY <2>1, <2>8, <4>1, PreparedIs
      <4>3. inFlight' = [inFlight EXCEPT ![q] = @ \cup {nextSequence[q]}]
        BY <2>1, <2>8, <4>1, PrepareEffect
      <4>. QED
        BY <1>1, <2>1, <4>2, <4>3
    <3>4. Prepared(w) \in Held(w)'
      BY <3>1
    <3>. QED
      BY <2>6, <3>2, <3>3, <3>4
  <2>9. CASE /\ Held(w)' = Held(w) \ {current[w]} /\ current[w] \in Held(w)
             /\ inFlight' = [inFlight EXCEPT ![current[w].priority] = @ \ {current[w].sequence}]
    <3>1. current[w].priority \in Priority
      BY <2>1, <2>9, HeldType DEF Item
    <3>2. s \in inFlight[p] /\ ~(p = current[w].priority /\ s = current[w].sequence)
      BY <1>1, <2>1, <2>9, <3>1
    <3>. QED
      BY <2>3, <2>6, <2>9, <3>2
  <2>. QED
    BY <1>1, <2>1, <2>7, <2>8, <2>9, HeldEffect
<1>2. CASE OtherStep
  <2>1. pc' = pc /\ inFlight' = inFlight /\ heap' = heap /\ current' = current
    BY <1>2, OtherEffect
  <2>2. \A w \in Workers : Held(w)' = Held(w)
    BY <2>1 DEF Held
  <2>. QED
    BY <2>1, <2>2 DEF NothingLost
<1>. QED
  BY <1>1, <1>2 DEF Next, OtherStep

(***************************************************************************)
(* As long as no push of a displaced packet is refused, preempting,        *)
(* guarding and requeueing lose no packet and duplicate none: the numbers  *)
(* in flight are exactly those of what the workers hold, each with one of  *)
(* them (run_worker).                                                      *)
(***************************************************************************)
THEOREM NoPacketLostHolds == Spec /\ []RequeueSucceeds => []NoPacketLost
<1>1. Init => NothingLost
  BY DEF Init, RouterInit, NothingLost
<1>2. WorkersInv /\ NothingLost => NoPacketLost
  <2>. SUFFICES ASSUME WorkersInv, NothingLost, \A w \in Workers : pc[w] # "done", NEW p \in Priority
                PROVE  /\ inFlight[p] = UNION {{i.sequence : i \in {x \in Held(w) : x.priority = p}}
                                                 : w \in Workers}
                       /\ \A v, w \in Workers : v # w =>
                            {i.sequence : i \in {x \in Held(v) : x.priority = p}}
                              \cap {i.sequence : i \in {x \in Held(w) : x.priority = p}} = {}
    BY DEF NoPacketLost
  <2>1. \A s \in inFlight[p] : \E w \in Workers : \E i \in Held(w) : i.priority = p /\ i.sequence = s
    BY DEF NothingLost
  <2>2. \A w \in Workers : \A i \in Held(w) : i.sequence \in inFlight[i.priority]
    BY DEF WorkersInv, ItemInv, Numbered
  <2>3. \A v, w \in Workers : v # w => \A i \in Held(v), j \in Held(w) : ~SameNumber(i, j)
    BY DEF WorkersInv, ItemInv, Apart
  <2>. QED
    BY <2>1, <2>2, <2>3 DEF SameNumber
<1>. QED
  BY <1>1, <1>2, NothingLostStep, WorkersInvariant, PTL DEF Spec

\* A counter moves with every push and pop, the failed ones included.
LEMMA CountersStep ==
  WorkersInv /\ RequeueSucceeds /\ CountersMatchHeaps /\ [Next]_vars => CountersMatchHeaps'
<1>. SUFFICES ASSUME WorkersInv, RequeueSucceeds, CountersMatchHeaps, [Next]_vars,
                     NEW v \in Workers, pc'[v] # "done", NEW p \in Priority
              PROVE  counters'[v][p] = Count(heap'[v], p)
  BY DEF CountersMatchHeaps, Count
<1>1. ASSUME NEW w \in Workers, WorkerStep(w) PROVE counters'[v][p] = Count(heap'[v], p)
  <2>1. /\ WorkerTypes /\ Numbered(w) /\ Placed(w) /\ IsFiniteSet(heap[w])
        /\ heap[w] \in SUBSET Item /\ heap'[w] \in SUBSET Item /\ counters[w] \in [Priority -> Int]
        /\ counters \in [Workers -> [Priority -> Int]]
    BY <1>1, WorkerTypesStep DEF WorkersInv, ItemInv, Numbered, WorkerTypes, StepTypes
  <2>2. OthersKeep(w)
    BY <1>1, <2>1, WorkerTypesStep
  <2>3. CASE v # w
    BY <2>2, <2>3 DEF OthersKeep, CountersMatchHeaps
  <2>4. ASSUME v = w, pc[w] # "done" PROVE counters'[w][p] = Count(heap'[w], p)
    <3>0. counters[w][p] = Count(heap[w], p)
      BY <2>4 DEF CountersMatchHeaps
    <3>1. CASE DrainAdmit(w) \/ PreemptAdmit(w) \/ GuardAdmit(w)
      <4>1. /\ Prepared(w) \in Item /\ Prepared(w).priority = hand[w].priority
            /\ hand[w].priority \in Priority
            /\ Prepared(w).sequence = nextSequence[Prepared(w).priority]
        BY <2>1, <3>1, AdmitKeepsTypes, PreparedIs
      <4>2. Prepared(w) \notin heap[w]
        <5>1. Prepared(w).sequence \in Nat
          BY <4>1 DEF Item
        <5>. QED
          BY <2>1, <4>1, <5>1 DEF Numbered, Held
      <4>3. \/ /\ heap'[w] = heap[w] \cup {Prepared(w)}
               /\ counters'[w] = [counters[w] EXCEPT ![Prepared(w).priority] = @ + 1]
            \/ /\ Requeues(w) /\ heap'[w] = heap[w] \cup {current[w]} /\ current[w] \notin heap[w]
               /\ counters'[w] = [counters[w] EXCEPT ![current[w].priority] = @ + 1]
        <5>1. Requeues(w) => /\ current[w] \notin heap[w] /\ current[w].priority = initial[w]
                             /\ Fits(w, current[w].priority)
          BY DisplacedIsInitial DEF RequeueSucceeds, Requeues
        <5>. HIDE DEF Prepared
        <5>. QED
          BY <2>1, <3>1, <4>1, <5>1, AdmitEffect
      <4>4. PICK i \in Item :
              /\ i \notin heap[w] /\ heap'[w] = heap[w] \cup {i} /\ i.priority \in Priority
              /\ counters'[w] = [counters[w] EXCEPT ![i.priority] = @ + 1]
        BY <4>1, <4>2, <4>3, DisplacedIsInitial DEF Item
      <4>5. /\ i.priority = p => Count(heap'[w], p) = Count(heap[w], p) + 1
            /\ i.priority # p => Count(heap'[w], p) = Count(heap[w], p)
        BY <2>1, <4>4, PushCounts
      <4>. QED
        BY <2>1, <3>0, <4>4, <4>5
    <3>2. CASE Select(w)
      <4>1. /\ current'[w] \in heap[w] /\ heap'[w] = heap[w] \ {current'[w]}
            /\ current \in [Workers -> RawItem]
        BY <2>1, <3>2, SelectKeepsTypes DEF Earliest, WorkerTypes
      <4>2. PICK i \in heap[w] : /\ counters' = [counters EXCEPT ![w][i.priority] = @ - 1]
                                 /\ current' = [current EXCEPT ![w] = i]
        BY <3>2 DEF Select, Earliest
      <4>3. i.priority \in Priority /\ heap'[w] = heap[w] \ {i}
        BY <2>1, <4>1, <4>2 DEF Item
      <4>4. /\ i.priority = p => Count(heap'[w], p) = Count(heap[w], p) - 1
            /\ i.priority # p => Count(heap'[w], p) = Count(heap[w], p)
        BY <2>1, <4>3, PopCounts
      <4>. QED
        BY <2>1, <3>0, <4>2, <4>3, <4>4
    <3>3. CASE Exit(w)
      BY <2>1, <2>4, <3>3 DEF Exit, Goto, WorkerTypes
    <3>4. CASE \/ Top(w) \/ ReadLimit(w) \/ DrainNext(w) \/ SelectNone(w)
               \/ PreemptEnd(w) \/ GuardEnd(w) \/ Process(w) \/ EmitNext(w) \/ EmitEnd(w)
               \/ DrainReceive(w) \/ PreemptReceive(w) \/ GuardReceive(w)
      <4>1. heap' = heap /\ counters' = counters
        BY <3>4 DEF Top, ReadLimit, DrainNext, SelectNone, PreemptEnd, GuardEnd, DrainReceive,
                    PreemptReceive, GuardReceive, Process, EmitNext, EmitEnd, workerVars
      <4>. QED
        BY <3>0, <4>1
    <3>. QED
      BY <1>1, <3>1, <3>2, <3>3, <3>4 DEF WorkerStep
  <2>5. pc[w] # "done"
    BY <1>1 DEF WorkerStep, Top, Exit, ReadLimit, DrainNext, DrainReceive, DrainAdmit,
          SelectNone, Select, PreemptEnd, PreemptReceive, PreemptAdmit, GuardEnd, GuardReceive,
          GuardAdmit, Process, EmitNext, EmitEnd
  <2>. QED
    BY <2>3, <2>4, <2>5
<1>2. CASE OtherStep
  BY <1>2, OtherEffect DEF CountersMatchHeaps
<1>. QED
  BY <1>1, <1>2 DEF Next, OtherStep

(***************************************************************************)
(* As long as no push of a displaced packet is refused, the counters the   *)
(* controller reads are exact at every step, preemption included           *)
(* (worker_priority_counters).                                             *)
(***************************************************************************)
THEOREM CountersMatchHold == Spec /\ []RequeueSucceeds => []CountersMatchHeaps
<1>1. Init => CountersMatchHeaps
  <2>. SUFFICES ASSUME Init, NEW w \in Workers, NEW p \in Priority
                PROVE  counters[w][p] = Count(heap[w], p)
    BY DEF CountersMatchHeaps
  <2>1. heap[w] = {} /\ counters[w][p] = 0
    BY DEF Init
  <2>2. {i \in heap[w] : i.priority = p} = {}
    BY <2>1
  <2>. QED
    BY <2>1, <2>2, FS_EmptySet DEF Count
<1>. QED
  BY <1>1, CountersStep, WorkersInvariant, PTL DEF Spec

\* When a worker reads its quotas, none is below what its heap holds of the
\* priority: no rebalance has taken room away that is in use.
QuotasCover ==
  \A w \in Workers : pc[w] = "limits" =>
    \A p \in Priority \ {"High"} : Count(heap[w], p) <= priorityLimit[w][p]

\* The heap keeps to the quotas of the iteration, with room for the popped item.
Roomy(w) ==
  /\ \A p \in Priority \ {"High"} : Count(heap[w], p) <= limits[w].of[p]
  /\ pc[w] \in Selected /\ current[w].priority # "High" =>
       Count(heap[w], current[w].priority) < limits[w].of[current[w].priority]

LEMMA RoomyStep ==
  ASSUME WorkersInv, QuotasCover, NEW w \in Workers, Roomy(w), WorkerStep(w)
  PROVE  Roomy(w)'
<1>1. /\ WorkerTypes /\ Numbered(w) /\ Placed(w) /\ Shape(w) /\ IsFiniteSet(heap[w])
      /\ heap[w] \in SUBSET Item /\ heap'[w] \in SUBSET Item
      /\ limits \in [Workers -> [total : Nat, of : [Priorities -> Nat]]]
      /\ heap \in [Workers -> SUBSET Item] /\ pc \in [Workers -> Labels]
  BY WorkerTypesStep DEF WorkersInv, ItemInv, Numbered, WorkerTypes, StepTypes
<1>2. /\ limits[w].of \in [Priorities -> Nat] /\ Priority \subseteq Priorities
      /\ \A p \in Priority : limits[w].of[p] \in Nat /\ Count(heap[w], p) \in Nat
  <2>1. \A p \in Priority : IsFiniteSet({i \in heap[w] : i.priority = p})
    BY <1>1, FS_Subset
  <2>2. limits[w].of \in [Priorities -> Nat]
    BY <1>1
  <2>. QED
    BY <2>1, <2>2, WorkerAssumption, FS_CardinalityType DEF Count
<1>3. CASE DrainAdmit(w) \/ PreemptAdmit(w) \/ GuardAdmit(w)
  <2>1. PICK n \in Item : n = Prepared(w) /\ n.priority = hand[w].priority /\ n.priority \in Priority
                          /\ n.sequence = nextSequence[n.priority]
    BY <1>1, <1>3, AdmitKeepsTypes, PreparedIs
  <2>2. n \notin heap[w]
    BY <1>1, <2>1 DEF Numbered, Item, Held
  <2>3. limits' = limits
    BY <1>1, <1>3, AdmitEffect
  <2>4. CASE /\ Fits(w, n.priority) /\ heap'[w] = heap[w] \cup {n} /\ current'[w] = current[w]
             /\ (pc[w] = "admit" /\ pc'[w] = "drain") \/ (pc[w] = "preemptAdmit" /\ pc'[w] = "preempt")
    <3>1. Count(heap[w], n.priority) < limits[w].of[n.priority]
      BY <1>2, <2>1, <2>4 DEF Fits, Full
    <3>2. \A p \in Priority :
            /\ n.priority = p => Count(heap'[w], p) = Count(heap[w], p) + 1
            /\ n.priority # p => Count(heap'[w], p) = Count(heap[w], p)
      BY <1>1, <2>2, <2>4, PushCounts
    <3>3. \A p \in Priority \ {"High"} : Count(heap'[w], p) <= limits'[w].of[p]
      BY <1>2, <2>1, <2>3, <3>1, <3>2 DEF Roomy
    <3>4. pc'[w] \in Selected /\ current'[w].priority # "High" =>
            Count(heap'[w], current'[w].priority) < limits'[w].of[current'[w].priority]
      <4>1. SUFFICES ASSUME pc'[w] \in Selected, current[w].priority # "High"
                     PROVE  Count(heap'[w], current[w].priority) < limits[w].of[current[w].priority]
        BY <2>3, <2>4
      <4>2. pc[w] = "preemptAdmit" /\ pc[w] \in Selected
        BY <2>4, <4>1 DEF Selected
      <4>3. n.priority = "High" /\ current[w].priority \in Priority
        BY <1>1, <2>1, <4>2 DEF Shape, Item
      <4>4. Count(heap'[w], current[w].priority) = Count(heap[w], current[w].priority)
        BY <3>2, <4>1, <4>3
      <4>. QED
        BY <4>1, <4>2, <4>4 DEF Roomy
    <3>. QED
      BY <3>3, <3>4 DEF Roomy, Count
  <2>5. CASE /\ Requeues(w) /\ current'[w] = n /\ n.priority = "High"
             /\ heap'[w] = IF Fits(w, current[w].priority) THEN heap[w] \cup {current[w]} ELSE heap[w]
    <3>1. PICK c \in Item : c = current[w] /\ c.priority \in Priority /\ c \notin heap[w]
      BY <2>5, DisplacedIsInitial DEF Item
    <3>2. CASE Fits(w, c.priority)
      <4>1. Count(heap[w], c.priority) < limits[w].of[c.priority]
        BY <1>2, <3>1, <3>2 DEF Fits, Full
      <4>2. \A p \in Priority :
              /\ c.priority = p => Count(heap'[w], p) = Count(heap[w], p) + 1
              /\ c.priority # p => Count(heap'[w], p) = Count(heap[w], p)
        BY <1>1, <2>5, <3>1, <3>2, PushCounts
      <4>3. \A p \in Priority \ {"High"} : Count(heap'[w], p) <= limits'[w].of[p]
        BY <1>2, <2>3, <3>1, <4>1, <4>2 DEF Roomy
      <4>. QED
        BY <2>5, <4>3 DEF Roomy, Count
    <3>3. CASE ~Fits(w, c.priority)
      BY <2>3, <2>5, <3>1, <3>3 DEF Roomy, Count
    <3>. QED
      BY <3>2, <3>3
  <2>. QED
    BY <1>1, <1>3, <2>1, <2>4, <2>5, AdmitEffect
<1>4. CASE Select(w)
  <2>1. PICK i \in heap[w] : i = current'[w] /\ heap'[w] = heap[w] \ {i} /\ i.priority \in Priority
    BY <1>1, <1>4, SelectKeepsTypes DEF Earliest, Item
  <2>2. limits' = limits
    BY <1>4 DEF Select
  <2>3. \A p \in Priority :
          /\ i.priority = p => Count(heap'[w], p) = Count(heap[w], p) - 1
          /\ i.priority # p => Count(heap'[w], p) = Count(heap[w], p)
    BY <1>1, <2>1, PopCounts
  <2>4. ASSUME NEW p \in Priority, p # "High"
        PROVE  /\ Count(heap'[w], p) <= limits'[w].of[p]
               /\ i.priority = p => Count(heap'[w], p) < limits'[w].of[p]
    <3>1. /\ Count(heap[w], p) <= limits[w].of[p] /\ limits'[w].of[p] = limits[w].of[p]
          /\ Count(heap[w], p) \in Nat /\ limits[w].of[p] \in Nat
      BY <1>2, <2>2, <2>4 DEF Roomy
    <3>. QED
      BY <2>3, <3>1
  <2>5. i.priority # "High" => Count(heap'[w], i.priority) < limits'[w].of[i.priority]
    BY <2>1, <2>4
  <2>. QED
    BY <2>1, <2>4, <2>5 DEF Roomy, Count
<1>5. CASE Exit(w)
  <2>1. heap'[w] = {} /\ pc'[w] \notin Selected /\ limits' = limits
    BY <1>1, <1>5 DEF Exit, Goto, Selected
  <2>2. \A p \in Priority : {i \in heap'[w] : i.priority = p} = {}
    BY <2>1
  <2>3. \A p \in Priority : Count(heap'[w], p) = 0
    BY <2>2, FS_EmptySet DEF Count
  <2>. QED
    BY <1>2, <2>1, <2>3 DEF Roomy, Count
<1>6. CASE Top(w) \/ ReadLimit(w)
  <2>1. heap' = heap /\ pc'[w] \notin Selected
    BY <1>1, <1>6 DEF Top, ReadLimit, Goto, Selected
  <2>2. \A p \in Priority \ {"High"} : Count(heap[w], p) <= limits'[w].of[p]
    <3>1. CASE Top(w)
      <4>1. limits'[w].of = limits[w].of
        BY <1>1, <3>1 DEF Top
      <4>. QED
        BY <4>1 DEF Roomy
    <3>2. CASE ReadLimit(w)
      <4>1. limits'[w].of = [limits[w].of EXCEPT ![Serves(w)[turn[w]]]
                                                  = priorityLimit[w][Serves(w)[turn[w]]]]
        BY <1>1, <3>2 DEF ReadLimit
      <4>2. pc[w] = "limits"
        BY <3>2 DEF ReadLimit
      <4>. QED
        BY <1>2, <4>1, <4>2 DEF Roomy, QuotasCover
    <3>. QED
      BY <1>6, <3>1, <3>2
  <2>. QED
    BY <2>1, <2>2 DEF Roomy, Count
<1>7. CASE \/ DrainNext(w) \/ SelectNone(w) \/ PreemptEnd(w) \/ GuardEnd(w)
           \/ Process(w) \/ EmitNext(w) \/ EmitEnd(w)
           \/ DrainReceive(w) \/ PreemptReceive(w) \/ GuardReceive(w)
  <2>1. heap' = heap /\ limits' = limits
    BY <1>7 DEF DrainNext, SelectNone, PreemptEnd, GuardEnd, DrainReceive, PreemptReceive,
                GuardReceive, Process, EmitNext, EmitEnd, workerVars
  <2>2. pc'[w] \in Selected => pc[w] \in Selected /\ current' = current
    BY <1>1, <1>7 DEF DrainNext, SelectNone, PreemptEnd, GuardEnd, DrainReceive, PreemptReceive,
                GuardReceive, Process, EmitNext, EmitEnd, EndIteration, Goto, Selected, workerVars
  <2>. QED
    BY <2>1, <2>2 DEF Roomy, Count
<1>. QED
  BY <1>3, <1>4, <1>5, <1>6, <1>7 DEF WorkerStep

\* Every heap keeps to its quotas.
Room == \A w \in Workers : Roomy(w)

LEMMA RoomInit == Init => Room
<1>. SUFFICES ASSUME Init, NEW w \in Workers PROVE Roomy(w)
  BY DEF Room
<1>1. heap[w] = {} /\ pc[w] \notin Selected /\ limits[w].of = InitialLimit[w] /\ w \in WorkerIds
  BY WorkerAssumption DEF Init, Selected
<1>2. \A p \in Priority : InitialLimit[w][p] \in Nat /\ {i \in heap[w] : i.priority = p} = {}
  BY <1>1, QuotaAssumption, WorkerAssumption
<1>. QED
  BY <1>1, <1>2, FS_EmptySet DEF Roomy, Count

LEMMA RoomStep == WorkersInv /\ QuotasCover /\ Room /\ [Next]_vars => Room'
<1>. SUFFICES ASSUME WorkersInv, QuotasCover, Room, [Next]_vars, NEW v \in Workers PROVE Roomy(v)'
  BY DEF Room
<1>1. ASSUME NEW w \in Workers, WorkerStep(w) PROVE Roomy(v)'
  <2>1. CASE v = w
    BY <1>1, <2>1, RoomyStep DEF Room
  <2>2. CASE v # w
    <3>1. Roomy(v) /\ OthersKeep(w)
      BY <1>1, WorkerTypesStep DEF WorkersInv, Room
    <3>2. heap'[v] = heap[v] /\ limits'[v] = limits[v] /\ pc'[v] = pc[v] /\ current'[v] = current[v]
      BY <2>2, <3>1 DEF OthersKeep
    <3>. QED
      BY <3>1, <3>2 DEF Roomy, Count
  <2>. QED
    BY <2>1, <2>2
<1>2. CASE OtherStep
  BY <1>2, OtherEffect DEF Room, Roomy, Count
<1>. QED
  BY <1>1, <1>2 DEF Next, OtherStep

LEMMA RoomRequeues == WorkersInv /\ Room => RequeueSucceeds
<1>. SUFFICES ASSUME WorkersInv, NEW w \in Workers, Roomy(w), Requeues(w)
              PROVE  Fits(w, current[w].priority)
  BY DEF RequeueSucceeds, Requeues, Room
<1>1. PICK c \in Item : c = current[w] /\ c.priority # "High" /\ c.priority \in Priority
  BY DisplacedIsInitial DEF Item
<1>2. /\ Count(heap[w], c.priority) < limits[w].of[c.priority]
      /\ Cardinality(heap[w]) < limits[w].total
  BY <1>1, DisplacedIsInitial DEF Roomy
<1>3. /\ Count(heap[w], c.priority) \in Nat /\ Cardinality(heap[w]) \in Nat
      /\ limits[w].of[c.priority] \in Nat /\ limits[w].total \in Nat
  <2>1. IsFiniteSet(heap[w]) /\ limits \in [Workers -> [total : Nat, of : [Priorities -> Nat]]]
    BY DEF WorkersInv, ItemInv, Numbered, WorkerTypes
  <2>2. IsFiniteSet({i \in heap[w] : i.priority = c.priority})
    BY <2>1, FS_Subset
  <2>3. limits[w].of \in [Priorities -> Nat] /\ limits[w].total \in Nat
    BY <2>1
  <2>. QED
    BY <1>1, <2>1, <2>2, <2>3, WorkerAssumption, FS_CardinalityType DEF Count
<1>. QED
  BY <1>1, <1>2, <1>3 DEF Fits, Full

(***************************************************************************)
(* What the debug_assert of STEP 3 and STEP 4 claims holds as long as no   *)
(* rebalance takes quota away that is in use: the push that puts a         *)
(* displaced packet back is never refused.                                 *)
(***************************************************************************)
THEOREM RequeueHolds == Spec /\ []QuotasCover => []RequeueSucceeds
BY RoomInit, RoomStep, RoomRequeues, WorkersInvariant, PTL DEF Spec

\* No rebalance lowers a quota of a priority other than High.
QuotasKept ==
  [][\A w \in Workers, p \in Priority \ {"High"} :
       priorityLimit'[w][p] >= priorityLimit[w][p]]_vars

\* The quotas of an iteration are no larger than the ones that are published.
LimitsBelow ==
  \A w \in Workers, p \in Priority \ {"High"} : limits[w].of[p] <= priorityLimit[w][p]

LEMMA LimitsBelowStep ==
  ASSUME WorkersInv, LimitsBelow, [Next]_vars, NEW v \in Workers, NEW p \in Priority \ {"High"},
         priorityLimit'[v][p] >= priorityLimit[v][p]
  PROVE  limits'[v].of[p] <= priorityLimit'[v][p]
<1>0. /\ limits \in [Workers -> [total : Nat, of : [Priorities -> Nat]]]
      /\ limits[v].of \in [Priorities -> Nat] /\ limits[v].of[p] \in Nat
      /\ p \in Priorities /\ v \in WorkerIds
  <2>1. limits \in [Workers -> [total : Nat, of : [Priorities -> Nat]]]
    BY DEF WorkersInv, WorkerTypes
  <2>2. limits[v].of \in [Priorities -> Nat]
    BY <2>1
  <2>. QED
    BY <2>1, <2>2, WorkerAssumption
<1>1. priorityLimit[v][p] \in Nat /\ priorityLimit'[v][p] \in Nat
  <2>1. QuotaTypes /\ QuotaTypes'
    BY TypesStep DEF WorkersInv, WorkerTypes
  <2>. QED
    BY <1>0, <2>1 DEF QuotaTypes
<1>2. limits[v].of[p] <= priorityLimit[v][p]
  BY DEF LimitsBelow
<1>3. CASE limits'[v].of[p] = limits[v].of[p]
  BY <1>0, <1>1, <1>2, <1>3
<1>4. ASSUME NEW w \in Workers, ReadLimit(w), w = v
      PROVE  limits'[v].of[p] <= priorityLimit'[v][p]
  <2>1. limits'[v].of = [limits[v].of EXCEPT ![Serves(v)[turn[v]]]
                                              = priorityLimit[v][Serves(v)[turn[v]]]]
    BY <1>0, <1>4 DEF ReadLimit
  <2>2. priorityLimit' = priorityLimit
    BY <1>4 DEF ReadLimit, quotaVars
  <2>. QED
    BY <1>0, <1>1, <1>2, <2>1, <2>2
<1>5. ASSUME NEW w \in Workers, WorkerStep(w), ~ReadLimit(w) \/ w # v
      PROVE  limits'[v].of[p] = limits[v].of[p]
  <2>1. CASE w # v
    <3>1. limits'[v] = limits[v]
      BY <1>5, <2>1, WorkerTypesStep DEF OthersKeep, WorkersInv
    <3>. QED
      BY <3>1
  <2>2. CASE Top(v)
    BY <1>0, <2>2 DEF Top
  <2>3. CASE w = v /\ ~Top(v) /\ ~ReadLimit(v)
    <3>1. limits' = limits
      BY <1>5, <2>3 DEF WorkerStep, Exit, DrainNext, DrainReceive, DrainAdmit, SelectNone, Select,
            PreemptEnd, PreemptReceive, PreemptAdmit, GuardEnd, GuardReceive, GuardAdmit, Process,
            EmitNext, EmitEnd, workerVars
    <3>. QED
      BY <3>1
  <2>. QED
    BY <1>5, <2>1, <2>2, <2>3
<1>6. CASE OtherStep
  BY <1>3, <1>6, OtherEffect
<1>. QED
  BY <1>3, <1>4, <1>5, <1>6 DEF Next, OtherStep

(***************************************************************************)
(* What the controller would have to respect: if no rebalance lowered a    *)
(* quota, the scheduler would lose no packet and its counters would be     *)
(* exact, whatever displaces what.  The code's controller does not (its    *)
(* first rebalance takes Medium on worker 2 from 60 to 1).                 *)
(***************************************************************************)
THEOREM RaisedQuotasLoseNothing ==
  Spec /\ QuotasKept => [](RequeueSucceeds /\ NoPacketLost /\ CountersMatchHeaps)
<1>. DEFINE Kept == \A w \in Workers, p \in Priority \ {"High"} :
                      priorityLimit'[w][p] >= priorityLimit[w][p]
<1>1. Init => LimitsBelow
  <2>. SUFFICES ASSUME Init, NEW w \in Workers, NEW p \in Priority
                PROVE  limits[w].of[p] <= priorityLimit[w][p]
    BY DEF LimitsBelow
  <2>1. limits[w].of = InitialLimit[w] /\ priorityLimit = InitialLimit
    BY DEF Init, QuotaInit
  <2>2. InitialLimit[w][p] \in Nat
    BY WorkerAssumption, QuotaAssumption
  <2>. QED
    BY <2>1, <2>2
<1>2. WorkersInv /\ LimitsBelow /\ [Next]_vars /\ [Kept]_vars => LimitsBelow'
  <2>. SUFFICES ASSUME WorkersInv, LimitsBelow, [Next]_vars, [Kept]_vars,
                       NEW w \in Workers, NEW p \in Priority \ {"High"}
                PROVE  limits'[w].of[p] <= priorityLimit'[w][p]
    BY DEF LimitsBelow
  <2>1. CASE Kept
    BY <2>1, LimitsBelowStep
  <2>2. CASE UNCHANGED vars
    BY <2>2 DEF vars, workerVars, quotaVars, LimitsBelow
  <2>. QED
    BY <2>1, <2>2
<1>3. WorkersInv /\ LimitsBelow /\ Room => QuotasCover
  <2>. SUFFICES ASSUME WorkersInv, LimitsBelow, Room, NEW w \in Workers, NEW p \in Priority \ {"High"}
                PROVE  Count(heap[w], p) <= priorityLimit[w][p]
    BY DEF QuotasCover
  <2>1. Count(heap[w], p) <= limits[w].of[p] /\ limits[w].of[p] <= priorityLimit[w][p]
    BY DEF Room, Roomy, LimitsBelow
  <2>2. /\ Count(heap[w], p) \in Nat /\ limits[w].of[p] \in Nat /\ priorityLimit[w][p] \in Nat
    <3>1. /\ IsFiniteSet(heap[w]) /\ w \in WorkerIds /\ p \in Priorities
          /\ limits \in [Workers -> [total : Nat, of : [Priorities -> Nat]]]
          /\ priorityLimit \in [WorkerIds -> [Priorities -> Nat]]
      BY WorkerAssumption DEF WorkersInv, ItemInv, Numbered, WorkerTypes, QuotaTypes
    <3>2. IsFiniteSet({i \in heap[w] : i.priority = p}) /\ limits[w].of \in [Priorities -> Nat]
      BY <3>1, FS_Subset
    <3>. QED
      BY <3>1, <3>2, FS_CardinalityType DEF Count
  <2>. QED
    BY <2>1, <2>2
<1>. HIDE DEF Kept
<1>4. Spec /\ [][Kept]_vars => []QuotasCover
  BY <1>1, <1>2, <1>3, RoomInit, RoomStep, WorkersInvariant, PTL DEF Spec
<1>5. QuotasKept => [][Kept]_vars
  BY DEF QuotasKept, Kept
<1>. QED
  BY <1>4, <1>5, RequeueHolds, NoPacketLostHolds, CountersMatchHold, PTL

=============================================================================
