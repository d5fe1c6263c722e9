--------------------------- MODULE SingleCpuProofs ---------------------------
(***************************************************************************)
(* What is proved of SingleCpuPipeline, for any sockets, budgets, sizes,   *)
(* capacities, batches, windows and percentiles.                           *)
(*                                                                         *)
(* InversionHolds.  A queue is in the order of arrival, and each packet of *)
(* it is due one of the budgets of its class after it arrived: so no       *)
(* packet is due before the front one by more than two budgets differ, and *)
(* the packet chosen was due no later than any front packet.               *)
(*                                                                         *)
(* PacketsAreAccounted and BuffersAreConserved.  FlowInv says what each    *)
(* thread holds at each of its places.  Balance and PoolInv count it, with *)
(* the number of places of a sequence that are marked: each step moves at  *)
(* most one packet or buffer from one holder to the next.                  *)
(*                                                                         *)
(* SnapshotHolds.  The latencies kept of a class are linked, place by      *)
(* place and in order, to the entries recorded of it, all of those in the  *)
(* window among them (Linked).  A trim leaves those of the window alone:   *)
(* the link is then a bijection, and a percentile is found by counting the *)
(* places up to its rank and those from its rank on.                       *)
(***************************************************************************)
EXTENDS SingleCpuPipeline, FiniteSetTheorems, WellFoundedInduction, TLAPS

Packet == [id : Nat, of : Priority, ts : Nat, due : Nat, buffer : Nat]

\* The types of what an arrival is computed from.
ArrivalTypes ==
  /\ now \in Nat
  /\ at \in Nat \ {0}
  /\ edfPc = "receive" => at <= Len(Inputs)
  /\ lease \in Nat /\ nextId \in Nat
  /\ edfQueue \in [Priority -> Seq(Packet)]

\* The i-th packet of p was due one of the budgets of p after it arrived.
WasBudgeted(p, i) ==
  \E j \in 1 .. Len(Inputs) :
    Inputs[j].of = p /\ edfQueue[p][i].due = edfQueue[p][i].ts + Inputs[j].budget

\* Each queue is in the order of arrival.
ByArrival ==
  \A p \in Priority : \A i \in 1 .. Len(edfQueue[p]) :
    /\ edfQueue[p][i].ts <= now
    /\ WasBudgeted(p, i)
    /\ \A k \in i .. Len(edfQueue[p]) : edfQueue[p][i].ts <= edfQueue[p][k].ts

InversionInv == ArrivalTypes /\ ByArrival /\ InversionBounded

-----------------------------------------------------------------------------

\* A set of natural numbers has a least element.
LEMMA LeastNatural ==
  ASSUME NEW S \in SUBSET Nat, S # {}
  PROVE  \E m \in S : \A n \in S : m <= n
<1>. DEFINE R == {ss \in Nat \X Nat : ss[1] < ss[2]}
<1>1. IsWellFoundedOn(R, Nat)
  BY NatLessThanWellFounded, Zenon DEF OpToRel
<1>. HIDE DEF R
<1>2. PICK m \in S : \A n \in S : ~(<<n, m>> \in R)
  BY <1>1, WFMin
<1>3. \A n \in S : ~(n < m)
  BY <1>2 DEF R
<1>. QED
  BY <1>3

\* Size classes are sizes: none is zero (size_class_for).
LEMMA SizeClassType ==
  ASSUME NEW len \in Nat
  PROVE  SizeClass(len) \in Nat \ {0}
<1>. DEFINE room == {s \in BufferSizes : s >= len}
<1>1. room \subseteq Nat \ {0}
  BY DEF BufferSizes, MaxBufferSize
<1>2. CASE room = {}
  BY <1>2 DEF SizeClass, MaxBufferSize
<1>3. CASE room # {}
  <2>. DEFINE least == CHOOSE s \in room : \A t \in room : s <= t
  <2>1. room \in SUBSET Nat
    BY <1>1
  <2>2. \E s \in room : \A t \in room : s <= t
    BY <1>3, <2>1, LeastNatural
  <2>. HIDE DEF room
  <2>3. least \in room
    BY <2>2
  <2>. QED
    BY <1>1, <1>3, <2>3 DEF SizeClass, room
<1>. QED
  BY <1>2, <1>3

LEMMA ClassType == Class \subseteq Nat \ {0}
BY SizeClassType, PoolAssumption DEF Class

\* Polling goes on at a socket, or behind the last.
LEMMA PolledType ==
  ASSUME NEW i \in Nat \ {0}, NEW empty
  PROVE  PolledFrom(i, empty) \in Nat \ {0}
<1>. DEFINE polled == {j \in i .. Len(Inputs) : Inputs[j].of \in empty}
<1>0. Len(Inputs) \in Nat
  BY SingleCpuAssumption
<1>1. polled \subseteq Nat \ {0}
  BY <1>0
<1>2. CASE polled = {}
  BY <1>0, <1>2 DEF PolledFrom
<1>3. CASE polled # {}
  <2>. DEFINE least == CHOOSE j \in polled : \A k \in polled : j <= k
  <2>1. \E j \in polled : \A k \in polled : j <= k
    BY <1>1, <1>3, LeastNatural
  <2>. HIDE DEF polled
  <2>2. least \in polled
    BY <2>1
  <2>3. least \in Nat \ {0}
    BY <1>1, <2>2
  <2>. QED
    BY <1>3, <2>3 DEF PolledFrom, polled
<1>. QED
  BY <1>2, <1>3

\* What the assumptions say of a socket.
LEMMA SocketType ==
  ASSUME NEW j \in 1 .. Len(Inputs)
  PROVE  Inputs[j].of \in Served /\ Inputs[j].budget \in Nat
<1>. DEFINE Socket == [of : Served, budget : Nat]
<1>1. Inputs \in Seq(Socket)
  BY SingleCpuAssumption DEF Served
<1>. HIDE DEF Socket
<1>2. Inputs[j] \in Socket
  BY <1>1
<1>. QED
  BY <1>2 DEF Socket

\* The rank of a class is its place in Priority::ALL.
LEMMA RankType ==
  ASSUME NEW p \in Priority
  PROVE  Rank(p) \in 1 .. 4
<1>1. \E i \in 1 .. 4 : AllPriorities[i] = p
  BY ChannelAssumption
<1>. QED
  BY <1>1 DEF Rank

\* There is an earliest front packet, and Earliest is the class of one.
LEMMA EarliestChosen ==
  ASSUME ArrivalTypes, Filled # {}
  PROVE  Earliest \in Filled /\ \A q \in Filled : FrontDue(Earliest) <= FrontDue(q)
<1>. DEFINE Key(p) == 4 * FrontDue(p) + Rank(p)
            Before(p, q) ==
              FrontDue(p) < FrontDue(q) \/ (FrontDue(p) = FrontDue(q) /\ Rank(p) <= Rank(q))
<1>1. \A p \in Filled : FrontDue(p) \in Nat /\ Rank(p) \in 1 .. 4
  <2>. TAKE p \in Filled
  <2>1. p \in Priority /\ edfQueue[p] # <<>>
    BY DEF Filled, Served
  <2>2. edfQueue[p][1] \in Packet
    BY <2>1 DEF ArrivalTypes
  <2>. QED
    BY <2>1, <2>2, RankType DEF FrontDue, Packet
<1>2. {Key(p) : p \in Filled} \in SUBSET Nat /\ {Key(p) : p \in Filled} # {}
  BY <1>1
<1>3. PICK p \in Filled : \A q \in Filled : Key(p) <= Key(q)
  <2>. HIDE DEF Key
  <2>1. PICK m \in {Key(p) : p \in Filled} : \A n \in {Key(p) : p \in Filled} : m <= n
    BY <1>2, LeastNatural
  <2>2. PICK p \in Filled : m = Key(p)
    BY <2>1
  <2>. QED
    BY <2>1, <2>2
<1>4. \A q \in Filled : Before(p, q)
  BY <1>1, <1>3
<1>5. Earliest \in Filled /\ \A q \in Filled : Before(Earliest, q)
  BY <1>4 DEF Earliest
<1>. QED
  BY <1>1, <1>5

-----------------------------------------------------------------------------

LEMMA InversionInit == Init => InversionInv
<1>. SUFFICES ASSUME Init PROVE InversionInv
  OBVIOUS
<1>1. ArrivalTypes
  BY DEF Init, ChannelInit, EdfInit, ArrivalTypes
<1>2. ByArrival
  BY DEF Init, EdfInit, ByArrival
<1>3. InversionBounded
  BY DEF Init, EdfInit, InversionBounded
<1>. QED
  BY <1>1, <1>2, <1>3 DEF InversionInv

\* A step that leaves the queues alone and does not turn the clock back.
LEMMA OthersKeepBound ==
  ASSUME InversionInv, UNCHANGED <<edfQueue, chosen>>, now' \in Nat, now <= now',
         at' \in Nat \ {0}, lease' \in Nat, nextId' \in Nat,
         edfPc' = "receive" => at' <= Len(Inputs),
         edfPc' = "forward" => edfPc = "forward"
  PROVE  InversionInv'
<1>. USE DEF InversionInv
<1>1. ArrivalTypes'
  BY DEF ArrivalTypes
<1>2. ByArrival'
  <2>. SUFFICES ASSUME NEW p \in Priority, NEW i \in 1 .. Len(edfQueue[p])
                PROVE  /\ edfQueue[p][i].ts <= now'
                       /\ WasBudgeted(p, i)
                       /\ \A k \in i .. Len(edfQueue[p]) : edfQueue[p][i].ts <= edfQueue[p][k].ts
    BY DEF ByArrival, WasBudgeted
  <2>1. edfQueue[p][i] \in Packet
    BY DEF ArrivalTypes
  <2>2. edfQueue[p][i].ts \in Nat
    BY <2>1 DEF Packet
  <2>. QED
    BY <2>2 DEF ByArrival, ArrivalTypes
<1>3. InversionBounded'
  BY DEF InversionBounded
<1>. QED
  BY <1>1, <1>2, <1>3

\* The packet that arrives is the youngest of its queue and has a budget of its class.
LEMMA ArrivalKeepsBound ==
  ASSUME InversionInv, ReceiveDatagram
  PROVE  InversionInv'
<1>. DEFINE socket == Inputs[at]
            p == socket.of
            packet == [id |-> nextId, of |-> p, ts |-> now', due |-> now' + socket.budget,
                       buffer |-> lease]
<1>0. at \in 1 .. Len(Inputs)
  BY SingleCpuAssumption DEF InversionInv, ArrivalTypes, ReceiveDatagram
<1>1. p \in Priority /\ socket.budget \in Nat
  BY <1>0, SocketType DEF Served
<1>2. now' \in Nat /\ now <= now' /\ now \in Nat
  BY SingleCpuAssumption DEF InversionInv, ArrivalTypes, ReceiveDatagram, ReadClock
<1>3. packet \in Packet
  BY <1>1, <1>2 DEF InversionInv, ArrivalTypes, Packet
<1>. HIDE DEF Packet
<1>4. edfQueue[p] \in Seq(Packet) /\ edfQueue \in [Priority -> Seq(Packet)]
  BY <1>1 DEF InversionInv, ArrivalTypes
<1>5. edfQueue' = [edfQueue EXCEPT ![p] = Append(@, packet)]
  BY DEF ReceiveDatagram
<1>. DEFINE q == edfQueue[p]
            n == Len(edfQueue[p])
<1>6. packet.ts = now' /\ packet.due = packet.ts + socket.budget
  OBVIOUS
<1>. HIDE DEF packet
<1>7. /\ n \in Nat
      /\ Append(q, packet) \in Seq(Packet)
      /\ Len(Append(q, packet)) = n + 1
      /\ \A i \in 1 .. n : Append(q, packet)[i] = q[i]
      /\ Append(q, packet)[n + 1] = packet
  BY <1>3, <1>4
<1>8. edfPc' = "refill" /\ nextId' = nextId + 1 /\ lease' = 0 /\ at' = PolledFrom(at + 1, refilling)
  BY DEF ReceiveDatagram, NextSocket
<1>9. ArrivalTypes'
  <2>1. edfQueue' \in [Priority -> Seq(Packet)]
    BY <1>1, <1>4, <1>5, <1>7
  <2>2. at + 1 \in Nat \ {0} /\ nextId \in Nat
    BY DEF InversionInv, ArrivalTypes
  <2>3. at' \in Nat \ {0}
    BY <1>8, <2>2, PolledType
  <2>. QED
    BY <1>2, <1>8, <2>1, <2>2, <2>3 DEF ArrivalTypes
<1>10. ByArrival'
  <2>. SUFFICES ASSUME NEW r \in Priority, NEW i \in 1 .. Len(edfQueue'[r])
                PROVE  /\ edfQueue'[r][i].ts <= now'
                       /\ WasBudgeted(r, i)'
                       /\ \A k \in i .. Len(edfQueue'[r]) : edfQueue'[r][i].ts <= edfQueue'[r][k].ts
    BY DEF ByArrival
  <2>1. CASE r # p
    <3>1. edfQueue'[r] = edfQueue[r]
      BY <1>4, <1>5, <2>1
    <3>2. i \in 1 .. Len(edfQueue[r]) /\ edfQueue[r][i] \in Packet
      BY <1>4, <3>1
    <3>3. edfQueue[r][i].ts \in Nat
      BY <3>2 DEF Packet
    <3>4. /\ edfQueue[r][i].ts <= now
          /\ WasBudgeted(r, i)
          /\ \A k \in i .. Len(edfQueue[r]) : edfQueue[r][i].ts <= edfQueue[r][k].ts
      BY <3>2 DEF InversionInv, ByArrival
    <3>. QED
      BY <1>2, <3>1, <3>3, <3>4 DEF WasBudgeted
  <2>2. CASE r = p
    <3>1. edfQueue'[r] = Append(q, packet)
      BY <1>1, <1>4, <1>5, <2>2
    <3>2. i \in 1 .. n + 1
      BY <1>7, <3>1
    <3>3. CASE i = n + 1
      <4>1. edfQueue'[r][i] = packet
        BY <1>7, <3>1, <3>3
      <4>2. \A k \in i .. Len(edfQueue'[r]) : k = i
        BY <1>7, <3>1, <3>3
      <4>3. WasBudgeted(r, i)'
        BY <1>0, <1>6, <2>2, <4>1 DEF WasBudgeted
      <4>. QED
        BY <1>2, <1>6, <4>1, <4>2, <4>3
    <3>4. CASE i \in 1 .. n
      <4>1. edfQueue'[r][i] = q[i] /\ q[i] \in Packet
        BY <1>4, <1>7, <3>1, <3>4
      <4>2. q[i].ts \in Nat
        BY <4>1 DEF Packet
      <4>3. /\ q[i].ts <= now
            /\ WasBudgeted(p, i)
            /\ \A k \in i .. n : q[i].ts <= q[k].ts
        BY <1>1, <3>4 DEF InversionInv, ByArrival
      <4>4. q[i].ts <= now'
        BY <1>2, <4>2, <4>3
      <4>5. ASSUME NEW k \in i .. Len(edfQueue'[r])
            PROVE  edfQueue'[r][i].ts <= edfQueue'[r][k].ts
        <5>1. k \in i .. n \/ k = n + 1
          BY <1>7, <3>1, <3>4
        <5>2. CASE k = n + 1
          BY <1>6, <1>7, <3>1, <4>1, <4>4, <5>2
        <5>3. CASE k \in i .. n
          BY <1>7, <3>1, <3>4, <4>1, <4>3, <5>3
        <5>. QED
          BY <5>1, <5>2, <5>3
      <4>6. WasBudgeted(r, i)'
        BY <2>2, <4>1, <4>3 DEF WasBudgeted
      <4>. QED
        BY <4>1, <4>4, <4>5, <4>6
    <3>. QED
      BY <1>7, <3>2, <3>3, <3>4
  <2>. QED
    BY <2>1, <2>2
<1>11. InversionBounded'
  BY <1>8 DEF InversionBounded
<1>. QED
  BY <1>9, <1>10, <1>11 DEF InversionInv

\* The packet chosen is due no later than the front of any queue, and the rest of a queue
\* is due no earlier than its front but for the difference of their budgets.
LEMMA ChoiceKeepsBound ==
  ASSUME InversionInv, Choose
  PROVE  InversionInv'
<1>. DEFINE e == Earliest
<1>1. e \in Filled /\ \A q \in Filled : FrontDue(e) <= FrontDue(q)
  BY EarliestChosen DEF InversionInv, Choose
<1>2. e \in Priority /\ edfQueue[e] # <<>>
  BY <1>1 DEF Filled, Served
<1>. HIDE DEF e
<1>3. /\ chosen' = edfQueue[e][1]
      /\ edfQueue' = [edfQueue EXCEPT ![e] = Tail(@)]
      /\ at' = 1 /\ edfPc' = "forward"
      /\ UNCHANGED <<now, lease, nextId>>
  BY DEF Choose, channelVars, e
<1>4. now \in Nat /\ edfQueue \in [Priority -> Seq(Packet)]
  BY DEF InversionInv, ArrivalTypes
<1>. DEFINE n == Len(edfQueue[e])
<1>5. /\ n \in Nat \ {0}
      /\ Tail(edfQueue[e]) \in Seq(Packet)
      /\ Len(Tail(edfQueue[e])) = n - 1
      /\ \A i \in 1 .. n - 1 : Tail(edfQueue[e])[i] = edfQueue[e][i + 1]
  BY <1>2, <1>4
<1>6. ArrivalTypes'
  BY <1>2, <1>3, <1>4, <1>5 DEF InversionInv, ArrivalTypes
\* Every packet that is left was in the queue, behind what was there before it.
<1>7. ASSUME NEW r \in Priority, NEW i \in 1 .. Len(edfQueue'[r])
      PROVE  \E d \in {0, 1} :
               /\ i + d \in 1 .. Len(edfQueue[r])
               /\ Len(edfQueue[r]) = Len(edfQueue'[r]) + d
               /\ \A k \in 1 .. Len(edfQueue'[r]) : edfQueue'[r][k] = edfQueue[r][k + d]
  <2>1. CASE r = e
    <3>1. edfQueue'[r] = Tail(edfQueue[e])
      BY <1>2, <1>3, <1>4, <2>1
    <3>2. i + 1 \in 1 .. n /\ n = Len(edfQueue'[r]) + 1
      BY <1>5, <3>1
    <3>3. \A k \in 1 .. Len(edfQueue'[r]) : edfQueue'[r][k] = edfQueue[r][k + 1]
      BY <1>5, <2>1, <3>1
    <3>. QED
      BY <2>1, <3>2, <3>3
  <2>2. CASE r # e
    <3>1. edfQueue'[r] = edfQueue[r] /\ Len(edfQueue[r]) \in Nat
      BY <1>3, <1>4, <2>2
    <3>. QED
      BY <3>1
  <2>. QED
    BY <2>1, <2>2
<1>8. ByArrival'
  <2>. SUFFICES ASSUME NEW r \in Priority, NEW i \in 1 .. Len(edfQueue'[r])
                PROVE  /\ edfQueue'[r][i].ts <= now'
                       /\ WasBudgeted(r, i)'
                       /\ \A k \in i .. Len(edfQueue'[r]) : edfQueue'[r][i].ts <= edfQueue'[r][k].ts
    BY DEF ByArrival
  <2>1. PICK d \in {0, 1} :
           /\ i + d \in 1 .. Len(edfQueue[r])
           /\ Len(edfQueue[r]) = Len(edfQueue'[r]) + d
           /\ \A k \in 1 .. Len(edfQueue'[r]) : edfQueue'[r][k] = edfQueue[r][k + d]
    BY <1>7
  <2>2. /\ edfQueue[r][i + d].ts <= now
        /\ WasBudgeted(r, i + d)
        /\ \A k \in i + d .. Len(edfQueue[r]) : edfQueue[r][i + d].ts <= edfQueue[r][k].ts
    BY <2>1 DEF InversionInv, ByArrival
  <2>3. edfQueue'[r][i] = edfQueue[r][i + d]
    BY <2>1
  <2>4. WasBudgeted(r, i)'
    BY <2>2, <2>3 DEF WasBudgeted
  <2>5. Len(edfQueue'[r]) \in Nat
    BY <1>6 DEF ArrivalTypes
  <2>6. ASSUME NEW k \in i .. Len(edfQueue'[r])
        PROVE  edfQueue'[r][i].ts <= edfQueue'[r][k].ts
    <3>1. k + d \in i + d .. Len(edfQueue[r]) /\ k \in 1 .. Len(edfQueue'[r])
      BY <2>1, <2>5
    <3>. QED
      BY <2>1, <2>2, <2>3, <3>1
  <2>. QED
    BY <1>3, <2>2, <2>3, <2>4, <2>6
<1>9. InversionBounded'
  <2>. SUFFICES ASSUME NEW r \in Priority, NEW i \in 1 .. Len(edfQueue'[r])
                PROVE  \E j, k \in 1 .. Len(Inputs) :
                         /\ Inputs[j].of = r /\ Inputs[k].of = r
                         /\ chosen'.due <= edfQueue'[r][i].due + Inputs[j].budget - Inputs[k].budget
    BY DEF InversionBounded
  <2>1. PICK d \in {0, 1} :
           i + d \in 1 .. Len(edfQueue[r]) /\ edfQueue'[r][i] = edfQueue[r][i + d]
    BY <1>7
  <2>. DEFINE front == edfQueue[r][1]
              packet == edfQueue[r][i + d]
  <2>2. 1 \in 1 .. Len(edfQueue[r]) /\ edfQueue[r] # <<>> /\ i + d \in 1 .. Len(edfQueue[r])
    BY <1>4, <2>1
  <2>3. WasBudgeted(r, 1) /\ WasBudgeted(r, i + d) /\ front.ts <= packet.ts
    BY <2>2 DEF InversionInv, ByArrival
  <2>4. PICK j \in 1 .. Len(Inputs) :
           Inputs[j].of = r /\ front.due = front.ts + Inputs[j].budget
    BY <2>3 DEF WasBudgeted
  <2>5. PICK k \in 1 .. Len(Inputs) :
           Inputs[k].of = r /\ packet.due = packet.ts + Inputs[k].budget
    BY <2>3 DEF WasBudgeted
  <2>6. r \in Filled
    BY <2>2, <2>4, SocketType DEF Filled
  <2>7. edfQueue[e][1].due <= front.due
    BY <1>1, <2>6 DEF FrontDue, e
  <2>8. front \in Packet /\ packet \in Packet /\ edfQueue[e][1] \in Packet
    BY <1>2, <1>4, <2>2
  <2>9. front.ts \in Nat /\ packet.ts \in Nat /\ edfQueue[e][1].due \in Nat
    BY <2>8 DEF Packet
  <2>10. Inputs[j].budget \in Nat /\ Inputs[k].budget \in Nat
    BY SocketType
  <2>. HIDE DEF front, packet
  <2>11. edfQueue[e][1].due <= packet.ts + Inputs[j].budget
    BY <2>3, <2>4, <2>7, <2>9, <2>10
  <2>12. packet.ts = packet.due - Inputs[k].budget
    BY <2>5, <2>9, <2>10
  <2>13. edfQueue[e][1].due <= packet.due + Inputs[j].budget - Inputs[k].budget
    BY <2>5, <2>9, <2>10, <2>11, <2>12
  <2>. QED
    BY <1>3, <2>1, <2>4, <2>5, <2>13 DEF packet
<1>. QED
  BY <1>6, <1>8, <1>9 DEF InversionInv

LEMMA EdfKeepsBound ==
  ASSUME InversionInv, EdfStep
  PROVE  InversionInv'
<1>. USE DEF InversionInv, ArrivalTypes
<1>0. Len(Inputs) \in Nat
  BY SingleCpuAssumption
<1>1. CASE BeginNext
  <2>1. at' \in Nat \ {0}
    BY <1>1, PolledType DEF BeginNext
  <2>. QED
    BY <1>1, <2>1, OthersKeepBound DEF BeginNext, channelVars
<1>2. CASE EdfExit
  BY <1>2, OthersKeepBound DEF EdfExit, channelVars
<1>3. CASE ReceiveDatagram
  BY <1>3, ArrivalKeepsBound
<1>4. CASE ReceiveNothing
  <2>1. at + 1 \in Nat \ {0} /\ at' = PolledFrom(at + 1, refilling)
    BY <1>4 DEF ReceiveNothing, NextSocket
  <2>2. at' \in Nat \ {0}
    BY <2>1, PolledType
  <2>. QED
    BY <1>4, <2>2, OthersKeepBound DEF ReceiveNothing, NextSocket, channelVars
<1>5. CASE ChooseNone
  BY <1>5, OthersKeepBound DEF ChooseNone, channelVars
<1>6. CASE Choose
  BY <1>6, ChoiceKeepsBound
<1>7. CASE Forward
  <2>1. ArrivalTypes'
    BY <1>7 DEF Forward
  <2>2. ByArrival'
    BY <1>7 DEF Forward, ByArrival, WasBudgeted
  <2>3. InversionBounded'
    BY <1>7 DEF Forward, InversionBounded
  <2>. QED
    BY <2>1, <2>2, <2>3
<1>8. CASE \E hint \in Hints : LeaseBuffer(hint)
  <2>1. PICK hint \in Hints : LeaseBuffer(hint)
    BY <1>8
  <2>2. hint \in Nat
    BY PoolAssumption
  <2>3. lease' \in Nat
    BY <2>1, <2>2, SizeClassType DEF LeaseBuffer
  <2>. QED
    BY <2>1, <2>3, OthersKeepBound DEF LeaseBuffer, channelVars
<1>. QED
  BY <1>1, <1>2, <1>3, <1>4, <1>5, <1>6, <1>7, <1>8 DEF EdfStep

\* Egress, the collector and shutdown leave the scheduler alone.
LEMMA InversionStep == InversionInv /\ [Next]_vars => InversionInv'
<1>. SUFFICES ASSUME InversionInv, [Next]_vars PROVE InversionInv'
  OBVIOUS
<1>0. ASSUME UNCHANGED edfVars, now' \in now .. MaxTime \/ now' = now PROVE InversionInv'
  <2>1. now \in Nat /\ MaxTime \in Nat
    BY SingleCpuAssumption DEF InversionInv, ArrivalTypes
  <2>2. now' \in Nat /\ now <= now'
    BY <1>0, <2>1
  <2>. QED
    BY <1>0, <2>2, OthersKeepBound DEF edfVars, InversionInv, ArrivalTypes
<1>1. CASE Edf
  BY <1>1, EdfKeepsBound DEF Edf
<1>2. CASE Egress
  <2>1. now' \in now .. MaxTime \/ now' = now
    BY <1>2 DEF Egress, EgressRecord, ReadClock, EgressStep, BeginPass, EgressExit,
                SkipPriority, SendOut, ReceiveOut, channelVars
  <2>. QED
    BY <1>0, <1>2, <2>1 DEF Egress
<1>3. CASE Metrics
  <2>1. now' \in now .. MaxTime \/ now' = now
    BY <1>3 DEF Metrics, Processor, Gather, TakeMutex, ReadClock, channelVars
  <2>. QED
    BY <1>0, <1>3, <2>1 DEF Metrics
<1>4. CASE Statistics
  <2>1. now' \in now .. MaxTime \/ now' = now
    BY <1>4 DEF Statistics, StatisticsExit, ReadClock, channelVars
  <2>. QED
    BY <1>0, <1>4, <2>1 DEF Statistics
<1>5. CASE Shutdown
  BY <1>0, <1>5 DEF Shutdown, Stop
<1>6. CASE UNCHANGED vars
  BY <1>0, <1>6 DEF vars, channelVars
<1>. QED
  BY <1>1, <1>2, <1>3, <1>4, <1>5, <1>6 DEF Next

(***************************************************************************)
(* Whatever the sockets, their budgets and the traffic, a packet that is   *)
(* processed is due after one that waits by no more than two budgets in    *)
(* the class of the latter differ (refill_edf and process_next).           *)
(***************************************************************************)
THEOREM InversionHolds == Spec => []InversionBounded
<1>1. InversionInv => InversionBounded
  BY DEF InversionInv
<1>. QED
  BY <1>1, InversionInit, InversionStep, PTL DEF Spec

-----------------------------------------------------------------------------
(* Counting: how many of a sequence are of a class, how many of the        *)
(* queues' packets have a buffer of a size class.                          *)

Marked(s, p) == {i \in 1 .. Len(s) : s[i].of = p}

\* The places of the queues s whose packets have a buffer of class c.
Slots(s, c) ==
  UNION {{<<p, i>> : i \in {j \in 1 .. Len(s[p]) : s[p][j].buffer = c}} : p \in Priority}

LEMMA OneType == \A b \in BOOLEAN : One(b) \in Nat
BY DEF One

LEMMA SameSize ==
  ASSUME NEW S, NEW T, IsFiniteSet(S), NEW f \in Bijection(S, T)
  PROVE  IsFiniteSet(T) /\ Cardinality(T) = Cardinality(S)
<1>1. ExistsBijection(S, T)
  BY DEF ExistsBijection
<1>. QED
  BY <1>1, FS_Bijection

LEMMA MarkedFinite ==
  ASSUME NEW E, NEW s \in Seq(E), NEW p
  PROVE  IsFiniteSet(Marked(s, p)) /\ Cardinality(Marked(s, p)) \in Nat
<1>1. Len(s) \in Nat /\ Marked(s, p) \in SUBSET (1 .. Len(s)) /\ IsFiniteSet(1 .. Len(s))
  BY FS_Interval DEF Marked
<1>2. IsFiniteSet(Marked(s, p))
  BY <1>1, FS_Subset
<1>. QED
  BY <1>2, FS_CardinalityType

LEMMA MarkedAppend ==
  ASSUME NEW E, NEW s \in Seq(E), NEW e \in E, NEW p
  PROVE  Cardinality(Marked(Append(s, e), p)) = Cardinality(Marked(s, p)) + One(e.of = p)
<1>1. /\ Len(Append(s, e)) = Len(s) + 1 /\ Len(s) \in Nat
      /\ Append(s, e)[Len(s) + 1] = e
      /\ \A i \in 1 .. Len(s) : Append(s, e)[i] = s[i]
  OBVIOUS
<1>2. CASE e.of = p
  <2>1. Marked(Append(s, e), p) = Marked(s, p) \cup {Len(s) + 1}
    BY <1>1, <1>2 DEF Marked
  <2>2. Len(s) + 1 \notin Marked(s, p)
    BY <1>1 DEF Marked
  <2>. QED
    BY <1>2, <2>1, <2>2, MarkedFinite, FS_AddElement DEF One
<1>3. CASE e.of # p
  <2>1. Marked(Append(s, e), p) = Marked(s, p)
    BY <1>1, <1>3 DEF Marked
  <2>. QED
    BY <1>3, <2>1, MarkedFinite DEF One
<1>. QED
  BY <1>2, <1>3

LEMMA MarkedConcat ==
  ASSUME NEW E, NEW s \in Seq(E), NEW t \in Seq(E), NEW p
  PROVE  Cardinality(Marked(s \o t, p)) = Cardinality(Marked(s, p)) + Cardinality(Marked(t, p))
<1>1. /\ Len(s \o t) = Len(s) + Len(t) /\ Len(s) \in Nat /\ Len(t) \in Nat
      /\ \A i \in 1 .. Len(s) : (s \o t)[i] = s[i]
      /\ \A i \in 1 .. Len(t) : (s \o t)[Len(s) + i] = t[i]
  OBVIOUS
<1>2. PICK n \in Nat : n = Len(s)
  BY <1>1
<1>. DEFINE B == {n + i : i \in Marked(t, p)}
            f == [i \in Marked(t, p) |-> n + i]
<1>3. Marked(t, p) \subseteq Nat
  BY <1>1 DEF Marked
<1>4. f \in Bijection(Marked(t, p), B)
  <2>1. f \in Injection(Marked(t, p), B)
    BY <1>3 DEF Injection, IsInjective
  <2>2. f \in Surjection(Marked(t, p), B)
    BY <1>3 DEF Surjection
  <2>. QED
    BY <2>1, <2>2 DEF Bijection
<1>5. IsFiniteSet(B) /\ Cardinality(B) = Cardinality(Marked(t, p))
  BY <1>4, MarkedFinite, SameSize
<1>6. Marked(s \o t, p) = Marked(s, p) \cup B
  <2>1. ASSUME NEW i \in Marked(s \o t, p) PROVE i \in Marked(s, p) \cup B
    <3>1. i \in 1 .. n + Len(t) /\ (s \o t)[i].of = p
      BY <1>1, <1>2 DEF Marked
    <3>2. CASE i <= n
      BY <1>1, <1>2, <3>1, <3>2 DEF Marked
    <3>3. CASE i > n
      <4>1. i - n \in 1 .. Len(t) /\ n + (i - n) = i
        BY <1>1, <3>1, <3>3
      <4>2. i - n \in Marked(t, p)
        BY <1>1, <1>2, <3>1, <4>1 DEF Marked
      <4>. QED
        BY <4>1, <4>2
    <3>. QED
      BY <3>1, <3>2, <3>3
  <2>2. ASSUME NEW i \in Marked(s, p) PROVE i \in Marked(s \o t, p)
    BY <1>1 DEF Marked
  <2>3. ASSUME NEW i \in B PROVE i \in Marked(s \o t, p)
    <3>1. PICK j \in Marked(t, p) : i = n + j
      OBVIOUS
    <3>. QED
      BY <1>1, <1>2, <3>1 DEF Marked
  <2>. QED
    BY <2>1, <2>2, <2>3
<1>7. Marked(s, p) \cap B = {}
  BY <1>1, <1>2, <1>3 DEF Marked
<1>. HIDE DEF B, f
<1>8. IsFiniteSet(Marked(s, p)) /\ Cardinality(Marked(s, p)) \in Nat
  BY MarkedFinite
<1>9. Cardinality(B) \in Nat
  BY <1>5, FS_CardinalityType
<1>10. /\ Cardinality(Marked(s, p) \cup B) =
             Cardinality(Marked(s, p)) + Cardinality(B) - Cardinality(Marked(s, p) \cap B)
  BY <1>5, <1>8, FS_Union
<1>11. Cardinality(Marked(s, p) \cap B) = 0
  BY <1>7, FS_EmptySet
<1>. QED
  BY <1>5, <1>6, <1>8, <1>9, <1>10, <1>11

LEMMA MarkedTail ==
  ASSUME NEW E, NEW s \in Seq(E), s # <<>>, NEW p
  PROVE  Cardinality(Marked(s, p)) = Cardinality(Marked(Tail(s), p)) + One(Head(s).of = p)
<1>1. <<Head(s)>> \in Seq(E) /\ Tail(s) \in Seq(E) /\ s = <<Head(s)>> \o Tail(s)
  OBVIOUS
<1>2. PICK e \in E : e = Head(s)
  OBVIOUS
<1>3. <<>> \in Seq(E) /\ <<Head(s)>> = Append(<<>>, e)
  BY <1>2
<1>4. Marked(<<>>, p) = {}
  BY DEF Marked
<1>5. Cardinality(Marked(<<Head(s)>>, p)) = 0 + One(e.of = p)
  <2>1. Cardinality(Marked(Append(<<>>, e), p)) = Cardinality(Marked(<<>>, p)) + One(e.of = p)
    <3>1. PICK z \in Seq(E) : z = <<>>
      BY <1>3
    <3>2. Cardinality(Marked(Append(z, e), p)) = Cardinality(Marked(z, p)) + One(e.of = p)
      BY MarkedAppend
    <3>. QED
      BY <3>1, <3>2
  <2>. QED
    BY <1>3, <1>4, <2>1, FS_EmptySet
<1>6. Cardinality(Marked(s, p)) = Cardinality(Marked(<<Head(s)>>, p)) + Cardinality(Marked(Tail(s), p))
  <2>1. PICK a \in Seq(E), b \in Seq(E) : a = <<Head(s)>> /\ b = Tail(s)
    BY <1>1
  <2>2. Cardinality(Marked(a \o b, p)) = Cardinality(Marked(a, p)) + Cardinality(Marked(b, p))
    BY MarkedConcat
  <2>3. a \o b = s
    BY <1>1, <2>1
  <2>. QED
    BY <2>1, <2>2, <2>3
<1>7. Cardinality(Marked(Tail(s), p)) \in Nat /\ One(e.of = p) \in Nat
  BY <1>1, MarkedFinite, OneType
<1>. QED
  BY <1>2, <1>5, <1>6, <1>7

LEMMA SlotIs ==
  ASSUME NEW s, NEW c, NEW q \in Priority, NEW i \in 1 .. Len(s[q]), s[q][i].buffer = c
  PROVE  <<q, i>> \in Slots(s, c)
BY DEF Slots

\* A packet joins the queue of p at the end; the front one leaves it.
Joined(s, p, e) == [s EXCEPT ![p] = Append(@, e)]
Left(s, p) == [s EXCEPT ![p] = Tail(@)]

LEMMA SlotsAppend ==
  ASSUME NEW E, NEW s \in [Priority -> Seq(E)], NEW e \in E, NEW p \in Priority, NEW c,
         IsFiniteSet(Slots(s, c))
  PROVE  /\ IsFiniteSet(Slots(Joined(s, p, e), c))
         /\ Cardinality(Slots(Joined(s, p, e), c)) = Cardinality(Slots(s, c)) + One(e.buffer = c)
<1>0. PICK s2 : s2 = Joined(s, p, e)
  OBVIOUS
<1>. SUFFICES /\ IsFiniteSet(Slots(s2, c))
              /\ Cardinality(Slots(s2, c)) = Cardinality(Slots(s, c)) + One(e.buffer = c)
  BY <1>0
<1>. s2 = [s EXCEPT ![p] = Append(@, e)]
  BY <1>0 DEF Joined
<1>1. /\ Len(s2[p]) = Len(s[p]) + 1 /\ Len(s[p]) \in Nat
      /\ s2[p][Len(s[p]) + 1] = e
      /\ \A i \in 1 .. Len(s[p]) : s2[p][i] = s[p][i]
      /\ \A q \in Priority : q # p => s2[q] = s[q]
  OBVIOUS
<1>2. CASE e.buffer = c
  <2>1. Slots(s2, c) = Slots(s, c) \cup {<<p, Len(s[p]) + 1>>}
    <3>1. ASSUME NEW x \in Slots(s2, c) PROVE x \in Slots(s, c) \cup {<<p, Len(s[p]) + 1>>}
      <4>1. PICK q, i : q \in Priority /\ i \in 1 .. Len(s2[q]) /\ x = <<q, i>> /\ s2[q][i].buffer = c
        BY DEF Slots
      <4>. QED
        BY <1>1, <4>1 DEF Slots
    <3>2. ASSUME NEW x \in Slots(s, c) PROVE x \in Slots(s2, c)
      <4>1. PICK q, i : q \in Priority /\ i \in 1 .. Len(s[q]) /\ x = <<q, i>> /\ s[q][i].buffer = c
        BY DEF Slots
      <4>2. i \in 1 .. Len(s2[q]) /\ s2[q][i] = s[q][i]
        BY <1>1, <4>1
      <4>. QED
        BY <4>1, <4>2 DEF Slots
    <3>3. <<p, Len(s[p]) + 1>> \in Slots(s2, c)
      BY <1>1, <1>2 DEF Slots
    <3>. QED
      BY <3>1, <3>2, <3>3
  <2>2. <<p, Len(s[p]) + 1>> \notin Slots(s, c)
    BY <1>1 DEF Slots
  <2>3. PICK x, S : x = <<p, Len(s[p]) + 1>> /\ S = Slots(s, c)
    OBVIOUS
  <2>4. IsFiniteSet(S \cup {x}) /\ Cardinality(S \cup {x}) = Cardinality(S) + 1
    BY <2>2, <2>3, FS_AddElement
  <2>5. One(e.buffer = c) = 1
    BY <1>2 DEF One
  <2>. QED
    BY <2>1, <2>3, <2>4, <2>5
<1>3. CASE e.buffer # c
  <2>1. Slots(s2, c) = Slots(s, c)
    <3>1. ASSUME NEW x \in Slots(s2, c) PROVE x \in Slots(s, c)
      <4>1. PICK q, i : q \in Priority /\ i \in 1 .. Len(s2[q]) /\ x = <<q, i>> /\ s2[q][i].buffer = c
        BY DEF Slots
      <4>. QED
        BY <1>1, <1>3, <4>1 DEF Slots
    <3>2. ASSUME NEW x \in Slots(s, c) PROVE x \in Slots(s2, c)
      <4>1. PICK q, i : q \in Priority /\ i \in 1 .. Len(s[q]) /\ x = <<q, i>> /\ s[q][i].buffer = c
        BY DEF Slots
      <4>2. i \in 1 .. Len(s2[q]) /\ s2[q][i] = s[q][i]
        BY <1>1, <4>1
      <4>. QED
        BY <4>1, <4>2 DEF Slots
    <3>. QED
      BY <3>1, <3>2
  <2>2. Cardinality(Slots(s, c)) \in Nat
    BY FS_CardinalityType
  <2>. QED
    BY <1>3, <2>1, <2>2 DEF One
<1>. QED
  BY <1>2, <1>3

\* The others move up by one.
LEMMA SlotsTail ==
  ASSUME NEW E, NEW s \in [Priority -> Seq(E)], NEW p \in Priority, NEW c, s[p] # <<>>,
         IsFiniteSet(Slots(s, c))
  PROVE  /\ IsFiniteSet(Slots(Left(s, p), c))
         /\ Cardinality(Slots(s, c)) =
              Cardinality(Slots(Left(s, p), c)) + One(Head(s[p]).buffer = c)
<1>0. PICK s2 : s2 = Left(s, p)
  OBVIOUS
<1>. SUFFICES /\ IsFiniteSet(Slots(s2, c))
              /\ Cardinality(Slots(s, c)) = Cardinality(Slots(s2, c)) + One(Head(s[p]).buffer = c)
  BY <1>0
<1>. s2 = [s EXCEPT ![p] = Tail(@)]
  BY <1>0 DEF Left
<1>. DEFINE S == Slots(s, c) \ {<<p, 1>>}
            d(q) == IF q = p THEN 1 ELSE 0
            f == [x \in S |-> <<x[1], x[2] - d(x[1])>>]
<1>1. /\ Len(s[p]) \in Nat \ {0} /\ Len(s2[p]) = Len(s[p]) - 1 /\ Head(s[p]) = s[p][1]
      /\ \A i \in 1 .. Len(s2[p]) : s2[p][i] = s[p][i + 1]
      /\ \A q \in Priority : q # p => s2[q] = s[q]
      /\ \A q \in Priority : Len(s[q]) \in Nat
  OBVIOUS
<1>2. ASSUME NEW x \in S
      PROVE  /\ x = <<x[1], x[2]>> /\ x[1] \in Priority /\ x[2] \in 1 .. Len(s[x[1]])
             /\ s[x[1]][x[2]].buffer = c /\ (x[1] = p => x[2] # 1)
  BY DEF Slots
<1>3. ASSUME NEW x \in S PROVE f[x] \in Slots(s2, c)
  <2>1. PICK q, i : x = <<q, i>> /\ q \in Priority /\ i \in 1 .. Len(s[q])
                    /\ s[q][i].buffer = c /\ (q = p => i # 1)
    BY <1>2
  <2>2. f[x] = <<q, i - d(q)>>
    BY <2>1
  <2>3. i - d(q) \in 1 .. Len(s2[q]) /\ s2[q][i - d(q)] = s[q][i]
    <3>1. CASE q = p
      <4>1. i - 1 \in 1 .. Len(s2[p]) /\ (i - 1) + 1 = i
        BY <1>1, <2>1, <3>1
      <4>. QED
        BY <1>1, <3>1, <4>1
    <3>2. CASE q # p
      BY <1>1, <2>1, <3>2
    <3>. QED
      BY <3>1, <3>2
  <2>4. <<q, i - d(q)>> \in Slots(s2, c)
    <3>1. PICK k : k = i - d(q)
      OBVIOUS
    <3>2. <<q, k>> \in Slots(s2, c)
      BY <2>1, <2>3, <3>1, SlotIs
    <3>. QED
      BY <3>1, <3>2
  <2>. QED
    BY <2>2, <2>4
<1>4. ASSUME NEW x \in S, NEW y \in S, f[x] = f[y] PROVE x = y
  <2>1. x[1] = y[1] /\ x[2] - d(x[1]) = y[2] - d(y[1])
    BY <1>4
  <2>2. x[2] \in Int /\ y[2] \in Int /\ x = <<x[1], x[2]>> /\ y = <<y[1], y[2]>>
    BY <1>2
  <2>. QED
    BY <2>1, <2>2
<1>5. ASSUME NEW z \in Slots(s2, c) PROVE \E x \in S : f[x] = z
  <2>1. PICK q, i : q \in Priority /\ i \in 1 .. Len(s2[q]) /\ z = <<q, i>> /\ s2[q][i].buffer = c
    BY DEF Slots
  <2>2. /\ i + d(q) \in 1 .. Len(s[q]) /\ s[q][i + d(q)] = s2[q][i]
        /\ (i + d(q)) - d(q) = i /\ (q = p => i + d(q) # 1)
    BY <1>1, <2>1
  <2>3. <<q, i + d(q)>> \in Slots(s, c)
    BY <2>1, <2>2 DEF Slots
  <2>4. <<q, i + d(q)>> # <<p, 1>>
    BY <2>2
  <2>5. <<q, i + d(q)>> \in S /\ f[<<q, i + d(q)>>] = <<q, i>>
    BY <2>2, <2>3, <2>4
  <2>. QED
    BY <2>1, <2>5
<1>6. f \in Bijection(S, Slots(s2, c))
  <2>1. f \in Injection(S, Slots(s2, c))
    BY <1>3, <1>4 DEF Injection, IsInjective
  <2>2. f \in Surjection(S, Slots(s2, c))
    BY <1>3, <1>5 DEF Surjection
  <2>. QED
    BY <2>1, <2>2 DEF Bijection
<1>7. <<p, 1>> \in Slots(s, c) <=> Head(s[p]).buffer = c
  BY <1>1 DEF Slots
<1>8. /\ IsFiniteSet(S)
      /\ Cardinality(S) = IF <<p, 1>> \in Slots(s, c) THEN Cardinality(Slots(s, c)) - 1
                          ELSE Cardinality(Slots(s, c))
  BY FS_RemoveElement
<1>. HIDE DEF S, f
<1>9. IsFiniteSet(Slots(s2, c)) /\ Cardinality(Slots(s2, c)) = Cardinality(S)
  BY <1>6, <1>8, SameSize
<1>10. Cardinality(Slots(s, c)) \in Nat
  BY FS_CardinalityType
<1>. QED
  BY <1>7, <1>8, <1>9, <1>10 DEF One


-----------------------------------------------------------------------------
(* Who holds a packet or a buffer: the types of the queues and the hands.  *)

\* A packet with a buffer of a class there is.
Held == [id : Nat, of : Priority, ts : Nat, due : Nat, buffer : Class]

Event == [of : Priority, latency : Int, missed : BOOLEAN]

\* What the scheduler holds; a packet is in the queue of its class.
SchedulerTypes ==
  /\ edfQueue \in [Priority -> Seq(Held)]
  /\ \A p \in Priority : \A i \in 1 .. Len(edfQueue[p]) : edfQueue[p][i].of = p
  /\ IF edfPc = "forward" THEN chosen \in Held ELSE chosen = NoPacket
  /\ IF edfPc = "receive" THEN lease \in Class ELSE lease = 0
  /\ reads \in [Priority -> Nat] /\ outDrops \in [Priority -> Nat]

\* What egress holds.
EgressTypes ==
  /\ outQueue \in [Priority -> Seq(Held)]
  /\ IF egPc \in {"record", "send"} THEN outgoing \in Held /\ Order[place] \in Priority
     ELSE outgoing = NoPacket

\* What the collector holds.
CollectorTypes ==
  /\ events \in Seq(Event) /\ batch \in Seq(Event)
  /\ procPc = "record" => batch # <<>>
  /\ DOMAIN metrics = Priority
  /\ \A p \in Priority : metrics[p].count \in Nat

FlowInv == InversionInv /\ SchedulerTypes /\ EgressTypes /\ CollectorTypes

LEMMA HeldIs == \A packet \in Held : packet # NoPacket /\ packet.of \in Priority /\ packet.ts \in Nat
                                     /\ packet.buffer \in Class
BY DEF Held, NoPacket

LEMMA FlowInit == Init => FlowInv
<1>. SUFFICES ASSUME Init PROVE FlowInv
  OBVIOUS
<1>1. SchedulerTypes
  BY DEF Init, EdfInit, SchedulerTypes
<1>2. EgressTypes
  BY DEF Init, ChannelInit, EgressInit, EgressTypes
<1>3. CollectorTypes
  BY DEF Init, MetricsInit, NoMetrics, CollectorTypes
<1>. QED
  BY <1>1, <1>2, <1>3, InversionInit DEF FlowInv

\* The scheduler's steps keep what it holds typed.
LEMMA SchedulerKept ==
  ASSUME FlowInv, EdfStep
  PROVE  SchedulerTypes' /\ outQueue' \in [Priority -> Seq(Held)]
<1>. USE DEF FlowInv
<1>0. ASSUME UNCHANGED <<edfQueue, chosen, lease, reads, outDrops>>,
             edfPc' = "forward" <=> edfPc = "forward", edfPc' = "receive" <=> edfPc = "receive"
      PROVE  SchedulerTypes'
  BY <1>0 DEF SchedulerTypes
<1>. DEFINE Goal == SchedulerTypes' /\ outQueue' \in [Priority -> Seq(Held)]
<1>1. CASE BeginNext
  BY <1>0, <1>1 DEF BeginNext, channelVars, EgressTypes
<1>2. CASE EdfExit
  BY <1>0, <1>2 DEF EdfExit, channelVars, EgressTypes
<1>3. CASE ReceiveDatagram
  <2>. DEFINE socket == Inputs[at]
              packet == [id |-> nextId, of |-> socket.of, ts |-> now', due |-> now' + socket.budget,
                         buffer |-> lease]
  <2>1. at \in 1 .. Len(Inputs)
    BY <1>3, SingleCpuAssumption DEF InversionInv, ArrivalTypes, ReceiveDatagram
  <2>2. socket.of \in Priority /\ socket.budget \in Nat
    BY <2>1, SocketType DEF Served
  <2>3. now' \in Nat /\ nextId \in Nat
    BY <1>3, SingleCpuAssumption DEF InversionInv, ArrivalTypes, ReceiveDatagram, ReadClock
  <2>4. lease \in Class
    BY <1>3 DEF SchedulerTypes, ReceiveDatagram
  <2>5. packet \in Held /\ packet.of = socket.of
    BY <2>2, <2>3, <2>4 DEF Held
  <2>6. edfQueue' = [edfQueue EXCEPT ![socket.of] = Append(@, packet)]
    BY <1>3 DEF ReceiveDatagram
  <2>7. /\ edfPc' = "refill" /\ lease' = 0 /\ edfPc = "receive"
        /\ reads' = [reads EXCEPT ![socket.of] = @ + 1]
        /\ outDrops' = outDrops /\ chosen' = chosen /\ outQueue' = outQueue
    BY <1>3 DEF ReceiveDatagram, NextSocket
  <2>8. PICK p \in Priority, x \in Held : p = socket.of /\ x = packet /\ x.of = p
    BY <2>2, <2>5
  <2>. HIDE DEF socket, packet
  <2>9. edfQueue \in [Priority -> Seq(Held)] /\ edfQueue[p] \in Seq(Held)
    BY DEF SchedulerTypes
  <2>10. /\ Append(edfQueue[p], x) \in Seq(Held) /\ Len(Append(edfQueue[p], x)) = Len(edfQueue[p]) + 1
         /\ Len(edfQueue[p]) \in Nat
         /\ Append(edfQueue[p], x)[Len(edfQueue[p]) + 1] = x
         /\ \A i \in 1 .. Len(edfQueue[p]) : Append(edfQueue[p], x)[i] = edfQueue[p][i]
    BY <2>9
  <2>11. edfQueue' \in [Priority -> Seq(Held)] /\ edfQueue'[p] = Append(edfQueue[p], x)
         /\ \A q \in Priority : q # p => edfQueue'[q] = edfQueue[q]
    BY <2>6, <2>8, <2>9, <2>10
  <2>12. \A q \in Priority : \A i \in 1 .. Len(edfQueue'[q]) : edfQueue'[q][i].of = q
    <3>. TAKE q \in Priority
    <3>1. CASE q # p
      BY <2>11, <3>1 DEF SchedulerTypes
    <3>2. CASE q = p
      <4>. SUFFICES ASSUME NEW i \in 1 .. Len(edfQueue[p]) + 1
                    PROVE  Append(edfQueue[p], x)[i].of = p
        BY <2>10, <2>11, <3>2
      <4>1. CASE i = Len(edfQueue[p]) + 1
        BY <2>8, <2>10, <4>1
      <4>2. CASE i # Len(edfQueue[p]) + 1
        <5>1. i \in 1 .. Len(edfQueue[p])
          BY <2>10, <4>2
        <5>. QED
          BY <2>10, <5>1 DEF SchedulerTypes
      <4>. QED
        BY <4>1, <4>2
    <3>. QED
      BY <3>1, <3>2
  <2>13. reads' \in [Priority -> Nat]
    BY <2>7, <2>8 DEF SchedulerTypes
  <2>14. SchedulerTypes'
    BY <2>7, <2>11, <2>12, <2>13 DEF SchedulerTypes
  <2>. QED
    BY <2>7, <2>14 DEF EgressTypes
<1>4. CASE ReceiveNothing
  <2>1. SchedulerTypes'
    BY <1>4 DEF SchedulerTypes, ReceiveNothing, NextSocket, channelVars
  <2>. QED
    BY <1>4, <2>1 DEF ReceiveNothing, channelVars, EgressTypes
<1>5. CASE ChooseNone
  BY <1>0, <1>5 DEF ChooseNone, Refilled, channelVars, EgressTypes
<1>6. CASE Choose
  <2>1. Earliest \in Filled
    BY <1>6, EarliestChosen DEF InversionInv, Choose
  <2>2. PICK e \in Priority : e = Earliest /\ edfQueue[e] # <<>>
    BY <2>1 DEF Filled, Served
  <2>3. /\ chosen' = edfQueue[e][1]
        /\ edfQueue' = [edfQueue EXCEPT ![e] = Tail(@)]
        /\ edfPc' = "forward" /\ edfPc = "refill" /\ lease' = lease
        /\ reads' = reads /\ outDrops' = outDrops /\ outQueue' = outQueue
    BY <1>6, <2>2 DEF Choose, Refilled, channelVars
  <2>4. edfQueue \in [Priority -> Seq(Held)] /\ edfQueue[e] \in Seq(Held)
    BY DEF SchedulerTypes
  <2>5. /\ Tail(edfQueue[e]) \in Seq(Held) /\ Len(Tail(edfQueue[e])) = Len(edfQueue[e]) - 1
        /\ Len(edfQueue[e]) \in Nat \ {0}
        /\ \A i \in 1 .. Len(edfQueue[e]) - 1 : Tail(edfQueue[e])[i] = edfQueue[e][i + 1]
    BY <2>2, <2>4
  <2>6. edfQueue' \in [Priority -> Seq(Held)] /\ edfQueue'[e] = Tail(edfQueue[e])
        /\ \A q \in Priority : q # e => edfQueue'[q] = edfQueue[q]
    BY <2>3, <2>4, <2>5
  <2>7. \A q \in Priority : \A i \in 1 .. Len(edfQueue'[q]) : edfQueue'[q][i].of = q
    <3>. TAKE q \in Priority
    <3>1. CASE q # e
      BY <2>6, <3>1 DEF SchedulerTypes
    <3>2. CASE q = e
      <4>. SUFFICES ASSUME NEW i \in 1 .. Len(edfQueue[e]) - 1
                    PROVE  Tail(edfQueue[e])[i].of = e
        BY <2>5, <2>6, <3>2
      <4>1. i + 1 \in 1 .. Len(edfQueue[e])
        BY <2>5
      <4>. QED
        BY <2>5, <4>1 DEF SchedulerTypes
    <3>. QED
      BY <3>1, <3>2
  <2>8. edfQueue[e][1] \in Held
    BY <2>4, <2>5
  <2>9. SchedulerTypes'
    BY <2>3, <2>6, <2>7, <2>8 DEF SchedulerTypes
  <2>. QED
    BY <2>3, <2>9 DEF EgressTypes
<1>7. CASE Forward
  <2>1. PICK p \in Priority, x \in Held : p = chosen.of /\ x = chosen
    BY <1>7, HeldIs DEF SchedulerTypes, Forward
  <2>2. /\ chosen' = NoPacket /\ edfPc' = "top" /\ edfPc = "forward"
        /\ edfQueue' = edfQueue /\ lease' = lease /\ reads' = reads
    BY <1>7 DEF Forward
  <2>3. \/ outQueue' = [outQueue EXCEPT ![p] = Append(@, x)] /\ outDrops' = outDrops
        \/ outDrops' = [outDrops EXCEPT ![p] = @ + 1] /\ outQueue' = outQueue
    BY <1>7, <2>1 DEF Forward
  <2>4. outQueue \in [Priority -> Seq(Held)] /\ outQueue[p] \in Seq(Held)
    BY DEF EgressTypes
  <2>5. outQueue' \in [Priority -> Seq(Held)]
    <3>1. Append(outQueue[p], x) \in Seq(Held)
      BY <2>4
    <3>. QED
      BY <2>3, <2>4, <3>1
  <2>6. outDrops' \in [Priority -> Nat]
    <3>1. outDrops \in [Priority -> Nat]
      BY DEF SchedulerTypes
    <3>. QED
      BY <2>3, <3>1
  <2>7. SchedulerTypes'
    BY <2>2, <2>6 DEF SchedulerTypes
  <2>. QED
    BY <2>5, <2>7
<1>8. CASE \E hint \in Hints : LeaseBuffer(hint)
  <2>1. PICK hint \in Hints : LeaseBuffer(hint)
    BY <1>8
  <2>2. lease' \in Class
    BY <2>1 DEF LeaseBuffer, Class
  <2>3. SchedulerTypes'
    BY <2>1, <2>2 DEF SchedulerTypes, LeaseBuffer
  <2>. QED
    BY <2>1, <2>3 DEF LeaseBuffer, channelVars, EgressTypes
<1>. QED
  BY <1>1, <1>2, <1>3, <1>4, <1>5, <1>6, <1>7, <1>8 DEF EdfStep


\* The steps of egress keep what it holds typed.
LEMMA EgressKept ==
  ASSUME FlowInv, EgressStep \/ EgressRecord
  PROVE  EgressTypes'
<1>. USE DEF FlowInv
<1>0. outQueue \in [Priority -> Seq(Held)]
  BY DEF EgressTypes
<1>1. CASE BeginPass
  BY <1>1 DEF BeginPass, EgressTypes, channelVars
<1>2. CASE EgressExit
  BY <1>2 DEF EgressExit, EgressTypes, channelVars
<1>3. CASE SkipPriority
  BY <1>3 DEF SkipPriority, EgressTypes, Advance, channelVars
<1>4. CASE SendOut
  BY <1>4 DEF SendOut, EgressTypes, Advance, channelVars
<1>5. CASE \E p \in Priority : ReceiveOut(p)
  <2>1. PICK p \in Priority : ReceiveOut(p)
    BY <1>5
  <2>2. /\ Order[place] = p /\ outQueue[p] # <<>> /\ place' = place /\ egPc' = "record"
        /\ outQueue' = [outQueue EXCEPT ![p] = Tail(@)] /\ outgoing' = Head(outQueue[p])
    BY <2>1 DEF ReceiveOut
  <2>3. outQueue[p] \in Seq(Held)
    BY <1>0
  <2>4. Tail(outQueue[p]) \in Seq(Held) /\ Head(outQueue[p]) \in Held
    BY <2>2, <2>3
  <2>5. outQueue' \in [Priority -> Seq(Held)]
    BY <1>0, <2>2, <2>4
  <2>6. outgoing' \in Held /\ Order[place'] \in Priority
    BY <2>2, <2>4
  <2>. QED
    BY <2>2, <2>5, <2>6 DEF EgressTypes, Order, Used
<1>6. CASE EgressRecord
  <2>1. outQueue' = outQueue /\ egPc = "record"
    BY <1>6 DEF EgressRecord, Record
  <2>2. CASE egPc' = "send" /\ place' = place /\ outgoing' = outgoing
    BY <1>0, <2>1, <2>2 DEF EgressTypes, Order, Used
  <2>3. CASE outgoing' = NoPacket /\ Advance
    BY <1>0, <2>1, <2>3 DEF EgressTypes, Advance
  <2>. QED
    BY <1>6, <2>2, <2>3 DEF EgressRecord, Record
<1>. QED
  BY <1>1, <1>2, <1>3, <1>4, <1>5, <1>6 DEF EgressStep

\* What a step of egress records is an event.
LEMMA EventRecorded ==
  ASSUME FlowInv, EgressRecord
  PROVE  \E event \in Event : /\ event.of = Order[place] /\ Order[place] \in Priority
                              /\ events' = Append(events, event)
                              /\ UNCHANGED <<procVars, metrics, statPc>>
<1>1. outgoing \in Held /\ Order[place] \in Priority
  BY DEF FlowInv, EgressTypes, EgressRecord, Record
<1>2. outgoing.ts \in Nat /\ now \in Nat
  BY <1>1, HeldIs DEF FlowInv, InversionInv, ArrivalTypes
<1>3. PICK read \in now .. now' : RecordPacket(Order[place], read - outgoing.ts, now' > outgoing.due)
  BY DEF EgressRecord
<1>4. read - outgoing.ts \in Int /\ (now' > outgoing.due) \in BOOLEAN
  BY <1>2, <1>3
<1>5. PICK latency \in Int, missed \in BOOLEAN :
        latency = read - outgoing.ts /\ missed = (now' > outgoing.due)
  BY <1>4
<1>6. [of |-> Order[place], latency |-> latency, missed |-> missed] \in Event
  BY <1>1 DEF Event
<1>7. /\ events' = Append(events, [of |-> Order[place], latency |-> latency, missed |-> missed])
      /\ UNCHANGED <<procVars, metrics, statPc>>
  BY <1>3, <1>5 DEF RecordPacket
<1>. QED
  BY <1>1, <1>6, <1>7

LEMMA RecordKept ==
  ASSUME FlowInv, EgressRecord
  PROVE  CollectorTypes'
<1>1. PICK event \in Event : events' = Append(events, event) /\ UNCHANGED <<procVars, metrics, statPc>>
  BY EventRecorded
<1>2. events \in Seq(Event)
  BY DEF FlowInv, CollectorTypes
<1>3. events' \in Seq(Event)
  BY <1>1, <1>2
<1>. QED
  BY <1>1, <1>3 DEF FlowInv, CollectorTypes, procVars

\* The steps of the collector and of the statistics keep what it holds typed.
LEMMA CollectorKept ==
  ASSUME FlowInv, Processor \/ RecordLatency \/ StatisticsExit \/ SendMetrics
  PROVE  CollectorTypes'
<1>. USE DEF FlowInv
<1>0. events \in Seq(Event) /\ batch \in Seq(Event)
  BY DEF CollectorTypes
<1>1. CASE Gather
  <2>1. /\ batch' = Append(batch, Head(events)) /\ events' = Tail(events) /\ events # <<>>
        /\ procPc = "gather" /\ procPc' = procPc /\ metrics' = metrics
    BY <1>1 DEF Gather
  <2>2. Head(events) \in Event /\ Tail(events) \in Seq(Event)
    BY <1>0, <2>1
  <2>3. batch' \in Seq(Event)
    BY <1>0, <2>1, <2>2
  <2>. QED
    BY <2>1, <2>2, <2>3 DEF CollectorTypes
<1>2. CASE TakeMutex
  <2>1. Len(batch) = BatchSize \/ batch # <<>>
    BY <1>2 DEF TakeMutex, Gathered
  <2>2. batch # <<>>
    BY <1>0, <2>1, MetricsAssumption
  <2>. QED
    BY <1>2, <2>2 DEF TakeMutex, CollectorTypes
<1>3. CASE RecordLatency
  <2>1. batch # <<>>
    BY <1>3 DEF CollectorTypes, RecordLatency
  <2>2. Head(batch) \in Event /\ Tail(batch) \in Seq(Event) /\ Len(batch) \in Nat
    BY <1>0, <2>1
  <2>3. PICK p \in Priority : p = Head(batch).of
    BY <2>2 DEF Event
  <2>4. /\ batch' = Tail(batch) /\ events' = events
        /\ procPc' = IF Len(batch) = 1 THEN "gather" ELSE "record"
    BY <1>3 DEF RecordLatency
  <2>5. PICK misses, latencies :
          metrics' = [metrics EXCEPT ![p] = [count |-> metrics[p].count + 1, misses |-> misses,
                                             latencies |-> latencies]]
    BY <1>3, <2>3 DEF RecordLatency
  <2>6. DOMAIN metrics = Priority /\ \A q \in Priority : metrics[q].count \in Nat
    BY DEF CollectorTypes
  <2>7. DOMAIN metrics' = Priority /\ \A q \in Priority : metrics'[q].count \in Nat
    <3>1. PICK r : r = [count |-> metrics[p].count + 1, misses |-> misses, latencies |-> latencies]
      OBVIOUS
    <3>2. r.count \in Nat
      BY <2>6, <3>1
    <3>3. metrics' = [metrics EXCEPT ![p] = r]
      BY <2>5, <3>1
    <3>4. DOMAIN metrics' = Priority
      BY <2>6, <3>3
    <3>5. metrics'[p] = r /\ \A q \in Priority : q # p => metrics'[q] = metrics[q]
      BY <2>6, <3>3
    <3>6. ASSUME NEW q \in Priority PROVE metrics'[q].count \in Nat
      <4>1. CASE q = p
        BY <3>2, <3>5, <4>1
      <4>2. CASE q # p
        BY <2>6, <3>5, <4>2
      <4>. QED
        BY <4>1, <4>2
    <3>. QED
      BY <3>4, <3>6
  <2>8. procPc' = "record" => Tail(batch) # <<>>
    <3>1. Len(Tail(batch)) = Len(batch) - 1 /\ (Len(batch) # 1 => Len(batch) - 1 # 0)
      BY <1>0, <2>1
    <3>. QED
      BY <2>4, <3>1
  <2>. QED
    BY <1>0, <2>2, <2>4, <2>7, <2>8 DEF CollectorTypes
<1>4. CASE StatisticsExit
  BY <1>4 DEF StatisticsExit, CollectorTypes, procVars
<1>5. CASE SendMetrics
  <2>1. \A q \in Priority : metrics'[q].count = metrics[q].count
    BY <1>5 DEF SendMetrics, CleanedUp
  <2>2. DOMAIN metrics' = Priority
    BY <1>5 DEF SendMetrics, CleanedUp
  <2>3. events' = events /\ batch' = batch /\ procPc' = procPc
    BY <1>5 DEF SendMetrics, procVars
  <2>. QED
    BY <2>1, <2>2, <2>3 DEF CollectorTypes
<1>. QED
  BY <1>1, <1>2, <1>3, <1>4, <1>5 DEF Processor

LEMMA FlowStep == FlowInv /\ [Next]_vars => FlowInv'
<1>. SUFFICES ASSUME FlowInv, [Next]_vars PROVE FlowInv'
  OBVIOUS
<1>0. InversionInv'
  BY InversionStep DEF FlowInv
<1>. USE DEF FlowInv
<1>1. ASSUME UNCHANGED <<events, batch, procPc, metrics>> PROVE CollectorTypes'
  BY <1>1 DEF CollectorTypes
<1>2. ASSUME UNCHANGED <<outgoing, egPc, place>>, outQueue' \in [Priority -> Seq(Held)]
      PROVE  EgressTypes'
  BY <1>2 DEF EgressTypes, Order, Used
<1>3. ASSUME UNCHANGED edfVars PROVE SchedulerTypes'
  BY <1>3 DEF SchedulerTypes, edfVars
<1>4. outQueue \in [Priority -> Seq(Held)]
  BY DEF EgressTypes
<1>5. CASE Edf
  <2>1. SchedulerTypes' /\ outQueue' \in [Priority -> Seq(Held)]
    BY <1>5, SchedulerKept DEF Edf
  <2>2. UNCHANGED <<egPc, place, outgoing, events, batch, procPc, metrics>>
    BY <1>5 DEF Edf, egressVars, metricsVars, procVars
  <2>. QED
    BY <1>0, <1>1, <1>2, <2>1, <2>2
<1>6. CASE Egress
  <2>1. EgressTypes'
    BY <1>6, EgressKept DEF Egress
  <2>2. UNCHANGED edfVars
    BY <1>6 DEF Egress
  <2>3. CASE EgressRecord
    BY <1>0, <1>3, <2>1, <2>2, <2>3, RecordKept
  <2>4. CASE UNCHANGED metricsVars
    BY <1>0, <1>1, <1>3, <2>1, <2>2, <2>4 DEF metricsVars, procVars
  <2>. QED
    BY <1>6, <2>3, <2>4 DEF Egress
<1>7. CASE Metrics \/ Statistics
  <2>1. CollectorTypes'
    BY <1>7, CollectorKept DEF Metrics, Statistics
  <2>2. outQueue' = outQueue
    BY <1>7 DEF Metrics, Statistics, Processor, Gather, TakeMutex, RecordLatency, StatisticsExit,
                SendMetrics, channelVars
  <2>3. UNCHANGED <<outgoing, egPc, place>> /\ UNCHANGED edfVars
    BY <1>7 DEF Metrics, Statistics, egressVars
  <2>. QED
    BY <1>0, <1>2, <1>3, <1>4, <2>1, <2>2, <2>3
<1>8. CASE Shutdown \/ UNCHANGED vars
  <2>1. /\ UNCHANGED <<events, batch, procPc, metrics, outgoing, egPc, place, outQueue>>
        /\ UNCHANGED edfVars
    BY <1>8 DEF Shutdown, Stop, vars, channelVars, egressVars, metricsVars, procVars
  <2>. QED
    BY <1>0, <1>1, <1>2, <1>3, <1>4, <2>1
<1>. QED
  BY <1>5, <1>6, <1>7, <1>8 DEF Next


-----------------------------------------------------------------------------
(* Every packet read is somewhere: each thread passes on what it takes.    *)

\* The packets of p that the scheduler has offered to egress, counted from what it read.
Offered(p) ==
  reads[p] - outDrops[p] - Len(edfQueue[p]) - One(edfPc = "forward" /\ chosen.of = p)

\* The packets of p that egress has not recorded.
InEgress(p) == Len(outQueue[p]) + One(egPc = "record" /\ Order[place] = p)

\* The events of p that the collector has not recorded, and those that it has.
Pending(p) == Cardinality(Marked(events, p)) + Cardinality(Marked(batch, p))
Collected(p) == Pending(p) + metrics[p].count

Balance == \A p \in Priority : Offered(p) = InEgress(p) + Collected(p)

AccountInv == FlowInv /\ Balance

LEMMA PendingType ==
  ASSUME FlowInv, NEW p \in Priority
  PROVE  Cardinality(Marked(events, p)) \in Nat /\ Cardinality(Marked(batch, p)) \in Nat
<1>1. events \in Seq(Event) /\ batch \in Seq(Event)
  BY DEF FlowInv, CollectorTypes
<1>. QED
  BY <1>1, MarkedFinite

\* The count of a concatenation is the sum of the counts.
LEMMA CountIs ==
  ASSUME NEW s \in Seq(Event), NEW t \in Seq(Event), NEW p
  PROVE  CountOf(s \o t, LAMBDA event : event.of = p) =
           Cardinality(Marked(s, p)) + Cardinality(Marked(t, p))
<1>1. CountOf(s \o t, LAMBDA event : event.of = p) = Cardinality(Marked(s \o t, p))
  BY DEF CountOf, Marked
<1>. QED
  BY <1>1, MarkedConcat

LEMMA BalanceAccounts ==
  ASSUME AccountInv
  PROVE  PacketsAccounted
<1>. SUFFICES ASSUME NEW p \in Priority
              PROVE  reads[p] = Underway(p) + outDrops[p] + Unrecorded(p) + metrics[p].count
  BY DEF PacketsAccounted
<1>. USE DEF AccountInv, FlowInv
<1>1. events \in Seq(Event) /\ batch \in Seq(Event) /\ metrics[p].count \in Nat
  BY DEF CollectorTypes
<1>2. Unrecorded(p) = Pending(p)
  BY <1>1, CountIs DEF Unrecorded, Pending
<1>3. Pending(p) \in Nat
  BY PendingType DEF Pending
<1>4. reads[p] \in Nat /\ outDrops[p] \in Nat
  BY DEF SchedulerTypes
<1>5. Len(edfQueue[p]) \in Nat /\ Len(outQueue[p]) \in Nat
  BY DEF SchedulerTypes, EgressTypes
<1>6. PICK f \in Nat, r \in Nat :
        f = One(edfPc = "forward" /\ chosen.of = p) /\ r = One(egPc = "record" /\ Order[place] = p)
  BY OneType
<1>7. Offered(p) = InEgress(p) + Collected(p)
  BY DEF Balance
<1>8. reads[p] - outDrops[p] - Len(edfQueue[p]) - f =
        Len(outQueue[p]) + r + (Pending(p) + metrics[p].count)
  BY <1>6, <1>7 DEF Offered, InEgress, Collected
<1>9. Underway(p) = Len(edfQueue[p]) + Len(outQueue[p]) + f + r
  BY <1>6 DEF Underway
<1>10. PICK a, b, c, d, e, m \in Nat :
         /\ a = reads[p] /\ b = outDrops[p] /\ c = Len(edfQueue[p]) /\ d = Len(outQueue[p])
         /\ e = Pending(p) /\ m = metrics[p].count
  BY <1>1, <1>3, <1>4, <1>5
<1>11. a - b - c - f = d + r + (e + m)
  BY <1>8, <1>10
<1>12. a = (c + d + f + r) + b + e + m
  BY <1>11
<1>. QED
  BY <1>2, <1>9, <1>10, <1>12

\* What arrives is a packet in the leased buffer.
LEMMA DatagramIs ==
  ASSUME FlowInv, ReceiveDatagram
  PROVE  \E q \in Priority, packet \in Held :
           /\ edfQueue' = [edfQueue EXCEPT ![q] = Append(@, packet)]
           /\ reads' = [reads EXCEPT ![q] = @ + 1]
           /\ packet.buffer = lease
<1>. USE DEF FlowInv
<1>1. at \in 1 .. Len(Inputs)
  BY SingleCpuAssumption DEF InversionInv, ArrivalTypes, ReceiveDatagram
<1>2. Inputs[at].of \in Priority /\ Inputs[at].budget \in Nat
  BY <1>1, SocketType DEF Served
<1>3. now' \in Nat /\ nextId \in Nat
  BY SingleCpuAssumption DEF InversionInv, ArrivalTypes, ReceiveDatagram, ReadClock
<1>4. lease \in Class
  BY DEF ReceiveDatagram, SchedulerTypes
<1>5. [id |-> nextId, of |-> Inputs[at].of, ts |-> now', due |-> now' + Inputs[at].budget,
       buffer |-> lease] \in Held
  BY <1>2, <1>3, <1>4 DEF Held
<1>. QED
  BY <1>2, <1>5 DEF ReceiveDatagram

\* What the scheduler offers joins the channel.
LEMMA OfferedStep ==
  ASSUME FlowInv, EdfStep, NEW p \in Priority
  PROVE  Offered(p)' - Len(outQueue[p])' = Offered(p) - Len(outQueue[p])
<1>. USE DEF FlowInv
<1>0. /\ reads[p] \in Nat /\ outDrops[p] \in Nat /\ edfQueue[p] \in Seq(Held)
      /\ outQueue[p] \in Seq(Held)
      /\ reads \in [Priority -> Nat] /\ outDrops \in [Priority -> Nat]
      /\ edfQueue \in [Priority -> Seq(Held)] /\ outQueue \in [Priority -> Seq(Held)]
  BY DEF SchedulerTypes, EgressTypes
<1>1. ASSUME UNCHANGED <<reads, outDrops, edfQueue, outQueue>>,
             edfPc # "forward", edfPc' # "forward"
      PROVE  Offered(p)' - Len(outQueue[p])' = Offered(p) - Len(outQueue[p])
  BY <1>1 DEF Offered, One
<1>2. CASE BeginNext
  BY <1>1, <1>2 DEF BeginNext, channelVars
<1>3. CASE EdfExit
  BY <1>1, <1>3 DEF EdfExit, channelVars
<1>4. CASE ReceiveNothing
  BY <1>1, <1>4 DEF ReceiveNothing, NextSocket, channelVars
<1>5. CASE ChooseNone
  BY <1>1, <1>5 DEF ChooseNone, Refilled, channelVars
<1>6. CASE \E hint \in Hints : LeaseBuffer(hint)
  BY <1>1, <1>6 DEF LeaseBuffer, channelVars
<1>7. CASE ReceiveDatagram
  <2>3. PICK q \in Priority, packet \in Held :
          /\ edfQueue' = [edfQueue EXCEPT ![q] = Append(@, packet)]
          /\ reads' = [reads EXCEPT ![q] = @ + 1]
    BY <1>7, DatagramIs
  <2>4. /\ outDrops' = outDrops /\ outQueue' = outQueue /\ edfPc = "receive" /\ edfPc' = "refill"
    BY <1>7 DEF ReceiveDatagram, NextSocket
  <2>5. One(edfPc = "forward" /\ chosen.of = p) = 0 /\ One(edfPc' = "forward" /\ chosen'.of = p) = 0
    BY <2>4 DEF One
  <2>6. CASE p = q
    <3>1. Len(edfQueue'[p]) = Len(edfQueue[p]) + 1 /\ reads'[p] = reads[p] + 1
      BY <1>0, <2>3, <2>6
    <3>. QED
      BY <1>0, <2>4, <2>5, <3>1 DEF Offered
  <2>7. CASE p # q
    <3>1. edfQueue'[p] = edfQueue[p] /\ reads'[p] = reads[p]
      BY <1>0, <2>3, <2>7
    <3>. QED
      BY <1>0, <2>4, <2>5, <3>1 DEF Offered
  <2>. QED
    BY <2>6, <2>7
<1>8. CASE Choose
  <2>1. Earliest \in Filled
    BY <1>8, EarliestChosen DEF InversionInv, Choose
  <2>2. PICK e \in Priority : e = Earliest /\ edfQueue[e] # <<>>
    BY <2>1 DEF Filled, Served
  <2>3. /\ chosen' = edfQueue[e][1]
        /\ edfQueue' = [edfQueue EXCEPT ![e] = Tail(@)]
        /\ edfPc' = "forward" /\ edfPc = "refill"
        /\ reads' = reads /\ outDrops' = outDrops /\ outQueue' = outQueue
    BY <1>8, <2>2 DEF Choose, Refilled, channelVars
  <2>4. edfQueue[e] \in Seq(Held)
    BY <1>0
  <2>5. Len(edfQueue[e]) \in Nat \ {0} /\ Len(Tail(edfQueue[e])) = Len(edfQueue[e]) - 1
    BY <2>2, <2>4
  <2>6. chosen'.of = e
    BY <2>3, <2>5 DEF SchedulerTypes
  <2>7. One(edfPc = "forward" /\ chosen.of = p) = 0
    BY <2>3 DEF One
  <2>8. CASE p = e
    <3>1. Len(edfQueue'[p]) = Len(edfQueue[p]) - 1
      BY <1>0, <2>3, <2>5, <2>8
    <3>2. One(edfPc' = "forward" /\ chosen'.of = p) = 1
      BY <2>3, <2>6, <2>8 DEF One
    <3>3. Offered(p) = reads[p] - outDrops[p] - Len(edfQueue[p]) - 0
      BY <2>7 DEF Offered
    <3>4. Offered(p)' = reads[p] - outDrops[p] - (Len(edfQueue[p]) - 1) - 1
      BY <2>3, <3>1, <3>2 DEF Offered
    <3>5. reads[p] \in Int /\ outDrops[p] \in Int /\ Len(edfQueue[p]) \in Int
      BY <1>0
    <3>. QED
      BY <2>3, <3>3, <3>4, <3>5
  <2>9. CASE p # e
    <3>1. edfQueue'[p] = edfQueue[p]
      BY <1>0, <2>3, <2>9
    <3>2. One(edfPc' = "forward" /\ chosen'.of = p) = 0
      BY <2>6, <2>9 DEF One
    <3>. QED
      BY <1>0, <2>3, <2>7, <3>1, <3>2 DEF Offered
  <2>. QED
    BY <2>8, <2>9
<1>9. CASE Forward
  <2>1. PICK q \in Priority, x \in Held : q = chosen.of /\ x = chosen
    BY <1>9, HeldIs DEF SchedulerTypes, Forward
  <2>2. /\ edfPc' = "top" /\ edfPc = "forward" /\ edfQueue' = edfQueue /\ reads' = reads
    BY <1>9 DEF Forward
  <2>3. \/ outQueue' = [outQueue EXCEPT ![q] = Append(@, x)] /\ outDrops' = outDrops
        \/ outDrops' = [outDrops EXCEPT ![q] = @ + 1] /\ outQueue' = outQueue
    BY <1>9, <2>1 DEF Forward
  <2>4. One(edfPc' = "forward" /\ chosen'.of = p) = 0
    BY <2>2 DEF One
  <2>5. CASE p = q
    <3>1. One(edfPc = "forward" /\ chosen.of = p) = 1
      BY <2>1, <2>2, <2>5 DEF One
    <3>2. \/ Len(outQueue'[p]) = Len(outQueue[p]) + 1 /\ outDrops'[p] = outDrops[p]
          \/ Len(outQueue'[p]) = Len(outQueue[p]) /\ outDrops'[p] = outDrops[p] + 1
      <4>1. CASE outQueue' = [outQueue EXCEPT ![q] = Append(@, x)] /\ outDrops' = outDrops
        <5>1. outQueue'[p] = Append(outQueue[p], x)
          BY <1>0, <2>5, <4>1
        <5>2. Len(Append(outQueue[p], x)) = Len(outQueue[p]) + 1
          BY <1>0
        <5>. QED
          BY <4>1, <5>1, <5>2
      <4>2. CASE outDrops' = [outDrops EXCEPT ![q] = @ + 1] /\ outQueue' = outQueue
        BY <1>0, <2>5, <4>2
      <4>. QED
        BY <2>3, <4>1, <4>2
    <3>3. Offered(p) = reads[p] - outDrops[p] - Len(edfQueue[p]) - 1
      BY <3>1 DEF Offered
    <3>4. Offered(p)' = reads[p] - outDrops'[p] - Len(edfQueue[p]) - 0
      BY <2>2, <2>4 DEF Offered
    <3>5. reads[p] \in Int /\ outDrops[p] \in Int /\ Len(edfQueue[p]) \in Int /\ Len(outQueue[p]) \in Int
      BY <1>0
    <3>. QED
      BY <3>2, <3>3, <3>4, <3>5
  <2>6. CASE p # q
    <3>1. One(edfPc = "forward" /\ chosen.of = p) = 0
      BY <2>1, <2>6 DEF One
    <3>2. outQueue'[p] = outQueue[p] /\ outDrops'[p] = outDrops[p]
      BY <1>0, <2>3, <2>6
    <3>. QED
      BY <1>0, <2>2, <2>4, <3>1, <3>2 DEF Offered
  <2>. QED
    BY <2>5, <2>6
<1>. QED
  BY <1>2, <1>3, <1>4, <1>5, <1>6, <1>7, <1>8, <1>9 DEF EdfStep


\* What egress takes from the channel it records.
LEMMA InEgressStep ==
  ASSUME FlowInv, EgressStep, NEW p \in Priority
  PROVE  InEgress(p)' = InEgress(p)
<1>. USE DEF FlowInv
<1>0. outQueue \in [Priority -> Seq(Held)] /\ outQueue[p] \in Seq(Held)
  BY DEF EgressTypes
<1>1. ASSUME UNCHANGED outQueue, egPc # "record", egPc' # "record"
      PROVE  InEgress(p)' = InEgress(p)
  BY <1>1 DEF InEgress, One
<1>2. CASE BeginPass
  BY <1>1, <1>2 DEF BeginPass, channelVars
<1>3. CASE EgressExit
  BY <1>1, <1>3 DEF EgressExit, channelVars
<1>4. CASE SkipPriority
  BY <1>1, <1>4 DEF SkipPriority, Advance, channelVars
<1>5. CASE SendOut
  BY <1>1, <1>5 DEF SendOut, Advance, channelVars
<1>6. CASE \E q \in Priority : ReceiveOut(q)
  <2>1. PICK q \in Priority : ReceiveOut(q)
    BY <1>6
  <2>2. /\ Order[place] = q /\ outQueue[q] # <<>> /\ place' = place
        /\ egPc = "receive" /\ egPc' = "record"
        /\ outQueue' = [outQueue EXCEPT ![q] = Tail(@)]
    BY <2>1 DEF ReceiveOut
  <2>3. One(egPc = "record" /\ Order[place] = p) = 0
    BY <2>2 DEF One
  <2>4. Order' = Order
    BY DEF Order, Used
  <2>5. CASE p = q
    <3>1. outQueue'[p] = Tail(outQueue[p])
      BY <1>0, <2>2, <2>5
    <3>2. Len(Tail(outQueue[p])) = Len(outQueue[p]) - 1 /\ Len(outQueue[p]) \in Nat
      BY <1>0, <2>2, <2>5
    <3>3. One(egPc' = "record" /\ Order[place'] = p) = 1
      BY <2>2, <2>5 DEF One
    <3>. QED
      BY <2>3, <2>4, <3>1, <3>2, <3>3 DEF InEgress
  <2>6. CASE p # q
    <3>1. outQueue'[p] = outQueue[p]
      BY <1>0, <2>2, <2>6
    <3>2. One(egPc' = "record" /\ Order[place'] = p) = 0
      BY <2>2, <2>6 DEF One
    <3>. QED
      BY <2>3, <2>4, <3>1, <3>2 DEF InEgress
  <2>. QED
    BY <2>5, <2>6
<1>. QED
  BY <1>2, <1>3, <1>4, <1>5, <1>6 DEF EgressStep

\* What egress records is pending.
LEMMA RecordAccounts ==
  ASSUME FlowInv, EgressRecord, NEW p \in Priority
  PROVE  InEgress(p)' + Collected(p)' = InEgress(p) + Collected(p)
<1>1. PICK event \in Event :
        /\ event.of = Order[place] /\ events' = Append(events, event)
        /\ UNCHANGED <<procVars, metrics, statPc>>
  BY EventRecorded
<1>2. events \in Seq(Event)
  BY DEF FlowInv, CollectorTypes
<1>3. Cardinality(Marked(events', p)) = Cardinality(Marked(events, p)) + One(event.of = p)
  BY <1>1, <1>2, MarkedAppend
<1>4. batch' = batch /\ metrics' = metrics
  BY <1>1 DEF procVars
<1>5. outQueue' = outQueue /\ egPc = "record" /\ egPc' # "record"
  BY DEF EgressRecord, Record, Advance
<1>6. One(egPc' = "record" /\ Order[place]' = p) = 0
  BY <1>5 DEF One
<1>7. One(egPc = "record" /\ Order[place] = p) = One(event.of = p)
  BY <1>1, <1>5
<1>8. PICK x \in Nat, a \in Nat, b \in Nat, c \in Nat, d \in Nat :
        /\ x = One(event.of = p) /\ a = Cardinality(Marked(events, p))
        /\ b = Cardinality(Marked(batch, p)) /\ c = metrics[p].count /\ d = Len(outQueue[p])
  <2>1. One(event.of = p) \in Nat
    BY OneType
  <2>2. metrics[p].count \in Nat /\ Len(outQueue[p]) \in Nat
    BY DEF FlowInv, CollectorTypes, EgressTypes
  <2>. QED
    BY <2>1, <2>2, PendingType
<1>9. InEgress(p) = d + x /\ Collected(p) = a + b + c
  BY <1>7, <1>8 DEF InEgress, Collected, Pending
<1>10. InEgress(p)' = d + 0
  BY <1>5, <1>6, <1>8 DEF InEgress
<1>11. Collected(p)' = (a + x) + b + c
  BY <1>3, <1>4, <1>8 DEF Collected, Pending
<1>. QED
  BY <1>9, <1>10, <1>11

\* What the collector takes it records.
LEMMA CollectedStep ==
  ASSUME FlowInv, Processor \/ RecordLatency \/ StatisticsExit \/ SendMetrics, NEW p \in Priority
  PROVE  Collected(p)' = Collected(p)
<1>. USE DEF FlowInv
<1>0. events \in Seq(Event) /\ batch \in Seq(Event)
  BY DEF CollectorTypes
<1>1. PICK a \in Nat, b \in Nat, c \in Nat :
        /\ a = Cardinality(Marked(events, p))
        /\ b = Cardinality(Marked(batch, p)) /\ c = metrics[p].count
  BY PendingType DEF CollectorTypes
<1>2. Collected(p) = a + b + c
  BY <1>1 DEF Collected, Pending
<1>3. CASE Gather
  <2>1. /\ batch' = Append(batch, Head(events)) /\ events' = Tail(events) /\ events # <<>>
        /\ metrics' = metrics
    BY <1>3 DEF Gather
  <2>2. PICK x \in Event, y \in Seq(Event) : x = Head(events) /\ y = Tail(events)
    <3>1. Head(events) \in Event /\ Tail(events) \in Seq(Event)
      BY <1>0, <2>1
    <3>. QED
      BY <3>1
  <2>3. Cardinality(Marked(batch', p)) = b + One(x.of = p)
    BY <1>0, <1>1, <2>1, <2>2, MarkedAppend
  <2>4. a = Cardinality(Marked(events', p)) + One(x.of = p)
    BY <1>0, <1>1, <2>1, <2>2, MarkedTail
  <2>5. Cardinality(Marked(y, p)) \in Nat /\ One(x.of = p) \in Nat
    BY MarkedFinite, OneType
  <2>6. PICK k \in Nat, o \in Nat : k = Cardinality(Marked(events', p)) /\ o = One(x.of = p)
    BY <2>1, <2>2, <2>5
  <2>7. Collected(p)' = k + (b + o) + c
    BY <1>1, <2>1, <2>3, <2>6 DEF Collected, Pending
  <2>. QED
    BY <1>2, <2>4, <2>6, <2>7
<1>4. CASE RecordLatency
  <2>1. batch # <<>>
    BY <1>4 DEF CollectorTypes, RecordLatency
  <2>2. PICK x \in Event, y \in Seq(Event) : x = Head(batch) /\ y = Tail(batch)
    <3>1. Head(batch) \in Event /\ Tail(batch) \in Seq(Event)
      BY <1>0, <2>1
    <3>. QED
      BY <3>1
  <2>3. batch' = y /\ events' = events
    BY <1>4, <2>2 DEF RecordLatency
  <2>4. b = Cardinality(Marked(y, p)) + One(x.of = p)
    BY <1>0, <1>1, <2>1, <2>2, MarkedTail
  <2>5. PICK k \in Nat, o \in Nat : k = Cardinality(Marked(y, p)) /\ o = One(x.of = p)
    BY MarkedFinite, OneType
  <2>6. metrics'[p].count = c + o
    <3>1. PICK q \in Priority : q = x.of
      BY DEF Event
    <3>2. PICK misses, latencies :
            metrics' = [metrics EXCEPT ![q] = [count |-> metrics[q].count + 1, misses |-> misses,
                                               latencies |-> latencies]]
      BY <1>4, <2>2, <3>1 DEF RecordLatency
    <3>3. PICK r : r = [count |-> metrics[q].count + 1, misses |-> misses, latencies |-> latencies]
      OBVIOUS
    <3>4. r.count = metrics[q].count + 1 /\ metrics' = [metrics EXCEPT ![q] = r]
      BY <3>2, <3>3
    <3>5. DOMAIN metrics = Priority
      BY DEF CollectorTypes
    <3>6. CASE p = q
      <4>1. metrics'[p] = r
        BY <3>4, <3>5, <3>6
      <4>2. o = 1
        BY <2>5, <3>1, <3>6 DEF One
      <4>. QED
        BY <1>1, <3>4, <3>6, <4>1, <4>2
    <3>7. CASE p # q
      <4>1. metrics'[p] = metrics[p]
        BY <3>4, <3>5, <3>7
      <4>2. o = 0
        BY <2>5, <3>1, <3>7 DEF One
      <4>. QED
        BY <1>1, <4>1, <4>2
    <3>. QED
      BY <3>6, <3>7
  <2>7. Collected(p)' = a + k + (c + o)
    BY <1>1, <2>3, <2>5, <2>6 DEF Collected, Pending
  <2>. QED
    BY <1>2, <2>4, <2>5, <2>7
<1>5. CASE TakeMutex
  BY <1>5 DEF TakeMutex, Collected, Pending
<1>6. CASE StatisticsExit
  BY <1>6 DEF StatisticsExit, procVars, Collected, Pending
<1>7. CASE SendMetrics
  <2>1. metrics'[p].count = metrics[p].count /\ events' = events /\ batch' = batch
    BY <1>7 DEF SendMetrics, CleanedUp, procVars
  <2>. QED
    BY <2>1 DEF Collected, Pending
<1>. QED
  BY <1>3, <1>4, <1>5, <1>6, <1>7 DEF Processor

LEMMA AccountInit == Init => AccountInv
<1>. SUFFICES ASSUME Init, NEW p \in Priority PROVE Offered(p) = InEgress(p) + Collected(p)
  BY FlowInit DEF AccountInv, Balance
<1>1. Offered(p) = 0
  BY DEF Init, EdfInit, Offered, One
<1>2. InEgress(p) = 0
  BY DEF Init, ChannelInit, EgressInit, InEgress, One
<1>3. Marked(events, p) = {} /\ Marked(batch, p) = {} /\ metrics[p].count = 0
  BY DEF Init, MetricsInit, NoMetrics, Marked
<1>4. Collected(p) = 0
  BY <1>3, FS_EmptySet DEF Collected, Pending
<1>. QED
  BY <1>1, <1>2, <1>4

LEMMA AccountStep == AccountInv /\ [Next]_vars => AccountInv'
<1>. SUFFICES ASSUME AccountInv, [Next]_vars PROVE AccountInv'
  OBVIOUS
<1>. USE DEF AccountInv
<1>0. FlowInv'
  BY FlowStep
<1>. SUFFICES ASSUME NEW p \in Priority PROVE Offered(p)' = InEgress(p)' + Collected(p)'
  BY <1>0 DEF Balance
<1>1. PICK o \in Int, i \in Int, c \in Nat, l \in Nat :
        /\ o = Offered(p) /\ i = InEgress(p) /\ c = Collected(p) /\ l = Len(outQueue[p])
  <2>1. Collected(p) \in Nat
    BY PendingType DEF FlowInv, CollectorTypes, Collected, Pending
  <2>2. Len(outQueue[p]) \in Nat /\ Len(edfQueue[p]) \in Nat /\ reads[p] \in Nat /\ outDrops[p] \in Nat
    BY DEF FlowInv, SchedulerTypes, EgressTypes
  <2>3. Offered(p) \in Int /\ InEgress(p) \in Int
    BY <2>2, OneType DEF Offered, InEgress, One
  <2>. QED
    BY <2>1, <2>2, <2>3
<1>2. o = i + c
  BY <1>1 DEF Balance
<1>3. ASSUME UNCHANGED <<edfVars, egressVars, outQueue, events, batch, metrics>>
      PROVE  Offered(p)' = Offered(p) /\ InEgress(p)' = InEgress(p) /\ Collected(p)' = Collected(p)
  BY <1>3 DEF edfVars, egressVars, Offered, InEgress, Collected, Pending, Order, Used
<1>4. ASSUME UNCHANGED edfVars PROVE Offered(p)' = Offered(p)
  BY <1>4 DEF edfVars, Offered
<1>5. ASSUME UNCHANGED metricsVars PROVE Collected(p)' = Collected(p)
  BY <1>5 DEF metricsVars, procVars, Collected, Pending
<1>6. CASE Edf
  <2>1. Offered(p)' - Len(outQueue[p])' = o - l
    BY <1>1, <1>6, OfferedStep DEF Edf
  <2>2. UNCHANGED <<egressVars, metricsVars>>
    BY <1>6 DEF Edf
  <2>3. Collected(p)' = c
    BY <1>1, <1>5, <2>2
  <2>4. PICK m \in Nat : m = Len(outQueue[p])'
    BY <1>0 DEF FlowInv, EgressTypes
  <2>5. PICK r \in Nat : r = One(egPc = "record" /\ Order[place] = p)
    BY OneType
  <2>6. i = l + r
    BY <1>1, <2>5 DEF InEgress
  <2>7. InEgress(p)' = m + r
    BY <2>2, <2>4, <2>5 DEF InEgress, egressVars, Order, Used
  <2>8. Offered(p)' \in Int
    <3>1. edfQueue' \in [Priority -> Seq(Held)]
      BY <1>0 DEF FlowInv, SchedulerTypes
    <3>2. reads' \in [Priority -> Nat] /\ outDrops' \in [Priority -> Nat]
      BY <1>0 DEF FlowInv, SchedulerTypes
    <3>3. edfQueue'[p] \in Seq(Held)
      BY <3>1
    <3>4. Len(edfQueue'[p]) \in Int
      BY <3>3
    <3>5. One(edfPc' = "forward" /\ chosen'.of = p) \in Int
      BY DEF One
    <3>. QED
      BY <3>2, <3>4, <3>5 DEF Offered
  <2>. QED
    BY <1>2, <2>1, <2>3, <2>4, <2>6, <2>7, <2>8
<1>7. CASE Egress
  <2>1. Offered(p)' = Offered(p)
    BY <1>4, <1>7 DEF Egress
  <2>2. CASE EgressRecord
    <3>1. InEgress(p)' + Collected(p)' = InEgress(p) + Collected(p)
      BY <2>2, RecordAccounts
    <3>. QED
      BY <2>1, <3>1 DEF Balance
  <2>3. CASE EgressStep /\ UNCHANGED metricsVars
    <3>1. InEgress(p)' = InEgress(p) /\ Collected(p)' = Collected(p)
      BY <1>5, <2>3, InEgressStep
    <3>. QED
      BY <2>1, <3>1 DEF Balance
  <2>. QED
    BY <1>7, <2>2, <2>3 DEF Egress
<1>8. CASE Metrics \/ Statistics
  <2>1. Collected(p)' = Collected(p)
    BY <1>8, CollectedStep DEF Metrics, Statistics
  <2>2. UNCHANGED <<edfVars, egressVars>>
    BY <1>8 DEF Metrics, Statistics
  <2>3. outQueue' = outQueue
    BY <1>8 DEF Metrics, Statistics, Processor, Gather, TakeMutex, RecordLatency, StatisticsExit,
                SendMetrics, channelVars
  <2>4. InEgress(p)' = InEgress(p)
    BY <2>2, <2>3 DEF InEgress, egressVars, Order, Used
  <2>5. Offered(p)' = Offered(p)
    BY <1>4, <2>2
  <2>. QED
    BY <2>1, <2>4, <2>5 DEF Balance
<1>9. CASE Shutdown \/ UNCHANGED vars
  <2>1. UNCHANGED <<edfVars, egressVars, outQueue, events, batch, metrics>>
    BY <1>9 DEF Shutdown, Stop, vars, channelVars, metricsVars, procVars
  <2>. QED
    BY <1>3, <2>1 DEF Balance
<1>. QED
  BY <1>6, <1>7, <1>8, <1>9 DEF Next

(***************************************************************************)
(* For any sockets, capacities, batches and traffic, every packet read is  *)
(* under way, counted as dropped or in exactly one event: what the         *)
(* collector counts is what egress took (process_next, process_queues,     *)
(* record_packet and the Metrics-Processor).                               *)
(***************************************************************************)
THEOREM PacketsAreAccounted == Spec => []PacketsAccounted
<1>. QED
  BY BalanceAccounts, AccountInit, AccountStep, PTL DEF Spec

-----------------------------------------------------------------------------
(* Every buffer taken is held once, and goes back where it came from.      *)

PoolTypes ==
  /\ free \in [Class -> Nat] /\ mostInUse \in [Class -> Nat]
  /\ \A c \in Class : IsFiniteSet(Slots(edfQueue, c)) /\ IsFiniteSet(Slots(outQueue, c))

PoolInv == FlowInv /\ PoolTypes /\ BuffersConserved

\* The buffers of c in the two queues, and in the hands of the two threads.
InQueue(c) == Cardinality(Slots(edfQueue, c))
InChannel(c) == Cardinality(Slots(outQueue, c))
Leased(c) == One(lease = c)
InChosen(c) == One(chosen # NoPacket /\ chosen.buffer = c)
InOutgoing(c) == One(outgoing # NoPacket /\ outgoing.buffer = c)

LEMMA InUseIs ==
  \A c \in Class : InUse(c) = InQueue(c) + InChannel(c) + Leased(c) + InChosen(c) + InOutgoing(c)
BY DEF InUse, Slots, InQueue, InChannel, Leased, InChosen, InOutgoing

LEMMA InUseBecomes ==
  \A c \in Class :
    InUse(c)' = InQueue(c)' + InChannel(c)' + Leased(c)' + InChosen(c)' + InOutgoing(c)'
BY DEF InUse, Slots, InQueue, InChannel, Leased, InChosen, InOutgoing

LEMMA PartTypes ==
  ASSUME PoolTypes, NEW c \in Class
  PROVE  /\ InQueue(c) \in Nat /\ InChannel(c) \in Nat /\ Leased(c) \in Nat
         /\ InChosen(c) \in Nat /\ InOutgoing(c) \in Nat
<1>1. InQueue(c) \in Nat /\ InChannel(c) \in Nat
  BY FS_CardinalityType DEF PoolTypes, InQueue, InChannel
<1>2. Leased(c) \in Nat /\ InChosen(c) \in Nat /\ InOutgoing(c) \in Nat
  BY DEF Leased, InChosen, InOutgoing, One
<1>. QED
  BY <1>1, <1>2

\* The buffer given back is one more of its class.
LEMMA ReleaseIs ==
  ASSUME PoolTypes, NEW d \in Class, Release(d), NEW c \in Class
  PROVE  free' \in [Class -> Nat] /\ free'[c] = free[c] + One(d = c)
BY DEF PoolTypes, Release, One

\* What a thread other than the one that leases does: the buffers stay, each in the pool or
\* with one holder.
Kept ==
  /\ free' \in [Class -> Nat]
  /\ \A c \in Class : /\ IsFiniteSet(Slots(edfQueue', c)) /\ IsFiniteSet(Slots(outQueue', c))
                      /\ free'[c] + InUse(c)' = free[c] + InUse(c)

LEMMA NothingMoves ==
  ASSUME PoolInv, UNCHANGED <<edfQueue, outQueue, lease, chosen, outgoing, free>>
  PROVE  Kept
<1>1. \A c \in Class : InUse(c)' = InUse(c)
  BY DEF InUse
<1>2. \A c \in Class : IsFiniteSet(Slots(edfQueue', c)) /\ IsFiniteSet(Slots(outQueue', c))
  BY DEF PoolInv, PoolTypes
<1>. QED
  BY <1>1, <1>2 DEF Kept, PoolInv, PoolTypes

\* The leased buffer goes back.
LEMMA NothingReceivedKeeps ==
  ASSUME PoolInv, ReceiveNothing, UNCHANGED outgoing
  PROVE  Kept
<1>. USE DEF PoolInv
<1>1. PICK d \in Class : d = lease
  BY DEF FlowInv, SchedulerTypes, ReceiveNothing
<1>2. 0 \notin Class /\ lease' = 0
  BY ClassType DEF ReceiveNothing, NextSocket
<1>3. UNCHANGED <<edfQueue, outQueue, chosen>> /\ Release(d)
  BY <1>1 DEF ReceiveNothing, channelVars
<1>4. \A c \in Class : Leased(c) = One(d = c) /\ Leased(c)' = 0
  BY <1>1, <1>2 DEF Leased, One
<1>5. ASSUME NEW c \in Class
      PROVE  /\ IsFiniteSet(Slots(edfQueue', c)) /\ IsFiniteSet(Slots(outQueue', c))
             /\ free'[c] + InUse(c)' = free[c] + InUse(c)
  <2>1. IsFiniteSet(Slots(edfQueue', c)) /\ IsFiniteSet(Slots(outQueue', c))
    BY <1>3 DEF PoolTypes
  <2>2. InQueue(c)' = InQueue(c) /\ InChannel(c)' = InChannel(c)
    BY <1>3 DEF InQueue, InChannel
  <2>3. InChosen(c)' = InChosen(c) /\ InOutgoing(c)' = InOutgoing(c)
    BY <1>3 DEF InChosen, InOutgoing
  <2>4. free'[c] = free[c] + Leased(c) /\ free[c] \in Nat
    BY <1>3, <1>4, ReleaseIs DEF PoolTypes
  <2>5. free'[c] + InUse(c)' = free[c] + InUse(c)
    BY <1>4, <2>2, <2>3, <2>4, InUseIs, InUseBecomes, PartTypes
  <2>. QED
    BY <2>1, <2>5
<1>6. free' \in [Class -> Nat]
  BY <1>3, ReleaseIs
<1>. QED
  BY <1>5, <1>6 DEF Kept

\* The leased buffer goes into the queue.
LEMMA DatagramKeeps ==
  ASSUME PoolInv, ReceiveDatagram, UNCHANGED outgoing
  PROVE  Kept
<1>. USE DEF PoolInv
<1>1. PICK d \in Class : d = lease
  BY DEF FlowInv, SchedulerTypes, ReceiveDatagram
<1>2. 0 \notin Class /\ lease' = 0
  BY ClassType DEF ReceiveDatagram, NextSocket
<1>3. UNCHANGED <<outQueue, chosen, free>>
  BY DEF ReceiveDatagram
<1>4. \A c \in Class : Leased(c) = One(d = c) /\ Leased(c)' = 0
  BY <1>1, <1>2 DEF Leased, One
<1>5. PICK q \in Priority, packet \in Held :
        edfQueue' = [edfQueue EXCEPT ![q] = Append(@, packet)] /\ packet.buffer = d
  BY <1>1, DatagramIs
<1>6. edfQueue \in [Priority -> Seq(Held)]
  BY DEF FlowInv, SchedulerTypes
<1>7. ASSUME NEW c \in Class
      PROVE  /\ IsFiniteSet(Slots(edfQueue', c)) /\ IsFiniteSet(Slots(outQueue', c))
             /\ free'[c] + InUse(c)' = free[c] + InUse(c)
  <2>1. IsFiniteSet(Slots(edfQueue, c)) /\ IsFiniteSet(Slots(outQueue', c))
    BY <1>3 DEF PoolTypes
  <2>2. /\ IsFiniteSet(Slots(edfQueue', c))
        /\ Cardinality(Slots(edfQueue', c)) = Cardinality(Slots(edfQueue, c)) + One(packet.buffer = c)
    <3>1. PICK s \in [Priority -> Seq(Held)] : s = edfQueue
      BY <1>6
    <3>2. IsFiniteSet(Slots(s, c)) /\ edfQueue' = Joined(s, q, packet)
      BY <1>5, <2>1, <3>1 DEF Joined
    <3>3. /\ IsFiniteSet(Slots(Joined(s, q, packet), c))
          /\ Cardinality(Slots(Joined(s, q, packet), c)) =
               Cardinality(Slots(s, c)) + One(packet.buffer = c)
      BY <3>2, SlotsAppend
    <3>. QED
      BY <3>1, <3>2, <3>3
  <2>3. InQueue(c)' = InQueue(c) + Leased(c) /\ InChannel(c)' = InChannel(c)
    BY <1>3, <1>4, <1>5, <2>2 DEF InQueue, InChannel
  <2>4. InChosen(c)' = InChosen(c) /\ InOutgoing(c)' = InOutgoing(c)
    BY <1>3 DEF InChosen, InOutgoing
  <2>5. free'[c] = free[c] /\ free[c] \in Nat
    BY <1>3 DEF PoolTypes
  <2>6. free'[c] + InUse(c)' = free[c] + InUse(c)
    BY <1>4, <2>3, <2>4, <2>5, InUseIs, InUseBecomes, PartTypes
  <2>. QED
    BY <2>1, <2>2, <2>6
<1>8. free' \in [Class -> Nat]
  BY <1>3 DEF PoolTypes
<1>. QED
  BY <1>7, <1>8 DEF Kept


\* The front packet goes from its queue into the hands of the scheduler.
LEMMA ChoiceKeepsBuffers ==
  ASSUME PoolInv, Choose, UNCHANGED outgoing
  PROVE  Kept
<1>. USE DEF PoolInv
<1>1. Earliest \in Filled
  BY EarliestChosen DEF FlowInv, InversionInv, Choose
<1>2. PICK e \in Priority : e = Earliest /\ edfQueue[e] # <<>>
  BY <1>1 DEF Filled, Served
<1>3. PICK s \in [Priority -> Seq(Held)] : s = edfQueue
  BY DEF FlowInv, SchedulerTypes
<1>4. /\ edfQueue' = Left(s, e) /\ chosen' = s[e][1]
      /\ UNCHANGED <<outQueue, lease, free>>
  BY <1>2, <1>3 DEF Choose, Left, channelVars
<1>5. s[e] \in Seq(Held) /\ s[e] # <<>>
  BY <1>2, <1>3
<1>6. s[e][1] = Head(s[e]) /\ s[e][1] \in Held
  BY <1>5
<1>7. chosen = NoPacket /\ chosen' # NoPacket
  BY <1>4, <1>6, HeldIs DEF FlowInv, SchedulerTypes, Choose, Refilled
<1>8. ASSUME NEW c \in Class
      PROVE  /\ IsFiniteSet(Slots(edfQueue', c)) /\ IsFiniteSet(Slots(outQueue', c))
             /\ free'[c] + InUse(c)' = free[c] + InUse(c)
  <2>1. IsFiniteSet(Slots(s, c)) /\ IsFiniteSet(Slots(outQueue', c))
    BY <1>3, <1>4 DEF PoolTypes
  <2>2. /\ IsFiniteSet(Slots(Left(s, e), c))
        /\ Cardinality(Slots(s, c)) = Cardinality(Slots(Left(s, e), c)) + One(Head(s[e]).buffer = c)
    BY <1>5, <2>1, SlotsTail
  <2>3. InChosen(c) = 0 /\ InChosen(c)' = One(Head(s[e]).buffer = c)
    BY <1>4, <1>6, <1>7 DEF InChosen, One
  <2>4. InQueue(c) = InQueue(c)' + InChosen(c)' /\ InChannel(c)' = InChannel(c)
    BY <1>3, <1>4, <2>2, <2>3 DEF InQueue, InChannel
  <2>5. Leased(c)' = Leased(c) /\ InOutgoing(c)' = InOutgoing(c)
    BY <1>4 DEF Leased, InOutgoing
  <2>6. free'[c] = free[c] /\ free[c] \in Nat
    BY <1>4 DEF PoolTypes
  <2>7. InQueue(c)' \in Nat /\ InChosen(c)' \in Nat
    BY <1>4, <2>2, FS_CardinalityType DEF InQueue, InChosen, One
  <2>8. free'[c] + InUse(c)' = free[c] + InUse(c)
    BY <2>3, <2>4, <2>5, <2>6, <2>7, InUseIs, InUseBecomes, PartTypes
  <2>. QED
    BY <1>4, <2>1, <2>2, <2>8
<1>9. free' \in [Class -> Nat]
  BY <1>4 DEF PoolTypes
<1>. QED
  BY <1>8, <1>9 DEF Kept

\* The packet goes to egress, or its buffer back.
LEMMA ForwardKeepsBuffers ==
  ASSUME PoolInv, Forward, UNCHANGED outgoing
  PROVE  Kept
<1>. USE DEF PoolInv
<1>1. PICK x \in Held, d \in Class : x = chosen /\ d = x.buffer
  <2>1. chosen \in Held
    BY DEF FlowInv, SchedulerTypes, Forward
  <2>. QED
    BY <2>1, HeldIs
<1>2. PICK q \in Priority : q = x.of
  BY HeldIs
<1>3. PICK s \in [Priority -> Seq(Held)] : s = outQueue
  BY DEF FlowInv, EgressTypes
<1>4. /\ \/ outQueue' = Joined(s, q, x) /\ free' = free
         \/ outQueue' = s /\ Release(d)
      /\ chosen' = NoPacket /\ UNCHANGED <<edfQueue, lease>>
  BY <1>1, <1>2, <1>3 DEF Forward, Joined
<1>5. ASSUME NEW c \in Class
      PROVE  InChosen(c) = One(d = c) /\ InChosen(c)' = 0 /\ One(d = c) \in Nat
  BY <1>1, <1>4, HeldIs DEF InChosen, One
<1>6. ASSUME NEW c \in Class
      PROVE  /\ IsFiniteSet(Slots(edfQueue', c)) /\ IsFiniteSet(Slots(outQueue', c))
             /\ free'[c] + InUse(c)' = free[c] + InUse(c)
  <2>1. IsFiniteSet(Slots(s, c)) /\ IsFiniteSet(Slots(edfQueue', c))
    BY <1>3, <1>4 DEF PoolTypes
  <2>2. /\ IsFiniteSet(Slots(Joined(s, q, x), c))
        /\ Cardinality(Slots(Joined(s, q, x), c)) = Cardinality(Slots(s, c)) + One(x.buffer = c)
    BY <2>1, SlotsAppend
  <2>3. /\ InQueue(c)' = InQueue(c) /\ Leased(c)' = Leased(c) /\ InOutgoing(c)' = InOutgoing(c)
    BY <1>4 DEF InQueue, Leased, InOutgoing
  <2>4. InChannel(c) = Cardinality(Slots(s, c)) /\ free[c] \in Nat
    BY <1>3 DEF InChannel, PoolTypes
  <2>5. CASE outQueue' = Joined(s, q, x) /\ free' = free
    <3>1. InChannel(c)' = InChannel(c) + One(d = c)
      BY <1>1, <2>2, <2>4, <2>5 DEF InChannel
    <3>2. free'[c] + InUse(c)' = free[c] + InUse(c)
      <4>1. InUse(c)' = InQueue(c) + (InChannel(c) + InChosen(c)) + Leased(c) + 0 + InOutgoing(c)
        BY <1>5, <2>3, <3>1, InUseBecomes
      <4>2. InUse(c) = InQueue(c) + InChannel(c) + Leased(c) + InChosen(c) + InOutgoing(c)
        BY InUseIs
      <4>3. InUse(c)' = InUse(c)
        BY <4>1, <4>2, PartTypes
      <4>. QED
        BY <2>5, <4>3
    <3>. QED
      BY <2>1, <2>2, <2>5, <3>2
  <2>6. CASE outQueue' = s /\ Release(d)
    <3>1. InChannel(c)' = InChannel(c)
      BY <2>4, <2>6 DEF InChannel
    <3>2. free'[c] = free[c] + One(d = c)
      BY <2>6, ReleaseIs
    <3>3. free'[c] + InUse(c)' = free[c] + InUse(c)
      <4>1. free'[c] = free[c] + InChosen(c)
        BY <1>5, <3>2
      <4>2. InUse(c)' = InQueue(c) + InChannel(c) + Leased(c) + 0 + InOutgoing(c)
        BY <1>5, <2>3, <3>1, InUseBecomes
      <4>3. InUse(c) = InQueue(c) + InChannel(c) + Leased(c) + InChosen(c) + InOutgoing(c)
        BY InUseIs
      <4>4. PICK e, n, l, h, o, f \in Nat :
              /\ e = InQueue(c) /\ n = InChannel(c) /\ l = Leased(c) /\ h = InChosen(c)
              /\ o = InOutgoing(c) /\ f = free[c]
        BY <2>4, PartTypes
      <4>5. free'[c] + InUse(c)' = (f + h) + (e + n + l + 0 + o)
        BY <4>1, <4>2, <4>4
      <4>6. free[c] + InUse(c) = f + (e + n + l + h + o)
        BY <4>3, <4>4
      <4>. QED
        BY <4>5, <4>6
    <3>. QED
      BY <2>1, <2>6, <3>3
  <2>. QED
    BY <1>4, <2>5, <2>6
<1>7. free' \in [Class -> Nat]
  BY <1>4, ReleaseIs DEF PoolTypes
<1>. QED
  BY <1>6, <1>7 DEF Kept

\* The packet goes from the channel into the hands of egress.
LEMMA ReceiveOutKeepsBuffers ==
  ASSUME PoolInv, NEW p \in Priority, ReceiveOut(p), UNCHANGED <<edfQueue, lease, chosen, free>>
  PROVE  Kept
<1>. USE DEF PoolInv
<1>1. PICK s \in [Priority -> Seq(Held)] : s = outQueue
  BY DEF FlowInv, EgressTypes
<1>2. s[p] \in Seq(Held) /\ s[p] # <<>> /\ outQueue' = Left(s, p) /\ outgoing' = Head(s[p])
  BY <1>1 DEF ReceiveOut, Left
<1>3. Head(s[p]) \in Held
  BY <1>2
<1>4. outgoing = NoPacket /\ outgoing' # NoPacket
  BY <1>2, <1>3, HeldIs DEF FlowInv, EgressTypes, ReceiveOut
<1>5. ASSUME NEW c \in Class
      PROVE  /\ IsFiniteSet(Slots(edfQueue', c)) /\ IsFiniteSet(Slots(outQueue', c))
             /\ free'[c] + InUse(c)' = free[c] + InUse(c)
  <2>1. IsFiniteSet(Slots(s, c)) /\ IsFiniteSet(Slots(edfQueue', c))
    BY <1>1 DEF PoolTypes
  <2>2. /\ IsFiniteSet(Slots(Left(s, p), c))
        /\ Cardinality(Slots(s, c)) = Cardinality(Slots(Left(s, p), c)) + One(Head(s[p]).buffer = c)
    BY <1>2, <2>1, SlotsTail
  <2>3. InOutgoing(c) = 0 /\ InOutgoing(c)' = One(Head(s[p]).buffer = c)
    BY <1>2, <1>4 DEF InOutgoing, One
  <2>4. InChannel(c) = InChannel(c)' + InOutgoing(c)'
    BY <1>1, <1>2, <2>2, <2>3 DEF InChannel
  <2>5. InQueue(c)' = InQueue(c) /\ Leased(c)' = Leased(c) /\ InChosen(c)' = InChosen(c)
    BY DEF InQueue, Leased, InChosen
  <2>6. free'[c] = free[c] /\ free[c] \in Nat
    BY DEF PoolTypes
  <2>7. InChannel(c)' \in Nat /\ InOutgoing(c)' \in Nat
    BY <1>2, <2>2, FS_CardinalityType DEF InChannel, InOutgoing, One
  <2>8. free'[c] + InUse(c)' = free[c] + InUse(c)
    BY <2>3, <2>4, <2>5, <2>6, <2>7, InUseIs, InUseBecomes, PartTypes
  <2>. QED
    BY <1>2, <2>1, <2>2, <2>8
<1>6. free' \in [Class -> Nat]
  BY DEF PoolTypes
<1>. QED
  BY <1>5, <1>6 DEF Kept

\* The packet that leaves the hands of egress gives its buffer back.
LEMMA DropKeepsBuffers ==
  ASSUME PoolInv, egPc \in {"record", "send"}, outgoing' = NoPacket, DropPacket,
         UNCHANGED <<edfQueue, outQueue, lease, chosen>>
  PROVE  Kept
<1>. USE DEF PoolInv
<1>1. PICK d \in Class : outgoing # NoPacket /\ d = outgoing.buffer
  <2>1. outgoing \in Held
    BY DEF FlowInv, EgressTypes
  <2>. QED
    BY <2>1, HeldIs
<1>2. Release(d)
  BY <1>1 DEF DropPacket
<1>3. ASSUME NEW c \in Class
      PROVE  /\ IsFiniteSet(Slots(edfQueue', c)) /\ IsFiniteSet(Slots(outQueue', c))
             /\ free'[c] + InUse(c)' = free[c] + InUse(c)
  <2>1. IsFiniteSet(Slots(edfQueue', c)) /\ IsFiniteSet(Slots(outQueue', c))
    BY DEF PoolTypes
  <2>2. InOutgoing(c) = One(d = c) /\ InOutgoing(c)' = 0
    BY <1>1 DEF InOutgoing, One
  <2>3. /\ InQueue(c)' = InQueue(c) /\ InChannel(c)' = InChannel(c) /\ Leased(c)' = Leased(c)
        /\ InChosen(c)' = InChosen(c)
    BY DEF InQueue, InChannel, Leased, InChosen
  <2>4. free'[c] = free[c] + InOutgoing(c) /\ free[c] \in Nat
    BY <1>2, <2>2, ReleaseIs DEF PoolTypes
  <2>5. free'[c] + InUse(c)' = free[c] + InUse(c)
    BY <2>2, <2>3, <2>4, InUseIs, InUseBecomes, PartTypes
  <2>. QED
    BY <2>1, <2>5
<1>4. free' \in [Class -> Nat]
  BY <1>2, ReleaseIs
<1>. QED
  BY <1>3, <1>4 DEF Kept


\* The scheduler's steps but the lease.
LEMMA EdfKeepsBuffers ==
  ASSUME PoolInv, EdfStep, \A hint \in Hints : ~LeaseBuffer(hint), UNCHANGED outgoing
  PROVE  Kept
<1>1. CASE BeginNext \/ EdfExit \/ ChooseNone
  <2>1. UNCHANGED <<edfQueue, outQueue, lease, chosen, free>>
    BY <1>1 DEF BeginNext, EdfExit, ChooseNone, channelVars
  <2>. QED
    BY <2>1, NothingMoves
<1>. QED
  BY <1>1, DatagramKeeps, NothingReceivedKeeps, ChoiceKeepsBuffers, ForwardKeepsBuffers DEF EdfStep

LEMMA EgressKeepsBuffers ==
  ASSUME PoolInv, Egress
  PROVE  Kept
<1>1. UNCHANGED <<edfQueue, lease, chosen>>
  BY DEF Egress, edfVars
<1>2. CASE BeginPass \/ EgressExit \/ SkipPriority
  <2>1. UNCHANGED <<outQueue, outgoing>> /\ outgoing = NoPacket
    BY <1>2 DEF PoolInv, FlowInv, EgressTypes, BeginPass, EgressExit, SkipPriority, channelVars
  <2>2. UNCHANGED free
    BY <1>2, <2>1 DEF Egress, EgressRecord, Record, BeginPass, EgressExit, SkipPriority
  <2>. QED
    BY <1>1, <2>1, <2>2, NothingMoves
<1>3. CASE \E p \in Priority : ReceiveOut(p)
  <2>1. PICK p \in Priority : ReceiveOut(p)
    BY <1>3
  <2>2. outgoing = NoPacket /\ egPc = "receive"
    BY <2>1 DEF PoolInv, FlowInv, EgressTypes, ReceiveOut
  <2>3. UNCHANGED free
    BY <2>2 DEF Egress, EgressRecord, Record
  <2>. QED
    BY <1>1, <2>1, <2>3, ReceiveOutKeepsBuffers
<1>4. CASE SendOut
  <2>1. outgoing' = NoPacket /\ outQueue' = outQueue /\ egPc = "send" /\ outgoing \in Held
    BY <1>4 DEF PoolInv, FlowInv, EgressTypes, SendOut, channelVars
  <2>2. DropPacket
    BY <2>1, HeldIs DEF Egress, EgressRecord, Record
  <2>. QED
    BY <1>1, <2>1, <2>2, DropKeepsBuffers
<1>5. CASE EgressRecord
  <2>1. egPc = "record" /\ outQueue' = outQueue /\ outgoing \in Held /\ DropPacket
    BY <1>5 DEF PoolInv, FlowInv, EgressTypes, EgressRecord, Record
  <2>2. CASE outgoing' = outgoing
    <3>1. UNCHANGED free
      BY <2>1, <2>2, HeldIs DEF DropPacket
    <3>. QED
      BY <1>1, <2>1, <2>2, <3>1, NothingMoves
  <2>3. CASE outgoing' = NoPacket
    BY <1>1, <2>1, <2>3, DropKeepsBuffers
  <2>. QED
    BY <1>5, <2>2, <2>3 DEF EgressRecord, Record
<1>. QED
  BY <1>2, <1>3, <1>4, <1>5 DEF Egress, EgressStep

\* Kept buffers are conserved: no more are in use than there were.
LEMMA KeptConserves ==
  ASSUME PoolInv, FlowInv', Kept,
         \/ mostInUse' = mostInUse
         \/ mostInUse' = [c \in Class |-> IF InUse(c)' > mostInUse[c] THEN InUse(c)' ELSE mostInUse[c]]
  PROVE  PoolInv'
<1>1. free' \in [Class -> Nat]
  BY DEF Kept
<1>2. ASSUME NEW c \in Class
      PROVE  /\ IsFiniteSet(Slots(edfQueue', c)) /\ IsFiniteSet(Slots(outQueue', c))
             /\ free'[c] + InUse(c)' = mostInUse[c] /\ free'[c] \in Nat
             /\ InUse(c)' \in Nat /\ mostInUse[c] \in Nat
  <2>1. IsFiniteSet(Slots(edfQueue', c)) /\ IsFiniteSet(Slots(outQueue', c))
    BY DEF Kept
  <2>2. free'[c] + InUse(c)' = mostInUse[c]
    BY DEF Kept, PoolInv, BuffersConserved
  <2>3. mostInUse[c] \in Nat
    BY DEF PoolInv, PoolTypes
  <2>4. InQueue(c)' \in Nat /\ InChannel(c)' \in Nat
    BY <2>1, FS_CardinalityType DEF InQueue, InChannel
  <2>5. Leased(c)' \in Nat /\ InChosen(c)' \in Nat /\ InOutgoing(c)' \in Nat
    BY DEF Leased, InChosen, InOutgoing, One
  <2>6. InUse(c)' \in Nat
    BY <2>4, <2>5, InUseBecomes
  <2>. QED
    BY <1>1, <2>1, <2>2, <2>3, <2>6
<1>3. ASSUME NEW c \in Class PROVE mostInUse'[c] = mostInUse[c]
  <2>1. ~(InUse(c)' > mostInUse[c])
    <3>1. PICK u, f, m \in Nat : u = InUse(c)' /\ f = free'[c] /\ m = mostInUse[c]
      BY <1>2
    <3>2. f + u = m
      BY <1>2, <3>1
    <3>3. ~(u > m)
      BY <3>2
    <3>. QED
      BY <3>1, <3>3
  <2>. QED
    BY <2>1
<1>4. mostInUse' \in [Class -> Nat]
  <2>1. mostInUse \in [Class -> Nat]
    BY DEF PoolInv, PoolTypes
  <2>. QED
    BY <1>2, <2>1
<1>5. PoolTypes'
  BY <1>1, <1>2, <1>4 DEF PoolTypes
<1>6. BuffersConserved'
  BY <1>2, <1>3 DEF BuffersConserved
<1>. QED
  BY <1>5, <1>6 DEF PoolInv

\* A buffer is taken from the pool, or made when there is none: then more are in use than ever.
LEMMA LeaseConserves ==
  ASSUME PoolInv, FlowInv', NEW hint \in Hints, LeaseBuffer(hint), UNCHANGED outgoing,
         mostInUse' = [c \in Class |-> IF InUse(c)' > mostInUse[c] THEN InUse(c)' ELSE mostInUse[c]]
  PROVE  PoolInv'
<1>. USE DEF PoolInv
<1>1. PICK d \in Class : d = lease' /\ Acquire(d)
  BY DEF LeaseBuffer, Class
<1>2. lease = 0 /\ 0 \notin Class
  BY ClassType DEF FlowInv, SchedulerTypes, LeaseBuffer
<1>3. UNCHANGED <<edfQueue, outQueue, chosen>>
  BY DEF LeaseBuffer, channelVars
<1>4. free \in [Class -> Nat] /\ mostInUse \in [Class -> Nat]
  BY DEF PoolTypes
<1>5. ASSUME NEW c \in Class
      PROVE  InUse(c) \in Nat /\ InUse(c)' = InUse(c) + One(d = c)
  <2>1. /\ InQueue(c)' = InQueue(c) /\ InChannel(c)' = InChannel(c) /\ InChosen(c)' = InChosen(c)
        /\ InOutgoing(c)' = InOutgoing(c)
    BY <1>3 DEF InQueue, InChannel, InChosen, InOutgoing
  <2>2. Leased(c) = 0 /\ Leased(c)' = One(d = c) /\ One(d = c) \in Nat
    BY <1>1, <1>2 DEF Leased, One
  <2>3. PICK e, n, h, o, t \in Nat :
          e = InQueue(c) /\ n = InChannel(c) /\ h = InChosen(c) /\ o = InOutgoing(c) /\ t = One(d = c)
    BY <2>2, PartTypes
  <2>4. InUse(c) = e + n + 0 + h + o /\ InUse(c)' = e + n + t + h + o
    BY <2>1, <2>2, <2>3, InUseIs, InUseBecomes
  <2>. QED
    BY <2>3, <2>4
<1>6. ASSUME NEW c \in Class
      PROVE  free'[c] \in Nat /\ mostInUse'[c] \in Nat /\ free'[c] + InUse(c)' = mostInUse'[c]
  <2>1. PICK f, u, m \in Nat : f = free[c] /\ u = InUse(c) /\ m = mostInUse[c]
    BY <1>4, <1>5
  <2>2. f + u = m
    BY <2>1 DEF BuffersConserved
  <2>3. CASE c = d
    <3>1. InUse(c)' = u + 1
      BY <1>5, <2>1, <2>3 DEF One
    <3>2. free'[c] = IF f > 0 THEN f - 1 ELSE 0
      BY <1>1, <1>4, <2>1, <2>3 DEF Acquire
    <3>3. mostInUse'[c] = IF u + 1 > m THEN u + 1 ELSE m
      BY <2>1, <3>1
    <3>. QED
      BY <2>2, <3>1, <3>2, <3>3
  <2>4. CASE c # d
    <3>1. InUse(c)' = u
      BY <1>5, <2>1, <2>4 DEF One
    <3>2. free'[c] = f
      BY <1>1, <1>4, <2>1, <2>4 DEF Acquire
    <3>3. mostInUse'[c] = IF u > m THEN u ELSE m
      BY <2>1, <3>1
    <3>. QED
      BY <2>2, <3>1, <3>2, <3>3
  <2>. QED
    BY <2>3, <2>4
<1>7. free' \in [Class -> Nat]
  <2>1. DOMAIN free' = Class /\ free' = [c \in Class |-> free'[c]]
    BY <1>1, <1>4 DEF Acquire
  <2>. QED
    BY <1>6, <2>1
<1>8. mostInUse' \in [Class -> Nat]
  <2>1. mostInUse' = [c \in Class |-> mostInUse'[c]]
    OBVIOUS
  <2>. QED
    BY <1>6, <2>1
<1>9. PoolTypes'
  BY <1>3, <1>7, <1>8 DEF PoolTypes
<1>10. BuffersConserved'
  BY <1>6 DEF BuffersConserved
<1>. QED
  BY <1>9, <1>10

LEMMA PoolInitially == Init => PoolInv
<1>. SUFFICES ASSUME Init PROVE PoolInv
  OBVIOUS
<1>1. ASSUME NEW c \in Class
      PROVE  Slots(edfQueue, c) = {} /\ Slots(outQueue, c) = {}
  BY DEF Init, EdfInit, ChannelInit, Slots
<1>2. PoolTypes
  BY <1>1, FS_EmptySet, PoolAssumption DEF Init, PoolInit, PoolTypes
<1>3. ASSUME NEW c \in Class PROVE free[c] + InUse(c) = mostInUse[c]
  <2>1. InQueue(c) = 0 /\ InChannel(c) = 0
    BY <1>1, FS_EmptySet DEF InQueue, InChannel
  <2>2. Leased(c) = 0 /\ InChosen(c) = 0 /\ InOutgoing(c) = 0
    BY ClassType DEF Init, EdfInit, EgressInit, Leased, InChosen, InOutgoing, One
  <2>3. InUse(c) = 0
    BY <2>1, <2>2, InUseIs
  <2>4. free[c] = Stash /\ mostInUse[c] = Stash /\ Stash \in Nat
    BY PoolAssumption DEF Init, PoolInit
  <2>. QED
    BY <2>3, <2>4
<1>. QED
  BY <1>2, <1>3, FlowInit DEF PoolInv, BuffersConserved

LEMMA PoolStep == PoolInv /\ [Next]_vars => PoolInv'
<1>. SUFFICES ASSUME PoolInv, [Next]_vars PROVE PoolInv'
  OBVIOUS
<1>0. FlowInv'
  BY FlowStep DEF PoolInv
<1>1. CASE Edf
  <2>1. UNCHANGED outgoing
    BY <1>1 DEF Edf, egressVars
  <2>2. mostInUse' = [c \in Class |-> IF InUse(c)' > mostInUse[c] THEN InUse(c)' ELSE mostInUse[c]]
    BY <1>1 DEF Edf
  <2>3. CASE \E hint \in Hints : LeaseBuffer(hint)
    BY <1>0, <2>1, <2>2, <2>3, LeaseConserves
  <2>4. CASE \A hint \in Hints : ~LeaseBuffer(hint)
    <3>1. Kept
      BY <1>1, <2>1, <2>4, EdfKeepsBuffers DEF Edf
    <3>. QED
      BY <1>0, <2>2, <3>1, KeptConserves
  <2>. QED
    BY <2>3, <2>4
<1>2. CASE Egress
  <2>1. Kept /\ mostInUse' = mostInUse
    BY <1>2, EgressKeepsBuffers DEF Egress
  <2>. QED
    BY <1>0, <2>1, KeptConserves
<1>3. CASE Metrics \/ Statistics \/ Shutdown \/ UNCHANGED vars
  <2>1. outQueue' = outQueue
    BY <1>3 DEF Metrics, Statistics, Shutdown, Stop, vars, Processor, Gather, TakeMutex,
                RecordLatency, StatisticsExit, SendMetrics, channelVars
  <2>2. UNCHANGED <<edfQueue, lease, chosen, outgoing, free>> /\ mostInUse' = mostInUse
    BY <1>3 DEF Metrics, Statistics, Shutdown, vars, edfVars, egressVars
  <2>3. Kept
    BY <2>1, <2>2, NothingMoves
  <2>. QED
    BY <1>0, <2>2, <2>3, KeptConserves
<1>. QED
  BY <1>1, <1>2, <1>3 DEF Next

(***************************************************************************)
(* For any sizes of datagrams, stash and sockets, a buffer goes back to    *)
(* the class it was taken from, once, whichever thread drops it (acquire   *)
(* and release_vec, under the scheduler's lease and the packets' handles). *)
(***************************************************************************)
THEOREM BuffersAreConserved == Spec => []BuffersConserved
<1>1. PoolInv => BuffersConserved
  BY DEF PoolInv
<1>. QED
  BY <1>1, PoolInitially, PoolStep, PTL DEF Spec


-----------------------------------------------------------------------------
(* The statistics: what is kept of the latencies and what is computed.     *)

Measurement == [us : Int, ts : Nat]

\* The places of a class's latencies in ascending order: the last one is put before the
\* first of the others that exceeds it.
LEMMA PlaceInserted ==
  ASSUME NEW n \in Nat \ {0}, NEW u, \A i \in 1 .. n : u[i] \in Int,
         NEW g \in [1 .. n - 1 -> 1 .. n - 1],
         \A i, j \in 1 .. n - 1 : i < j => g[i] # g[j] /\ u[g[i]] <= u[g[j]]
  PROVE  \E f \in [1 .. n -> 1 .. n] :
           \A i, j \in 1 .. n : i < j => f[i] # f[j] /\ u[f[i]] <= u[f[j]]
<1>. DEFINE S == {k \in 1 .. n - 1 : u[g[k]] > u[n]} \cup {n}
<1>0. u[n] \in Int /\ \A k \in 1 .. n - 1 : g[k] \in 1 .. n - 1 /\ g[k] # n /\ u[g[k]] \in Int
  <2>1. n \in 1 .. n /\ \A k \in 1 .. n - 1 : g[k] \in 1 .. n - 1
    OBVIOUS
  <2>2. \A k \in 1 .. n - 1 : k \in 1 .. n /\ k # n
    OBVIOUS
  <2>. QED
    BY <2>1, <2>2
<1>1. S \in SUBSET Nat /\ S # {}
  OBVIOUS
<1>2. PICK m \in S : \A k \in S : m <= k
  BY <1>1, LeastNatural
<1>3. m \in 1 .. n
  BY <1>2
<1>4. \A k \in 1 .. n - 1 : k < m => u[g[k]] <= u[n]
  <2>. TAKE k \in 1 .. n - 1
  <2>1. u[g[k]] \in Int /\ u[n] \in Int
    BY <1>0
  <2>2. u[g[k]] > u[n] => m <= k
    BY <1>2
  <2>. QED
    BY <1>3, <2>1, <2>2
<1>5. \A k \in 1 .. n - 1 : m <= k => u[n] < u[g[k]]
  <2>. SUFFICES ASSUME NEW k \in 1 .. n - 1, m <= k PROVE u[n] < u[g[k]]
    OBVIOUS
  <2>1. m # n
    BY <1>3
  <2>2. m \in 1 .. n - 1 /\ u[n] < u[g[m]]
    BY <1>2, <2>1
  <2>3. m = k \/ u[g[m]] <= u[g[k]]
    BY <2>2
  <2>4. u[g[m]] \in Int /\ u[g[k]] \in Int /\ u[n] \in Int
    BY <1>0, <2>2
  <2>5. CASE m = k
    BY <2>2, <2>5
  <2>6. CASE u[g[m]] <= u[g[k]]
    <3>1. \A a, b, c \in Int : a < b /\ b <= c => a < c
      OBVIOUS
    <3>. QED
      BY <2>2, <2>4, <2>6, <3>1
  <2>. QED
    BY <2>3, <2>5, <2>6
<1>. HIDE DEF S
<1>. DEFINE f == [k \in 1 .. n |-> IF k < m THEN g[k] ELSE IF k = m THEN n ELSE g[k - 1]]
<1>6. \A k \in 1 .. n : /\ k < m => k \in 1 .. n - 1 /\ f[k] = g[k]
                        /\ k = m => f[k] = n
                        /\ k > m => k - 1 \in 1 .. n - 1 /\ m <= k - 1 /\ f[k] = g[k - 1]
  BY <1>3
<1>7. f \in [1 .. n -> 1 .. n]
  <2>1. ASSUME NEW k \in 1 .. n PROVE f[k] \in 1 .. n
    BY <1>3, <1>6
  <2>. QED
    BY <2>1
<1>. HIDE DEF f
<1>8. ASSUME NEW i \in 1 .. n, NEW j \in 1 .. n, i < j
      PROVE  f[i] # f[j] /\ u[f[i]] <= u[f[j]]
  <2>1. CASE j < m
    <3>1. f[i] = g[i] /\ f[j] = g[j] /\ i \in 1 .. n - 1 /\ j \in 1 .. n - 1
      BY <1>3, <1>6, <1>8, <2>1
    <3>. QED
      BY <1>8, <3>1
  <2>2. CASE j = m
    <3>1. f[i] = g[i] /\ f[j] = n /\ i \in 1 .. n - 1 /\ i < m
      BY <1>3, <1>6, <1>8, <2>2
    <3>. QED
      BY <1>4, <3>1
  <2>3. CASE j > m /\ i < m
    <3>1. /\ f[i] = g[i] /\ f[j] = g[j - 1] /\ i \in 1 .. n - 1 /\ j - 1 \in 1 .. n - 1
          /\ i < j - 1
      BY <1>3, <1>6, <1>8, <2>3
    <3>. QED
      BY <3>1
  <2>4. CASE j > m /\ i = m
    <3>1. f[i] = n /\ f[j] = g[j - 1] /\ j - 1 \in 1 .. n - 1 /\ m <= j - 1
      BY <1>3, <1>6, <1>8, <2>4
    <3>2. u[n] < u[g[j - 1]] /\ g[j - 1] # n /\ u[g[j - 1]] \in Int /\ u[n] \in Int
      BY <1>0, <1>5, <3>1
    <3>3. \A x, y \in Int : x < y => x <= y
      OBVIOUS
    <3>4. u[n] <= u[g[j - 1]]
      BY <3>2, <3>3, Zenon
    <3>. QED
      BY <3>1, <3>2, <3>4, Zenon
  <2>5. CASE j > m /\ i > m
    <3>1. /\ f[i] = g[i - 1] /\ f[j] = g[j - 1] /\ i - 1 \in 1 .. n - 1 /\ j - 1 \in 1 .. n - 1
          /\ i - 1 < j - 1
      BY <1>3, <1>6, <1>8, <2>5
    <3>. QED
      BY <3>1
  <2>. QED
    BY <1>3, <1>8, <2>1, <2>2, <2>3, <2>4, <2>5
<1>. QED
  BY <1>7, <1>8

\* There is an ascending order of the places of any latencies.
LEMMA OrderExists ==
  ASSUME NEW n \in Nat, NEW u, \A i \in 1 .. n : u[i] \in Int
  PROVE  \E f \in [1 .. n -> 1 .. n] :
           \A i, j \in 1 .. n : i < j => f[i] # f[j] /\ u[f[i]] <= u[f[j]]
<1>. DEFINE Ordered(k) == \E f \in [1 .. k -> 1 .. k] :
                            \A i, j \in 1 .. k : i < j => f[i] # f[j] /\ u[f[i]] <= u[f[j]]
            Bad == {k \in 0 .. n : ~Ordered(k)}
<1>1. SUFFICES ASSUME ~Ordered(n) PROVE FALSE
  OBVIOUS
<1>2. Bad \in SUBSET Nat /\ n \in Bad
  BY <1>1
<1>3. PICK m \in Bad : \A k \in Bad : m <= k
  BY <1>2, LeastNatural
<1>4. m \in 0 .. n /\ ~Ordered(m)
  BY <1>3
<1>5. Ordered(0)
  <2>1. \E f : f \in [1 .. 0 -> 1 .. 0]
    <3>1. [i \in 1 .. 0 |-> i] \in [1 .. 0 -> 1 .. 0]
      OBVIOUS
    <3>. QED
      BY <3>1
  <2>2. \A i \in 1 .. 0 : FALSE
    OBVIOUS
  <2>. QED
    BY <2>1, <2>2
<1>6. m # 0
  BY <1>4, <1>5
<1>7. Ordered(m - 1)
  <2>1. m - 1 \in 0 .. n /\ ~(m <= m - 1)
    BY <1>4, <1>6
  <2>. QED
    BY <1>3, <2>1
<1>8. \A i \in 1 .. m : u[i] \in Int
  BY <1>4
<1>9. PICK g \in [1 .. m - 1 -> 1 .. m - 1] :
        \A i, j \in 1 .. m - 1 : i < j => g[i] # g[j] /\ u[g[i]] <= u[g[j]]
  BY <1>7
<1>10. m \in Nat \ {0}
  BY <1>4, <1>6
<1>. QED
  BY <1>4, <1>8, <1>9, <1>10, PlaceInserted

LEMMA RankingIs ==
  ASSUME NEW latencies \in Seq(Measurement)
  PROVE  /\ Ranking(latencies) \in [1 .. Len(latencies) -> 1 .. Len(latencies)]
         /\ \A i, j \in 1 .. Len(latencies) :
              i < j => /\ Ranking(latencies)[i] # Ranking(latencies)[j]
                       /\ latencies[Ranking(latencies)[i]].us <= latencies[Ranking(latencies)[j]].us
<1>. DEFINE u == [i \in 1 .. Len(latencies) |-> latencies[i].us]
            n == Len(latencies)
<1>1. n \in Nat /\ \A i \in 1 .. n : u[i] = latencies[i].us /\ u[i] \in Int
  <2>1. \A i \in 1 .. n : latencies[i] \in Measurement
    OBVIOUS
  <2>. QED
    BY <2>1 DEF Measurement
<1>. HIDE DEF u
<1>2. \E f \in [1 .. n -> 1 .. n] :
        \A i, j \in 1 .. n : i < j => f[i] # f[j] /\ u[f[i]] <= u[f[j]]
  BY <1>1, OrderExists
<1>3. \E f \in [1 .. n -> 1 .. n] :
        \A i, j \in 1 .. n : i < j => f[i] # f[j] /\ latencies[f[i]].us <= latencies[f[j]].us
  BY <1>1, <1>2
<1>. QED
  BY <1>3 DEF Ranking


\* What is kept of latencies in the order of recording: all from some place on.
LEMMA TrimIs ==
  ASSUME NEW latencies \in Seq(Measurement), NEW time \in Int,
         \A i, j \in 1 .. Len(latencies) : i <= j => latencies[i].ts <= latencies[j].ts
  PROVE  /\ Trim(latencies, time) \in Seq(Measurement)
         /\ \E s \in 0 .. Len(latencies) :
              /\ Len(Trim(latencies, time)) = Len(latencies) - s
              /\ \A k \in 1 .. Len(latencies) - s : Trim(latencies, time)[k] = latencies[s + k]
              /\ \A i \in 1 .. Len(latencies) : s < i <=> latencies[i].ts >= time - Window
<1>. DEFINE n == Len(latencies)
            kept == {i \in 1 .. n : ~Expired(latencies[i], time)}
            first == CHOOSE i \in kept : \A j \in kept : i <= j
<1>0. n \in Nat /\ Window \in Int
  BY MetricsAssumption
<1>1. \A i \in 1 .. n : latencies[i].ts \in Nat
  <2>1. \A i \in 1 .. n : latencies[i] \in Measurement
    OBVIOUS
  <2>. QED
    BY <2>1 DEF Measurement
<1>2. \A i \in 1 .. n : i \in kept <=> latencies[i].ts >= time - Window
  BY <1>0, <1>1 DEF Expired
<1>3. CASE kept = {}
  <2>1. Trim(latencies, time) = <<>>
    BY <1>3 DEF Trim
  <2>2. \A i \in 1 .. n : n < i <=> latencies[i].ts >= time - Window
    BY <1>0, <1>2, <1>3
  <2>3. n \in 0 .. n /\ Len(<<>>) = n - n /\ \A k \in 1 .. n - n : FALSE
    BY <1>0
  <2>. QED
    BY <2>1, <2>2, <2>3
<1>4. CASE kept # {}
  <2>1. kept \in SUBSET Nat
    BY <1>0
  <2>2. \E i \in kept : \A j \in kept : i <= j
    BY <1>4, <2>1, LeastNatural
  <2>3. first \in kept /\ \A j \in kept : first <= j
    BY <2>2
  <2>4. Trim(latencies, time) = SubSeq(latencies, first, n)
    BY <1>4 DEF Trim
  <2>5. PICK m \in 1 .. n : m = first
    BY <2>3
  <2>. HIDE DEF first, kept
  <2>6. m - 1 \in 0 .. n /\ n - (m - 1) = n - m + 1
    BY <1>0
  <2>7. \A i \in 1 .. n : m - 1 < i <=> latencies[i].ts >= time - Window
    <3>. TAKE i \in 1 .. n
    <3>1. CASE m <= i
      <4>1. latencies[m].ts >= time - Window /\ latencies[m].ts <= latencies[i].ts
        BY <1>2, <2>3, <2>5, <3>1
      <4>. QED
        BY <1>0, <1>1, <3>1, <4>1
    <3>2. CASE i < m
      <4>1. i \notin kept
        BY <2>3, <2>5, <3>2
      <4>. QED
        BY <1>2, <3>2, <4>1
    <3>. QED
      BY <3>1, <3>2
  <2>8. /\ SubSeq(latencies, m, n) \in Seq(Measurement)
        /\ Len(SubSeq(latencies, m, n)) = n - (m - 1)
        /\ \A k \in 1 .. n - (m - 1) : SubSeq(latencies, m, n)[k] = latencies[(m - 1) + k]
    BY <1>0
  <2>. QED
    BY <2>4, <2>5, <2>6, <2>7, <2>8
<1>. QED
  BY <1>3, <1>4

\* k makes q thousandths of n, and one less makes no more than that.
IsRank(k, n, q) == 1000 * k >= q * n /\ 1000 * (k - 1) <= q * n

\* The rank of a percentile, whatever products are rounded up.
LEMMA IndexIs ==
  ASSUME NEW n \in Nat \ {0}, NEW q \in 1 .. 1000
  PROVE  Index(n, q) \in 1 .. n /\ IsRank(Index(n, q), n, q)
<1>1. PICK x \in Nat : x = n * q
  OBVIOUS
<1>2. x = q * n /\ x >= 1 /\ x <= 1000 * n
  BY <1>1
<1>3. PICK e \in {999, 1000} : e = IF <<n, q>> \in RoundsUp THEN 1000 ELSE 999
  OBVIOUS
<1>4. PICK rank \in Int : rank = (x + e) \div 1000
  OBVIOUS
<1>5. 1000 * rank >= x /\ 1000 * rank <= x + 1000
  BY <1>3, <1>4
<1>6. rank >= 1
  BY <1>2, <1>5
<1>7. Index(n, q) = IF rank < n THEN rank ELSE n
  BY <1>1, <1>3, <1>4 DEF Index
<1>8. CASE rank < n
  <2>1. Index(n, q) = rank
    BY <1>7, <1>8
  <2>. QED
    BY <1>2, <1>5, <1>6, <1>8, <2>1 DEF IsRank
<1>9. CASE ~(rank < n)
  <2>1. Index(n, q) = n
    BY <1>7, <1>9
  <2>2. 1000 * n >= x /\ 1000 * (n - 1) <= x
    BY <1>2, <1>5, <1>9
  <2>. QED
    BY <1>2, <2>1, <2>2 DEF IsRank
<1>. QED
  BY <1>8, <1>9

\* As many elements as there are places of them.
LEMMA PlacesSize ==
  ASSUME NEW a \in Int, NEW b \in Int, a <= b + 1, NEW h, NEW S,
         S = {h[j] : j \in a .. b},
         \A i, j \in a .. b : i < j => h[i] # h[j]
  PROVE  IsFiniteSet(S) /\ Cardinality(S) = b - a + 1
<1>. DEFINE f == [j \in a .. b |-> h[j]]
<1>1. f \in Bijection(a .. b, S)
  <2>1. \A i, j \in a .. b : i # j => h[i] # h[j]
    <3>. SUFFICES ASSUME NEW i \in a .. b, NEW j \in a .. b, i # j PROVE h[i] # h[j]
      OBVIOUS
    <3>1. i < j \/ j < i
      OBVIOUS
    <3>. QED
      BY <3>1
  <2>2. f \in [a .. b -> S]
    OBVIOUS
  <2>3. \A i, j \in a .. b : f[i] = f[j] => i = j
    BY <2>1
  <2>4. f \in Injection(a .. b, S)
    BY <2>2, <2>3 DEF Injection, IsInjective
  <2>5. \A e \in S : \E j \in a .. b : f[j] = e
    OBVIOUS
  <2>6. f \in Surjection(a .. b, S)
    BY <2>2, <2>5 DEF Surjection
  <2>. QED
    BY <2>4, <2>6 DEF Bijection
<1>2. IsFiniteSet(a .. b) /\ Cardinality(a .. b) = b - a + 1
  BY FS_Interval
<1>. HIDE DEF f
<1>. QED
  BY <1>1, <1>2, SameSize


\* What was recorded at the places R and is not more than us.
UpTo(rec, R, us) == {i \in R : rec[i].us <= us}

\* v was recorded in R; q thousandths of n or more there do not exceed it, and no more than
\* that lie below it.
IsPercentile(v, rec, R, q, n) ==
  /\ \E i \in R : rec[i].us = v
  /\ 1000 * Cardinality(UpTo(rec, R, v)) >= q * n
  /\ 1000 * Cardinality(UpTo(rec, R, v - 1)) <= q * n

(***************************************************************************)
(* A percentile of latencies that are those recorded at the places R, each *)
(* once, is one of them: its share does not exceed it, nor lies below it.  *)
(***************************************************************************)
LEMMA PercentileIs ==
  ASSUME NEW latencies \in Seq(Measurement), Len(latencies) # 0,
         NEW q \in 1 .. 1000, NEW rec, NEW R, NEW g \in Bijection(1 .. Len(latencies), R),
         \A k \in 1 .. Len(latencies) : latencies[k].us = rec[g[k]].us
  PROVE  IsPercentile(Percentile(latencies, q), rec, R, q, Len(latencies))
<1>n. PICK n \in Nat \ {0} : n = Len(latencies)
  OBVIOUS
<1>m. n \in Nat \ {0}
  BY <1>n
<1>g. g \in Bijection(1 .. n, R) /\ \A k \in 1 .. n : latencies[k].us = rec[g[k]].us
  BY <1>n
<1>. DEFINE o == Ranking(latencies)
            h == [j \in 1 .. n |-> g[o[j]]]
            v == Percentile(latencies, q)
<1>0. PICK k \in 1 .. n : k = Index(n, q) /\ IsRank(k, n, q)
  BY <1>m, IndexIs
<1>1. /\ o \in [1 .. n -> 1 .. n]
      /\ \A i, j \in 1 .. n : i < j => o[i] # o[j] /\ latencies[o[i]].us <= latencies[o[j]].us
  BY <1>n, RankingIs
<1>2. \A i \in 1 .. n : latencies[i].us \in Int
  <2>1. \A i \in 1 .. n : latencies[i] \in Measurement
    BY <1>n
  <2>. QED
    BY <2>1 DEF Measurement
<1>3. v = latencies[o[k]].us
  BY <1>0, <1>n DEF Percentile
<1>. HIDE DEF o, v
<1>4. /\ g \in [1 .. n -> R]
      /\ \A i, j \in 1 .. n : g[i] = g[j] => i = j
      /\ \A e \in R : \E j \in 1 .. n : g[j] = e
  BY <1>g DEF Bijection, Injection, IsInjective, Surjection
<1>5. \A j \in 1 .. n : /\ o[j] \in 1 .. n /\ h[j] = g[o[j]] /\ h[j] \in R
                        /\ rec[h[j]].us = latencies[o[j]].us /\ rec[h[j]].us \in Int
  <2>. SUFFICES ASSUME NEW j \in 1 .. n
                PROVE  /\ o[j] \in 1 .. n /\ h[j] = g[o[j]] /\ h[j] \in R
                       /\ rec[h[j]].us = latencies[o[j]].us /\ rec[h[j]].us \in Int
    OBVIOUS
  <2>1. o[j] \in 1 .. n
    BY <1>1
  <2>2. h[j] = g[o[j]]
    OBVIOUS
  <2>3. g[o[j]] \in R /\ latencies[o[j]].us = rec[g[o[j]]].us /\ latencies[o[j]].us \in Int
    BY <1>2, <1>4, <1>g, <2>1
  <2>. QED
    BY <2>1, <2>2, <2>3
<1>6. \A i, j \in 1 .. n : i < j => h[i] # h[j] /\ rec[h[i]].us <= rec[h[j]].us
  <2>. SUFFICES ASSUME NEW i \in 1 .. n, NEW j \in 1 .. n, i < j
                PROVE  h[i] # h[j] /\ rec[h[i]].us <= rec[h[j]].us
    OBVIOUS
  <2>. HIDE DEF h
  <2>1. /\ o[i] \in 1 .. n /\ h[i] = g[o[i]] /\ rec[h[i]].us = latencies[o[i]].us
        /\ o[j] \in 1 .. n /\ h[j] = g[o[j]] /\ rec[h[j]].us = latencies[o[j]].us
    BY <1>5
  <2>2. o[i] # o[j] /\ latencies[o[i]].us <= latencies[o[j]].us
    BY <1>1
  <2>3. g[o[i]] # g[o[j]]
    <3>1. PICK a \in 1 .. n, b \in 1 .. n : a = o[i] /\ b = o[j]
      BY <2>1
    <3>2. a # b
      BY <2>2, <3>1
    <3>3. \A x, y \in 1 .. n : g[x] = g[y] => x = y
      BY <1>4
    <3>4. g[a] # g[b]
      BY <3>2, <3>3
    <3>. QED
      BY <3>1, <3>4
  <2>. QED
    BY <2>1, <2>2, <2>3
<1>. HIDE DEF h
<1>7. rec[h[k]].us = v /\ h[k] \in R /\ v \in Int
  BY <1>3, <1>5
<1>8. IsFiniteSet(R) /\ Cardinality(R) = n
  <2>1. IsFiniteSet(1 .. n) /\ Cardinality(1 .. n) = n
    BY FS_Interval
  <2>. QED
    BY <1>g, <2>1, SameSize
<1>9. Cardinality(UpTo(rec, R, v)) >= k
  <2>. DEFINE S == {h[j] : j \in 1 .. k}
  <2>1. \A i, j \in 1 .. k : i < j => h[i] # h[j]
    BY <1>6
  <2>2. Cardinality(S) = k - 1 + 1
    <3>1. 1 \in Int /\ k \in Int /\ 1 <= k + 1
      BY <1>m
    <3>. QED
      BY <2>1, <3>1, PlacesSize
  <2>3. \A j \in 1 .. k : h[j] \in R /\ rec[h[j]].us <= v
    <3>. TAKE j \in 1 .. k
    <3>1. CASE j = k
      BY <1>7, <3>1
    <3>2. CASE j < k
      BY <1>5, <1>6, <1>7, <3>2
    <3>. QED
      BY <3>1, <3>2
  <2>4. S \in SUBSET UpTo(rec, R, v)
    BY <2>3 DEF UpTo
  <2>5. UpTo(rec, R, v) \in SUBSET R
    BY DEF UpTo
  <2>. HIDE DEF S
  <2>6. IsFiniteSet(UpTo(rec, R, v)) /\ Cardinality(UpTo(rec, R, v)) \in Nat
    BY <1>8, <2>5, FS_Subset, FS_CardinalityType
  <2>7. Cardinality(S) <= Cardinality(UpTo(rec, R, v))
    BY <2>4, <2>6, FS_Subset
  <2>. QED
    BY <2>2, <2>6, <2>7
<1>10. Cardinality(UpTo(rec, R, v - 1)) <= k - 1
  <2>. DEFINE S == {h[j] : j \in k .. n}
              T == UpTo(rec, R, v - 1)
  <2>1. \A i, j \in k .. n : i < j => h[i] # h[j]
    BY <1>6
  <2>2. IsFiniteSet(S) /\ Cardinality(S) = n - k + 1
    <3>1. n \in Int /\ k \in Int /\ k <= n + 1
      BY <1>m
    <3>. QED
      BY <2>1, <3>1, PlacesSize
  <2>3. \A j \in k .. n : h[j] \in R /\ ~(rec[h[j]].us <= v - 1)
    <3>. TAKE j \in k .. n
    <3>1. CASE j = k
      BY <1>7, <3>1
    <3>2. CASE k < j
      BY <1>5, <1>6, <1>7, <3>2
    <3>. QED
      BY <3>1, <3>2
  <2>4. S \cap T = {} /\ S \cup T \in SUBSET R /\ T \in SUBSET R
    BY <2>3 DEF UpTo
  <2>. HIDE DEF S, T
  <2>5. IsFiniteSet(T) /\ Cardinality(T) \in Nat
    BY <1>8, <2>4, FS_Subset, FS_CardinalityType
  <2>6. /\ IsFiniteSet(S \cup T)
        /\ Cardinality(S \cup T) = Cardinality(S) + Cardinality(T) - Cardinality(S \cap T)
    BY <2>2, <2>5, FS_Union
  <2>7. Cardinality(S \cap T) = 0
    BY <2>4, FS_EmptySet
  <2>8. Cardinality(S \cup T) <= n
    BY <1>8, <2>4, FS_Subset
  <2>9. n - k + 1 + Cardinality(T) <= n
    BY <2>2, <2>5, <2>6, <2>7, <2>8
  <2>. QED
    BY <2>5, <2>9 DEF T
<1>11. /\ Cardinality(UpTo(rec, R, v)) \in Nat /\ Cardinality(UpTo(rec, R, v - 1)) \in Nat
  <2>1. UpTo(rec, R, v) \in SUBSET R /\ UpTo(rec, R, v - 1) \in SUBSET R
    BY DEF UpTo
  <2>. QED
    BY <1>8, <2>1, FS_Subset, FS_CardinalityType
<1>12. PICK y \in Int : y = q * n
  OBVIOUS
<1>13. 1000 * Cardinality(UpTo(rec, R, v)) >= y /\ 1000 * Cardinality(UpTo(rec, R, v - 1)) <= y
  <2>1. 1000 * k >= y /\ 1000 * (k - 1) <= y
    BY <1>0, <1>12 DEF IsRank
  <2>. QED
    BY <1>9, <1>10, <1>11, <1>12, <2>1
<1>. QED
  <2>1. IsPercentile(v, rec, R, q, n)
    BY <1>7, <1>12, <1>13 DEF IsPercentile
  <2>. QED
    BY <1>n, <2>1 DEF v

-----------------------------------------------------------------------------

Entry == [of : Priority, us : Int, missed : BOOLEAN, ts : Nat]

\* The k-th of the latencies was recorded at f[k], in the order of recording, and all of
\* class p that were recorded since the cutoff are among them.
Links(f, latencies, rec, p, cutoff) ==
  /\ \A j, k \in 1 .. Len(latencies) : j < k => f[j] < f[k]
  /\ \A k \in 1 .. Len(latencies) :
       latencies[k].us = rec[f[k]].us /\ latencies[k].ts = rec[f[k]].ts
  /\ \A i \in Marked(rec, p) :
       rec[i].ts >= cutoff => \E k \in 1 .. Len(latencies) : f[k] = i

(***************************************************************************)
(* The latencies kept of class p are some of those recorded, in their      *)
(* order, and all that were recorded since the cutoff.                     *)
(***************************************************************************)
Linked(latencies, rec, p, cutoff) ==
  \E f \in [1 .. Len(latencies) -> Marked(rec, p)] : Links(f, latencies, rec, p, cutoff)

\* Measurements are recorded in the order of time.
InOrder(rec) == \A i, j \in 1 .. Len(rec) : i <= j => rec[i].ts <= rec[j].ts

LEMMA LinkedInOrder ==
  ASSUME NEW rec \in Seq(Entry), InOrder(rec), NEW latencies \in Seq(Measurement),
         NEW p, NEW cutoff, Linked(latencies, rec, p, cutoff)
  PROVE  \A j, k \in 1 .. Len(latencies) : j <= k => latencies[j].ts <= latencies[k].ts
<1>1. PICK f \in [1 .. Len(latencies) -> Marked(rec, p)] :
        /\ \A j, k \in 1 .. Len(latencies) : j < k => f[j] < f[k]
        /\ \A k \in 1 .. Len(latencies) : latencies[k].ts = rec[f[k]].ts
  BY DEF Linked, Links
<1>2. \A k \in 1 .. Len(latencies) : f[k] \in 1 .. Len(rec)
  BY DEF Marked
<1>3. ASSUME NEW j \in 1 .. Len(latencies), NEW k \in 1 .. Len(latencies), j <= k
      PROVE  f[j] <= f[k]
  <2>1. Len(rec) \in Nat
    OBVIOUS
  <2>2. CASE j = k
    BY <1>2, <2>1, <2>2
  <2>3. CASE j < k
    BY <1>1, <1>2, <2>1, <2>3
  <2>. QED
    BY <1>3, <2>2, <2>3
<1>. QED
  BY <1>1, <1>2, <1>3 DEF InOrder

\* Trimming keeps what is in the window, and nothing else.
LEMMA LinkTrims ==
  ASSUME NEW rec \in Seq(Entry), InOrder(rec), NEW latencies \in Seq(Measurement),
         NEW p, NEW cutoff \in Int, NEW time \in Int, Linked(latencies, rec, p, cutoff),
         cutoff <= time - Window
  PROVE  /\ Trim(latencies, time) \in Seq(Measurement)
         /\ Linked(Trim(latencies, time), rec, p, time - Window)
         /\ \A k \in 1 .. Len(Trim(latencies, time)) : Trim(latencies, time)[k].ts >= time - Window
<1>. DEFINE n == Len(latencies)
            kept == Trim(latencies, time)
<1>1. \A j, k \in 1 .. n : j <= k => latencies[j].ts <= latencies[k].ts
  BY LinkedInOrder
<1>2. kept \in Seq(Measurement)
  BY <1>1, TrimIs
<1>3. PICK s \in 0 .. n :
        /\ Len(kept) = n - s
        /\ \A k \in 1 .. n - s : kept[k] = latencies[s + k]
        /\ \A i \in 1 .. n : s < i <=> latencies[i].ts >= time - Window
  BY <1>1, TrimIs
<1>. HIDE DEF kept
<1>4. PICK f \in [1 .. n -> Marked(rec, p)] :
        /\ \A j, k \in 1 .. n : j < k => f[j] < f[k]
        /\ \A k \in 1 .. n : latencies[k].us = rec[f[k]].us /\ latencies[k].ts = rec[f[k]].ts
        /\ \A i \in Marked(rec, p) : rec[i].ts >= cutoff => \E k \in 1 .. n : f[k] = i
  BY DEF Linked, Links
<1>. DEFINE g == [k \in 1 .. n - s |-> f[s + k]]
<1>5. n \in Nat /\ \A k \in 1 .. n - s : s + k \in 1 .. n /\ s < s + k
  OBVIOUS
<1>6. g \in [1 .. Len(kept) -> Marked(rec, p)]
  BY <1>3, <1>5
<1>7. \A j, k \in 1 .. Len(kept) : j < k => g[j] < g[k]
  <2>. SUFFICES ASSUME NEW j \in 1 .. n - s, NEW k \in 1 .. n - s, j < k PROVE g[j] < g[k]
    BY <1>3
  <2>1. s + j < s + k
    OBVIOUS
  <2>. QED
    BY <1>4, <1>5, <2>1
<1>8. \A k \in 1 .. Len(kept) : kept[k].us = rec[g[k]].us /\ kept[k].ts = rec[g[k]].ts
  BY <1>3, <1>4, <1>5
<1>9. \A k \in 1 .. Len(kept) : kept[k].ts >= time - Window
  BY <1>3, <1>5
<1>10. ASSUME NEW i \in Marked(rec, p), rec[i].ts >= time - Window
       PROVE  \E k \in 1 .. Len(kept) : g[k] = i
  <2>1. rec[i] \in Entry /\ Window \in Nat
    BY MetricsAssumption DEF Marked
  <2>2. rec[i].ts \in Nat
    BY <2>1 DEF Entry
  <2>3. rec[i].ts >= cutoff
    BY <1>10, <2>1, <2>2
  <2>4. PICK k \in 1 .. n : f[k] = i
    BY <1>4, <2>3
  <2>5. s < k
    BY <1>3, <1>4, <1>10, <2>4
  <2>6. k - s \in 1 .. n - s /\ s + (k - s) = k
    BY <1>5, <2>5
  <2>. QED
    BY <1>3, <2>4, <2>6
<1>11. Linked(kept, rec, p, time - Window)
  <2>. HIDE DEF g
  <2>. QED
    BY <1>6, <1>7, <1>8, <1>10 DEF Linked, Links
<1>. QED
  BY <1>2, <1>9, <1>11 DEF kept


\* The window only moves on.
LEMMA LinkedLater ==
  ASSUME NEW rec \in Seq(Entry), NEW latencies, NEW p, NEW c \in Int, NEW d \in Int,
         c <= d, Linked(latencies, rec, p, c)
  PROVE  Linked(latencies, rec, p, d)
<1>1. \A i \in Marked(rec, p) : rec[i].ts >= d => rec[i].ts >= c
  <2>1. \A i \in Marked(rec, p) : rec[i] \in Entry
    BY DEF Marked
  <2>2. \A i \in Marked(rec, p) : rec[i].ts \in Nat
    BY <2>1 DEF Entry
  <2>. QED
    BY <2>2
<1>. QED
  BY <1>1 DEF Linked, Links

\* What the histories and the marked places are after one more entry.
LEMMA EntryAppended ==
  ASSUME NEW rec \in Seq(Entry), NEW e \in Entry, NEW p
  PROVE  /\ Len(rec) \in Nat /\ Append(rec, e) \in Seq(Entry)
         /\ Len(Append(rec, e)) = Len(rec) + 1
         /\ Append(rec, e)[Len(rec) + 1] = e
         /\ \A i \in 1 .. Len(rec) : Append(rec, e)[i] = rec[i]
         /\ \A i \in Marked(rec, p) : i \in 1 .. Len(rec)
         /\ Marked(Append(rec, e), p) =
              IF e.of = p THEN Marked(rec, p) \cup {Len(rec) + 1} ELSE Marked(rec, p)
<1>1. /\ Len(rec) \in Nat /\ Append(rec, e) \in Seq(Entry)
      /\ Len(Append(rec, e)) = Len(rec) + 1
      /\ Append(rec, e)[Len(rec) + 1] = e
      /\ \A i \in 1 .. Len(rec) : Append(rec, e)[i] = rec[i]
  OBVIOUS
<1>2. CASE e.of = p
  BY <1>1, <1>2 DEF Marked
<1>3. CASE e.of # p
  BY <1>1, <1>3 DEF Marked
<1>. QED
  BY <1>1, <1>2, <1>3 DEF Marked

\* Recording an entry of another class.
LEMMA LinkOther ==
  ASSUME NEW rec \in Seq(Entry), NEW e \in Entry, NEW latencies, NEW p, NEW c,
         e.of # p, Linked(latencies, rec, p, c)
  PROVE  Linked(latencies, Append(rec, e), p, c)
<1>1. PICK f \in [1 .. Len(latencies) -> Marked(rec, p)] :
        /\ \A j, k \in 1 .. Len(latencies) : j < k => f[j] < f[k]
        /\ \A k \in 1 .. Len(latencies) :
             latencies[k].us = rec[f[k]].us /\ latencies[k].ts = rec[f[k]].ts
        /\ \A i \in Marked(rec, p) : rec[i].ts >= c => \E k \in 1 .. Len(latencies) : f[k] = i
  BY DEF Linked, Links
<1>2. Marked(Append(rec, e), p) = Marked(rec, p)
  BY EntryAppended
<1>3. \A i \in Marked(rec, p) : Append(rec, e)[i] = rec[i]
  BY EntryAppended
<1>4. \A k \in 1 .. Len(latencies) : Append(rec, e)[f[k]] = rec[f[k]]
  BY <1>3
<1>. QED
  <2>1. f \in [1 .. Len(latencies) -> Marked(Append(rec, e), p)]
    BY <1>2
  <2>2. Links(f, latencies, Append(rec, e), p, c)
    BY <1>1, <1>2, <1>3, <1>4 DEF Links
  <2>. QED
    BY <2>1, <2>2 DEF Linked

\* Recording an entry of the class, and its measurement with it.
LEMMA LinkAppends ==
  ASSUME NEW rec \in Seq(Entry), NEW e \in Entry,
         NEW latencies \in Seq(Measurement), NEW m \in Measurement,
         m.us = e.us, m.ts = e.ts,
         NEW p, NEW c, e.of = p, Linked(latencies, rec, p, c)
  PROVE  Linked(Append(latencies, m), Append(rec, e), p, c)
<1>. DEFINE n == Len(latencies)
            l == Len(rec)
            longer == Append(latencies, m)
            all == Append(rec, e)
<1>1. PICK f \in [1 .. n -> Marked(rec, p)] :
        /\ \A j, k \in 1 .. n : j < k => f[j] < f[k]
        /\ \A k \in 1 .. n : latencies[k].us = rec[f[k]].us /\ latencies[k].ts = rec[f[k]].ts
        /\ \A i \in Marked(rec, p) : rec[i].ts >= c => \E k \in 1 .. n : f[k] = i
  BY DEF Linked, Links
<1>2. /\ n \in Nat /\ Len(longer) = n + 1 /\ longer[n + 1] = m
      /\ \A k \in 1 .. n : longer[k] = latencies[k]
  OBVIOUS
<1>3. /\ l \in Nat /\ Marked(all, p) = Marked(rec, p) \cup {l + 1} /\ all[l + 1] = e
      /\ \A i \in Marked(rec, p) : i \in 1 .. l /\ all[i] = rec[i]
  BY EntryAppended
<1>. HIDE DEF l, longer, all
<1>. DEFINE g == [k \in 1 .. n + 1 |-> IF k = n + 1 THEN l + 1 ELSE f[k]]
<1>4. \A k \in 1 .. n : g[k] = f[k] /\ f[k] \in Marked(rec, p)
  BY <1>2
<1>5. g[n + 1] = l + 1 /\ \A k \in 1 .. n + 1 : k = n + 1 \/ k \in 1 .. n
  BY <1>2
<1>6. g \in [1 .. n + 1 -> Marked(all, p)]
  BY <1>3, <1>4, <1>5
<1>. HIDE DEF g, n
<1>7. \A j, k \in 1 .. n + 1 : j < k => g[j] < g[k]
  <2>. SUFFICES ASSUME NEW j \in 1 .. n + 1, NEW k \in 1 .. n + 1, j < k PROVE g[j] < g[k]
    OBVIOUS
  <2>1. j \in 1 .. n
    BY <1>2
  <2>2. CASE k = n + 1
    BY <1>3, <1>4, <1>5, <2>1, <2>2
  <2>3. CASE k \in 1 .. n
    BY <1>1, <1>4, <2>1, <2>3
  <2>. QED
    BY <1>5, <2>2, <2>3
<1>8. ASSUME NEW k \in 1 .. n + 1
      PROVE  longer[k].us = all[g[k]].us /\ longer[k].ts = all[g[k]].ts
  <2>1. CASE k = n + 1
    BY <1>2, <1>3, <1>5, <2>1
  <2>2. CASE k \in 1 .. n
    <3>1. g[k] = f[k] /\ f[k] \in Marked(rec, p) /\ longer[k] = latencies[k]
      BY <1>2, <1>4, <2>2
    <3>2. all[f[k]] = rec[f[k]]
      BY <1>3, <3>1
    <3>3. latencies[k].us = rec[f[k]].us /\ latencies[k].ts = rec[f[k]].ts
      BY <1>1, <2>2
    <3>. QED
      BY <3>1, <3>2, <3>3
  <2>. QED
    BY <1>5, <2>1, <2>2
<1>9. ASSUME NEW i \in Marked(all, p), all[i].ts >= c
      PROVE  \E k \in 1 .. n + 1 : g[k] = i
  <2>1. CASE i = l + 1
    <3>1. n + 1 \in 1 .. n + 1
      BY <1>2
    <3>. QED
      BY <1>5, <2>1, <3>1
  <2>2. CASE i \in Marked(rec, p)
    <3>1. PICK k \in 1 .. n : f[k] = i
      BY <1>1, <1>3, <1>9, <2>2
    <3>2. k \in 1 .. n + 1
      BY <1>2
    <3>. QED
      BY <1>4, <3>1, <3>2
  <2>. QED
    BY <1>3, <2>1, <2>2
<1>10. g \in [1 .. Len(longer) -> Marked(all, p)]
  BY <1>2, <1>6
<1>11. Links(g, longer, all, p, c)
  BY <1>2, <1>7, <1>8, <1>9 DEF Links
<1>. QED
  BY <1>10, <1>11 DEF Linked, longer, all


\* The packets of p recorded that missed their deadline.
MissedOf(rec, p) == {i \in Marked(rec, p) : rec[i].missed}

LEMMA MissedAppend ==
  ASSUME NEW rec \in Seq(Entry), NEW e \in Entry, NEW p
  PROVE  /\ Cardinality(MissedOf(rec, p)) \in Nat
         /\ Cardinality(MissedOf(Append(rec, e), p)) =
              Cardinality(MissedOf(rec, p)) + One(e.of = p /\ e.missed)
<1>. DEFINE l == Len(rec)
            all == Append(rec, e)
<1>1. /\ l \in Nat /\ all[l + 1] = e
      /\ \A i \in Marked(rec, p) : i \in 1 .. l /\ all[i] = rec[i]
      /\ Marked(all, p) = IF e.of = p THEN Marked(rec, p) \cup {l + 1} ELSE Marked(rec, p)
  BY EntryAppended
<1>. HIDE DEF l, all
<1>2. IsFiniteSet(MissedOf(rec, p)) /\ Cardinality(MissedOf(rec, p)) \in Nat
  <2>1. MissedOf(rec, p) \in SUBSET Marked(rec, p)
    BY DEF MissedOf
  <2>. QED
    BY <2>1, MarkedFinite, FS_Subset, FS_CardinalityType
<1>3. CASE e.of = p /\ e.missed
  <2>1. MissedOf(all, p) = MissedOf(rec, p) \cup {l + 1}
    BY <1>1, <1>3 DEF MissedOf
  <2>2. l + 1 \notin MissedOf(rec, p)
    BY <1>1 DEF MissedOf
  <2>. QED
    BY <1>2, <1>3, <2>1, <2>2, FS_AddElement DEF One, all
<1>4. CASE ~(e.of = p /\ e.missed)
  <2>1. MissedOf(all, p) = MissedOf(rec, p)
    BY <1>1, <1>4 DEF MissedOf
  <2>. QED
    BY <1>2, <1>4, <2>1 DEF One, all
<1>. QED
  BY <1>3, <1>4

-----------------------------------------------------------------------------

\* The statistics m of class p are those of the entries recorded, from the cutoff on.
Faithful(m, rec, p, cutoff) ==
  /\ m.count = Cardinality(Marked(rec, p))
  /\ m.misses = Cardinality(MissedOf(rec, p))
  /\ m.latencies \in Seq(Measurement)
  /\ Linked(m.latencies, rec, p, cutoff)

\* What was recorded, in the order of time and not after the clock.
RecordedTypes ==
  /\ recorded \in Seq(Entry)
  /\ InOrder(recorded)
  /\ \A i \in 1 .. Len(recorded) : recorded[i].ts <= now

SnapshotInv ==
  /\ FlowInv /\ RecordedTypes
  /\ \A p \in Priority : Faithful(metrics[p], recorded, p, now - Window)

LEMMA SnapshotInit == Init => SnapshotInv
<1>. SUFFICES ASSUME Init PROVE SnapshotInv
  OBVIOUS
<1>1. recorded = <<>> /\ metrics = [p \in Priority |-> NoMetrics]
  BY DEF Init, MetricsInit
<1>2. RecordedTypes
  BY <1>1 DEF RecordedTypes, InOrder
<1>3. ASSUME NEW p \in Priority PROVE Faithful(metrics[p], recorded, p, now - Window)
  <2>1. Marked(recorded, p) = {} /\ MissedOf(recorded, p) = {}
    BY <1>1 DEF Marked, MissedOf
  <2>2. metrics[p].count = 0 /\ metrics[p].misses = 0 /\ metrics[p].latencies = <<>>
    BY <1>1 DEF NoMetrics
  <2>3. Cardinality({}) = 0
    BY FS_EmptySet
  <2>4. Linked(<<>>, recorded, p, now - Window)
    <3>1. \E f : f \in [1 .. Len(<<>>) -> Marked(recorded, p)]
      <4>1. [k \in 1 .. Len(<<>>) |-> k] \in [1 .. Len(<<>>) -> Marked(recorded, p)]
        OBVIOUS
      <4>. QED
        BY <4>1
    <3>2. \A k \in 1 .. Len(<<>>) : FALSE
      OBVIOUS
    <3>. QED
      BY <2>1, <3>1, <3>2 DEF Linked, Links
  <2>5. <<>> \in Seq(Measurement)
    OBVIOUS
  <2>. QED
    BY <2>1, <2>2, <2>3, <2>4, <2>5 DEF Faithful
<1>. QED
  BY <1>2, <1>3, FlowInit DEF SnapshotInv

\* Steps that record nothing and trim nothing.
LEMMA SnapshotLater ==
  ASSUME SnapshotInv, UNCHANGED <<recorded, metrics>>, now' \in Int, now <= now'
  PROVE  /\ RecordedTypes'
         /\ \A p \in Priority : Faithful(metrics[p], recorded, p, now - Window)'
<1>1. now \in Int /\ Window \in Int /\ recorded \in Seq(Entry)
  BY MetricsAssumption DEF SnapshotInv, FlowInv, InversionInv, ArrivalTypes, RecordedTypes
<1>2. \A i \in 1 .. Len(recorded) : recorded[i].ts \in Nat
  <2>1. \A i \in 1 .. Len(recorded) : recorded[i] \in Entry
    BY <1>1
  <2>. QED
    BY <2>1 DEF Entry
<1>3. RecordedTypes'
  <2>1. \A i \in 1 .. Len(recorded) : recorded[i].ts <= now
    BY DEF SnapshotInv, RecordedTypes
  <2>2. \A i \in 1 .. Len(recorded) : recorded[i].ts <= now'
    BY <1>1, <1>2, <2>1
  <2>3. InOrder(recorded)
    BY DEF SnapshotInv, RecordedTypes
  <2>. QED
    BY <1>1, <2>2, <2>3 DEF RecordedTypes
<1>4. now - Window \in Int /\ now' - Window \in Int /\ now - Window <= now' - Window
  <2>1. \A a, b, c \in Int : a <= b => a - c \in Int /\ b - c \in Int /\ a - c <= b - c
    OBVIOUS
  <2>2. now \in Int /\ now' \in Int /\ Window \in Int /\ now <= now'
    BY <1>1, Zenon
  <2>. QED
    BY <2>1, <2>2, Zenon
<1>5. ASSUME NEW p \in Priority PROVE Faithful(metrics[p], recorded, p, now' - Window)
  <2>1. Faithful(metrics[p], recorded, p, now - Window)
    BY DEF SnapshotInv
  <2>2. Linked(metrics[p].latencies, recorded, p, now - Window)
    BY <2>1 DEF Faithful
  <2>3. Linked(metrics[p].latencies, recorded, p, now' - Window)
    BY <1>1, <1>4, <2>2, LinkedLater
  <2>. QED
    BY <2>1, <2>3 DEF Faithful
<1>. QED
  BY <1>3, <1>5

\* The Statistics-Thread trims what it takes.
LEMMA SnapshotTrimmed ==
  ASSUME SnapshotInv, SendMetrics, now' \in Int, now <= now'
  PROVE  /\ RecordedTypes'
         /\ \A p \in Priority : Faithful(metrics[p], recorded, p, now - Window)'
<1>1. now \in Int /\ Window \in Int /\ recorded \in Seq(Entry) /\ InOrder(recorded)
  BY MetricsAssumption DEF SnapshotInv, FlowInv, InversionInv, ArrivalTypes, RecordedTypes
<1>2. \A i \in 1 .. Len(recorded) : recorded[i].ts \in Nat
  <2>1. \A i \in 1 .. Len(recorded) : recorded[i] \in Entry
    BY <1>1
  <2>. QED
    BY <2>1 DEF Entry
<1>3. recorded' = recorded
  BY DEF SendMetrics, procVars
<1>4. RecordedTypes'
  <2>1. \A i \in 1 .. Len(recorded) : recorded[i].ts <= now
    BY DEF SnapshotInv, RecordedTypes
  <2>2. \A i \in 1 .. Len(recorded) : recorded[i].ts <= now'
    BY <1>1, <1>2, <2>1
  <2>3. InOrder(recorded)
    BY DEF SnapshotInv, RecordedTypes
  <2>. QED
    BY <1>1, <1>3, <2>2, <2>3 DEF RecordedTypes
<1>5. now - Window \in Int /\ now - Window <= now' - Window
  <2>1. \A a, b, c \in Int : a <= b => a - c \in Int /\ b - c \in Int /\ a - c <= b - c
    OBVIOUS
  <2>2. now \in Int /\ now' \in Int /\ Window \in Int /\ now <= now'
    BY <1>1, Zenon
  <2>. QED
    BY <2>1, <2>2, Zenon
<1>6. ASSUME NEW p \in Priority PROVE Faithful(metrics'[p], recorded, p, now' - Window)
  <2>1. Faithful(metrics[p], recorded, p, now - Window)
    BY DEF SnapshotInv
  <2>2. /\ metrics[p].latencies \in Seq(Measurement)
        /\ Linked(metrics[p].latencies, recorded, p, now - Window)
    BY <2>1 DEF Faithful
  <2>3. /\ Trim(metrics[p].latencies, now') \in Seq(Measurement)
        /\ Linked(Trim(metrics[p].latencies, now'), recorded, p, now' - Window)
    BY <1>1, <1>5, <2>2, LinkTrims
  <2>4. metrics'[p] = [count |-> metrics[p].count, misses |-> metrics[p].misses,
                       latencies |-> Trim(metrics[p].latencies, now')]
    BY DEF SendMetrics, CleanedUp
  <2>. QED
    BY <2>1, <2>3, <2>4 DEF Faithful
<1>. QED
  BY <1>3, <1>4, <1>6

\* The Metrics-Processor records the next event of the batch.
LEMMA SnapshotRecorded ==
  ASSUME SnapshotInv, RecordLatency, now' \in Nat
  PROVE  /\ RecordedTypes'
         /\ \A p \in Priority : Faithful(metrics[p], recorded, p, now - Window)'
<1>1. /\ now \in Int /\ Window \in Int /\ now' \in Int /\ now <= now'
      /\ recorded \in Seq(Entry) /\ InOrder(recorded)
  BY MetricsAssumption
     DEF SnapshotInv, FlowInv, InversionInv, ArrivalTypes, RecordedTypes, RecordLatency
<1>2. PICK event \in Event : event = Head(batch)
  BY DEF SnapshotInv, FlowInv, CollectorTypes, RecordLatency
<1>3. PICK p \in Priority : p = event.of
  BY DEF Event
<1>4. event.latency \in Int /\ event.missed \in BOOLEAN
  BY DEF Event
<1>5. PICK e \in Entry : e = [of |-> p, us |-> event.latency, missed |-> event.missed, ts |-> now']
  BY <1>4 DEF Entry
<1>6. PICK m \in Measurement : m = [us |-> event.latency, ts |-> now']
  BY <1>4 DEF Measurement
<1>7. e.of = p /\ e.missed = event.missed /\ e.ts = now' /\ m.us = e.us /\ m.ts = e.ts
  BY <1>5, <1>6
<1>8. recorded' = Append(recorded, e)
  BY <1>2, <1>3, <1>5 DEF RecordLatency
<1>9. PICK r : r = [count |-> metrics[p].count + 1, misses |-> metrics[p].misses + One(e.missed),
                    latencies |-> Trim(Append(metrics[p].latencies, m), now')]
  OBVIOUS
<1>10. metrics' = [metrics EXCEPT ![p] = r]
  BY <1>2, <1>3, <1>6, <1>7, <1>9 DEF RecordLatency, One
<1>11. /\ r.count = metrics[p].count + 1 /\ r.misses = metrics[p].misses + One(e.missed)
       /\ r.latencies = Trim(Append(metrics[p].latencies, m), now')
  BY <1>9
<1>12. metrics'[p] = r /\ \A q \in Priority : q # p => metrics'[q] = metrics[q]
  BY <1>10 DEF SnapshotInv, FlowInv, CollectorTypes
<1>13. /\ Len(recorded) \in Nat /\ Append(recorded, e) \in Seq(Entry)
       /\ Len(Append(recorded, e)) = Len(recorded) + 1
       /\ Append(recorded, e)[Len(recorded) + 1] = e
       /\ \A i \in 1 .. Len(recorded) : Append(recorded, e)[i] = recorded[i]
  BY <1>1, EntryAppended
<1>14. \A i \in 1 .. Len(recorded) : recorded[i].ts \in Nat /\ recorded[i].ts <= now'
  <2>. TAKE i \in 1 .. Len(recorded)
  <2>1. recorded[i] \in Entry
    BY <1>1
  <2>2. recorded[i].ts \in Nat /\ recorded[i].ts <= now
    BY <2>1 DEF Entry, SnapshotInv, RecordedTypes
  <2>. QED
    BY <1>1, <2>2
<1>15. InOrder(Append(recorded, e))
  <2>. SUFFICES ASSUME NEW i \in 1 .. Len(recorded) + 1, NEW j \in 1 .. Len(recorded) + 1, i <= j
                PROVE  Append(recorded, e)[i].ts <= Append(recorded, e)[j].ts
    BY <1>13 DEF InOrder
  <2>1. CASE j = Len(recorded) + 1 /\ i = j
    BY <1>1, <1>7, <1>13, <2>1
  <2>2. CASE j = Len(recorded) + 1 /\ i # j
    <3>1. i \in 1 .. Len(recorded)
      BY <1>13, <2>2
    <3>. QED
      BY <1>7, <1>13, <1>14, <2>2, <3>1
  <2>3. CASE j # Len(recorded) + 1
    <3>1. i \in 1 .. Len(recorded) /\ j \in 1 .. Len(recorded)
      BY <1>13, <2>3
    <3>2. recorded[i].ts <= recorded[j].ts
      BY <1>1, <3>1 DEF InOrder
    <3>. QED
      BY <1>13, <3>1, <3>2
  <2>. QED
    BY <2>1, <2>2, <2>3
<1>16. RecordedTypes'
  <2>1. ASSUME NEW i \in 1 .. Len(recorded) + 1 PROVE Append(recorded, e)[i].ts <= now'
    <3>1. CASE i = Len(recorded) + 1
      BY <1>1, <1>7, <1>13, <3>1
    <3>2. CASE i \in 1 .. Len(recorded)
      BY <1>13, <1>14, <3>2
    <3>. QED
      BY <1>13, <3>1, <3>2
  <2>. QED
    BY <1>8, <1>13, <1>15, <2>1 DEF RecordedTypes
<1>17. now - Window \in Int /\ now' - Window \in Int /\ now - Window <= now' - Window
  <2>1. \A a, b, c \in Int : a <= b => a - c \in Int /\ b - c \in Int /\ a - c <= b - c
    OBVIOUS
  <2>2. now \in Int /\ now' \in Int /\ Window \in Int /\ now <= now'
    BY <1>1, Zenon
  <2>. QED
    BY <2>1, <2>2, Zenon
<1>18. ASSUME NEW q \in Priority PROVE Faithful(metrics'[q], Append(recorded, e), q, now' - Window)
  <2>1. Faithful(metrics[q], recorded, q, now - Window)
    BY DEF SnapshotInv
  <2>2. /\ metrics[q].latencies \in Seq(Measurement)
        /\ Linked(metrics[q].latencies, recorded, q, now - Window)
        /\ metrics[q].count = Cardinality(Marked(recorded, q))
        /\ metrics[q].misses = Cardinality(MissedOf(recorded, q))
    BY <2>1 DEF Faithful
  <2>3. Cardinality(Marked(Append(recorded, e), q)) = Cardinality(Marked(recorded, q)) + One(e.of = q)
    BY <1>1, MarkedAppend
  <2>4. Cardinality(MissedOf(Append(recorded, e), q)) =
          Cardinality(MissedOf(recorded, q)) + One(e.of = q /\ e.missed)
    BY <1>1, MissedAppend
  <2>5. Cardinality(Marked(recorded, q)) \in Nat /\ Cardinality(MissedOf(recorded, q)) \in Nat
    BY <1>1, MarkedFinite, MissedAppend
  <2>6. CASE q = p
    <3>1. Linked(Append(metrics[q].latencies, m), Append(recorded, e), q, now - Window)
      BY <1>1, <1>7, <2>2, <2>6, LinkAppends
    <3>2. Append(metrics[q].latencies, m) \in Seq(Measurement)
      BY <2>2
    <3>3. /\ Trim(Append(metrics[q].latencies, m), now') \in Seq(Measurement)
          /\ Linked(Trim(Append(metrics[q].latencies, m), now'), Append(recorded, e), q,
                    now' - Window)
      BY <1>1, <1>13, <1>15, <1>17, <3>1, <3>2, LinkTrims
    <3>4. r.latencies = Trim(Append(metrics[q].latencies, m), now') /\ metrics'[q] = r
      BY <1>11, <1>12, <2>6
    <3>5. r.count = Cardinality(Marked(Append(recorded, e), q))
      BY <1>7, <1>11, <2>2, <2>3, <2>6 DEF One
    <3>6. One(e.of = q /\ e.missed) = One(e.missed)
      BY <1>7, <2>6 DEF One
    <3>7. r.misses = Cardinality(MissedOf(Append(recorded, e), q))
      BY <1>11, <2>2, <2>4, <2>6, <3>6
    <3>. QED
      BY <3>3, <3>4, <3>5, <3>7 DEF Faithful
  <2>7. CASE q # p
    <3>1. e.of # q
      BY <1>7, <2>7
    <3>2. Linked(metrics[q].latencies, Append(recorded, e), q, now - Window)
      BY <1>1, <2>2, <3>1, LinkOther
    <3>3. Linked(metrics[q].latencies, Append(recorded, e), q, now' - Window)
      BY <1>13, <1>17, <3>2, LinkedLater
    <3>4. One(e.of = q) = 0 /\ One(e.of = q /\ e.missed) = 0
      BY <3>1 DEF One
    <3>5. metrics'[q] = metrics[q]
      BY <1>12, <2>7
    <3>6. /\ metrics[q].count = Cardinality(Marked(Append(recorded, e), q))
          /\ metrics[q].misses = Cardinality(MissedOf(Append(recorded, e), q))
      BY <2>2, <2>3, <2>4, <2>5, <3>4
    <3>. QED
      BY <2>2, <3>3, <3>5, <3>6 DEF Faithful
  <2>. QED
    BY <2>6, <2>7
<1>. QED
  BY <1>8, <1>16, <1>18


\* The entries of class p recorded since the cutoff.
Since(rec, p, cutoff) == {i \in Marked(rec, p) : rec[i].ts >= cutoff}

\* Latencies without an expired one are the entries of the window, each once.
LEMMA LinkedExact ==
  ASSUME NEW rec \in Seq(Entry), NEW latencies \in Seq(Measurement), NEW p, NEW c \in Int,
         Linked(latencies, rec, p, c), \A k \in 1 .. Len(latencies) : latencies[k].ts >= c
  PROVE  \E g \in Bijection(1 .. Len(latencies), Since(rec, p, c)) :
           \A k \in 1 .. Len(latencies) : latencies[k].us = rec[g[k]].us
<1>. DEFINE n == Len(latencies)
<1>1. PICK f \in [1 .. n -> Marked(rec, p)] : Links(f, latencies, rec, p, c)
  BY DEF Linked
<1>2. \A k \in 1 .. n : latencies[k].us = rec[f[k]].us /\ latencies[k].ts = rec[f[k]].ts
  BY <1>1 DEF Links
<1>3. f \in [1 .. n -> Since(rec, p, c)]
  <2>1. \A k \in 1 .. n : f[k] \in Since(rec, p, c)
    BY <1>2 DEF Since
  <2>. QED
    BY <2>1
<1>4. \A j, k \in 1 .. n : f[j] = f[k] => j = k
  <2>. SUFFICES ASSUME NEW j \in 1 .. n, NEW k \in 1 .. n, j # k PROVE f[j] # f[k]
    OBVIOUS
  <2>1. j < k \/ k < j
    OBVIOUS
  <2>2. f[j] < f[k] \/ f[k] < f[j]
    BY <1>1, <2>1 DEF Links
  <2>3. f[j] \in Nat /\ f[k] \in Nat
    BY DEF Marked
  <2>. QED
    BY <2>2, <2>3
<1>5. \A i \in Since(rec, p, c) : \E k \in 1 .. n : f[k] = i
  BY <1>1 DEF Links, Since
<1>6. f \in Bijection(1 .. n, Since(rec, p, c))
  <2>1. f \in Injection(1 .. n, Since(rec, p, c))
    BY <1>3, <1>4 DEF Injection, IsInjective
  <2>2. f \in Surjection(1 .. n, Since(rec, p, c))
    BY <1>3, <1>5 DEF Surjection
  <2>. QED
    BY <2>1, <2>2 DEF Bijection
<1>. QED
  BY <1>2, <1>6

\* What is kept after a trim is exact.
LEMMA SnapshotIsExact ==
  ASSUME SnapshotInv, NEW time \in Int, now <= time, NEW p \in Priority
  PROVE  Exact(CleanedUp(time)[p], p, time)
<1>. DEFINE latencies == CleanedUp(time)[p].latencies
            R == Since(recorded, p, time - Window)
<1>1. /\ now \in Int /\ Window \in Int /\ time - Window \in Int
      /\ recorded \in Seq(Entry) /\ InOrder(recorded)
  BY MetricsAssumption
     DEF SnapshotInv, FlowInv, InversionInv, ArrivalTypes, RecordedTypes
<1>2. Faithful(metrics[p], recorded, p, now - Window)
  BY DEF SnapshotInv
<1>3. now - Window <= time - Window
  BY <1>1
<1>4. /\ latencies \in Seq(Measurement)
      /\ Linked(latencies, recorded, p, time - Window)
      /\ \A k \in 1 .. Len(latencies) : latencies[k].ts >= time - Window
  <2>1. latencies = Trim(metrics[p].latencies, time)
    BY DEF CleanedUp
  <2>. HIDE DEF latencies
  <2>. QED
    BY <1>1, <1>2, <1>3, <2>1, LinkTrims DEF Faithful
<1>. HIDE DEF latencies
<1>5. PICK g \in Bijection(1 .. Len(latencies), R) :
        \A k \in 1 .. Len(latencies) : latencies[k].us = recorded[g[k]].us
  BY <1>1, <1>4, LinkedExact
<1>6. R = {i \in {j \in 1 .. Len(recorded) : recorded[j].of = p} : recorded[i].ts >= time - Window}
  BY DEF Since, Marked
<1>7. /\ CleanedUp(time)[p].count = Cardinality({i \in 1 .. Len(recorded) : recorded[i].of = p})
      /\ CleanedUp(time)[p].misses =
           Cardinality({i \in {j \in 1 .. Len(recorded) : recorded[j].of = p} : recorded[i].missed})
  <2>1. CleanedUp(time)[p].count = metrics[p].count /\ CleanedUp(time)[p].misses = metrics[p].misses
    BY DEF CleanedUp
  <2>. QED
    BY <1>2, <2>1 DEF Faithful, Marked, MissedOf
<1>. HIDE DEF R
<1>8. Len(latencies) \in Nat /\ IsFiniteSet(R) /\ Cardinality(R) = Len(latencies)
  <2>1. PICK n \in Nat : n = Len(latencies)
    BY <1>4
  <2>2. IsFiniteSet(1 .. n) /\ Cardinality(1 .. n) = n
    <3>1. 1 \in Int /\ n \in Int /\ n - 1 + 1 = n /\ (1 > n => n = 0)
      OBVIOUS
    <3>. QED
      BY <3>1, FS_Interval
  <2>3. g \in Bijection(1 .. n, R)
    BY <2>1
  <2>4. IsFiniteSet(R) /\ Cardinality(R) = n
    BY <2>2, <2>3, SameSize
  <2>. QED
    BY <2>1, <2>4
<1>9. ASSUME NEW q \in Quantiles, R # {}
      PROVE  IsPercentile(Percentile(latencies, q), recorded, R, q, Cardinality(R))
  <2>1. Len(latencies) # 0
    BY <1>8, <1>9, FS_EmptySet
  <2>2. q \in 1 .. 1000
    BY MetricsAssumption
  <2>3. IsPercentile(Percentile(latencies, q), recorded, R, q, Len(latencies))
    BY <1>4, <1>5, <2>1, <2>2, PercentileIs
  <2>. QED
    BY <1>8, <2>3
<1>. DEFINE mine == {i \in 1 .. Len(recorded) : recorded[i].of = p}
            recent == {i \in mine : recorded[i].ts >= time - Window}
            Within(us) == {i \in recent : recorded[i].us <= us}
<1>10. R = recent /\ \A us : UpTo(recorded, R, us) = Within(us)
  BY <1>6, Zenon DEF UpTo
<1>11. Len(latencies) = Cardinality(recent)
  BY <1>8, <1>10, Zenon
<1>12. ASSUME NEW q \in Quantiles, recent # {}
       PROVE  /\ \E i \in recent : recorded[i].us = Percentile(latencies, q)
              /\ 1000 * Cardinality(Within(Percentile(latencies, q))) >= q * Cardinality(recent)
              /\ 1000 * Cardinality(Within(Percentile(latencies, q) - 1)) <= q * Cardinality(recent)
  <2>. DEFINE v == Percentile(latencies, q)
  <2>1. UpTo(recorded, R, v) = Within(v) /\ UpTo(recorded, R, v - 1) = Within(v - 1) /\ R = recent
    BY <1>10, Zenon
  <2>2. IsPercentile(v, recorded, R, q, Cardinality(R))
    BY <1>9, <1>10, <1>12, Zenon
  <2>. HIDE DEF recent, Within, v
  <2>3. /\ \E i \in R : recorded[i].us = v
        /\ 1000 * Cardinality(UpTo(recorded, R, v)) >= q * Cardinality(R)
        /\ 1000 * Cardinality(UpTo(recorded, R, v - 1)) <= q * Cardinality(R)
    BY <2>2, Zenon DEF IsPercentile
  <2>4. /\ \E i \in recent : recorded[i].us = v
        /\ 1000 * Cardinality(Within(v)) >= q * Cardinality(recent)
        /\ 1000 * Cardinality(Within(v - 1)) <= q * Cardinality(recent)
    BY <2>1, <2>3
  <2>. QED
    BY <2>4 DEF v
<1>. QED
  BY <1>7, <1>11, <1>12, Zenon DEF Exact, latencies

LEMMA SnapshotStep == SnapshotInv /\ [Next]_vars => SnapshotInv'
<1>. SUFFICES ASSUME SnapshotInv, [Next]_vars PROVE SnapshotInv'
  OBVIOUS
<1>0. FlowInv'
  BY FlowStep DEF SnapshotInv
<1>1. now \in Nat /\ now' \in Nat
  BY <1>0 DEF SnapshotInv, FlowInv, InversionInv, ArrivalTypes
<1>2. ASSUME UNCHANGED <<recorded, metrics>>, now <= now' PROVE SnapshotInv'
  BY <1>0, <1>1, <1>2, SnapshotLater DEF SnapshotInv
<1>3. now <= now
  BY <1>1
<1>4. CASE Edf
  <2>1. UNCHANGED <<recorded, metrics>>
    BY <1>4 DEF Edf, metricsVars, procVars
  <2>2. now' \in now .. MaxTime \/ now' = now
    BY <1>4 DEF Edf, EdfStep, BeginNext, EdfExit, ReceiveDatagram, ReadClock, ReceiveNothing,
                ChooseNone, Choose, Forward, LeaseBuffer, channelVars
  <2>. QED
    BY <1>1, <1>2, <2>1, <2>2
<1>5. CASE Egress
  <2>1. UNCHANGED <<recorded, metrics>>
    BY <1>5 DEF Egress, EgressRecord, RecordPacket, metricsVars, procVars
  <2>2. now' \in now .. MaxTime \/ now' = now
    BY <1>5 DEF Egress, EgressRecord, ReadClock, EgressStep, BeginPass, EgressExit,
                SkipPriority, SendOut, ReceiveOut, channelVars
  <2>. QED
    BY <1>1, <1>2, <2>1, <2>2
<1>6. CASE Metrics
  <2>1. CASE Processor
    <3>1. UNCHANGED <<recorded, metrics>> /\ now' = now
      BY <2>1 DEF Processor, Gather, TakeMutex, channelVars
    <3>. QED
      BY <1>2, <1>3, <3>1
  <2>2. CASE RecordLatency
    BY <1>0, <1>1, <2>2, SnapshotRecorded DEF SnapshotInv
  <2>. QED
    BY <1>6, <2>1, <2>2 DEF Metrics
<1>7. CASE Statistics
  <2>1. CASE StatisticsExit
    <3>1. UNCHANGED <<recorded, metrics>> /\ now' = now
      BY <2>1 DEF StatisticsExit, channelVars, procVars
    <3>. QED
      BY <1>2, <1>3, <3>1
  <2>2. CASE SendMetrics
    <3>1. now <= now'
      BY <2>2 DEF SendMetrics
    <3>. QED
      BY <1>0, <1>1, <2>2, <3>1, SnapshotTrimmed DEF SnapshotInv
  <2>. QED
    BY <1>7, <2>1, <2>2 DEF Statistics
<1>8. CASE Shutdown \/ UNCHANGED vars
  <2>1. UNCHANGED <<recorded, metrics>> /\ now' = now
    BY <1>8 DEF Shutdown, Stop, vars, channelVars, metricsVars, procVars
  <2>. QED
    BY <1>2, <1>3, <2>1
<1>. QED
  BY <1>4, <1>5, <1>6, <1>7, <1>8 DEF Next

(***************************************************************************)
(* For any traffic, batches, window and percentiles, and whichever whole   *)
(* products f64 rounds up, what the Statistics-Thread sends accounts for   *)
(* all that was recorded whenever it may take the mutex: the counts, and   *)
(* percentiles of the measurements of the last window and of no others,    *)
(* each with its share at or below it and no more than its share below it  *)
(* (send_current_metrics).                                                 *)
(***************************************************************************)
THEOREM SnapshotHolds == Spec => []SnapshotExact
<1>1. SnapshotInv => SnapshotExact
  <2>. SUFFICES ASSUME SnapshotInv, NEW time \in now .. MaxTime, NEW p \in Priority
                PROVE  Exact(CleanedUp(time)[p], p, time)
    BY DEF SnapshotExact
  <2>1. now \in Int /\ MaxTime \in Int
    BY SingleCpuAssumption DEF SnapshotInv, FlowInv, InversionInv, ArrivalTypes
  <2>2. time \in Int /\ now <= time
    BY <2>1
  <2>. QED
    BY <2>2, SnapshotIsExact
<1>. QED
  BY <1>1, SnapshotInit, SnapshotStep, PTL DEF Spec

=============================================================================
