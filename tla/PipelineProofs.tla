---------------------------- MODULE PipelineProofs ----------------------------
(***************************************************************************)
(* Theorems of the default pipeline, for any priorities, capacities,       *)
(* sockets, quanta and traffic: the credit of ingress is conserved, every  *)
(* packet is accounted for from the socket to egress and keeps its place   *)
(* on the way, and the EDF thread forwards the packet due first.           *)
(***************************************************************************)
EXTENDS Pipeline, WellFoundedInduction, TLAPS

Packet == [id : Nat, ts : Nat]

\* The types of what credit and packets are counted with.
CreditTypes ==
  /\ deficit \in [Priority -> Int]
  /\ visits \in [Priority -> Nat]
  /\ reads \in [Priority -> Nat]
  /\ inPc = "poll" /\ Flow \in Priority => localDeficit \in Int

CreditInv == CreditTypes /\ CreditConserved

PacketTypes ==
  /\ now \in Nat /\ nextId \in Nat /\ slot \in Nat \ {0}
  /\ reads \in [Priority -> Nat]
  /\ inQueue \in [Priority -> Seq(Packet)]
  /\ outQueue \in [Priority -> Seq(Packet)]
  /\ buffers \in [Priority -> Packet \cup {NoPacket}]
  /\ edfPc = "forward" => chosen \in Packet
  /\ gone \in [Priority -> Nat]
  /\ inDrops \in [Priority -> Nat]
  /\ outDrops \in [Priority -> Nat]

PacketInv == PacketTypes /\ PacketsConserved

-----------------------------------------------------------------------------
(* Credit. *)

\* Steps that leave the counts of ingress and the flow it visits alone.
LEMMA OthersKeepCredit ==
  ASSUME CreditInv,
         UNCHANGED <<deficit, visits, reads, localDeficit, inPc, flowIndex, visit>>
  PROVE  CreditInv'
BY DEF CreditInv, CreditTypes, CreditConserved, Credit, Flow, Flows

\* A visit copies the deficit with the quantum added.
LEMMA StartFlowKeepsCredit ==
  ASSUME CreditInv, StartFlow
  PROVE  CreditInv'
<1>. USE DEF CreditInv, CreditTypes
<1>1. Flow' = Flow /\ inPc = "flow" /\ inPc' = "poll"
  BY DEF StartFlow, Flow, Flows
<1>2. /\ localDeficit' = deficit[Flow] + Quantum[Flow]
      /\ deficit' = [deficit EXCEPT ![Flow] = localDeficit']
      /\ visits' = [visits EXCEPT ![Flow] = @ + 1]
      /\ reads' = reads
  BY DEF StartFlow
<1>. DEFINE f == Flow
<1>. HIDE DEF f
<1>3. CASE f \notin Priority
  <2>1. deficit' = deficit /\ visits' = visits
    BY <1>2, <1>3 DEF f
  <2>. QED
    BY <1>1, <1>2, <1>3, <2>1 DEF f, CreditConserved, Credit
<1>4. CASE f \in Priority
  <2>1. Quantum[f] \in Nat /\ deficit[f] \in Int /\ visits[f] \in Nat /\ reads[f] \in Nat
    BY <1>4, IngressAssumption
  <2>2. localDeficit' \in Int /\ deficit' \in [Priority -> Int] /\ visits' \in [Priority -> Nat]
    BY <1>2, <1>4, <2>1 DEF f
  <2>3. reads[f] + deficit[f] = Quantum[f] * visits[f]
    BY <1>1, <1>4 DEF CreditConserved, Credit
  <2>4. Quantum[f] * (visits[f] + 1) = Quantum[f] * visits[f] + Quantum[f]
    BY <2>1
  <2>5. reads[f] + localDeficit' = Quantum[f] * (visits[f] + 1)
    <3>1. Quantum[f] * visits[f] \in Int
      BY <2>1
    <3>. QED
      BY <1>2, <2>1, <2>3, <2>4, <3>1 DEF f
  <2>6. ASSUME NEW p \in Priority
        PROVE  reads'[p] + Credit(p)' = Quantum[p] * visits'[p]
    <3>1. CASE p = f
      <4>1. Credit(p)' = localDeficit' /\ visits'[p] = visits[f] + 1
        BY <1>1, <1>2, <1>4, <3>1 DEF f, Credit
      <4>. QED
        BY <1>2, <2>5, <3>1, <4>1
    <3>2. CASE p # f
      <4>1. Credit(p)' = deficit[p] /\ Credit(p) = deficit[p] /\ visits'[p] = visits[p]
        BY <1>1, <1>2, <3>2 DEF f, Credit
      <4>. QED
        BY <1>2, <4>1 DEF CreditConserved
    <3>. QED
      BY <3>1, <3>2
  <2>. QED
    BY <1>2, <2>2, <2>6 DEF CreditConserved
<1>. QED
  BY <1>3, <1>4

\* A packet read is paid for out of the copy.
LEMMA ReadKeepsCredit ==
  ASSUME CreditInv, ReadSocket
  PROVE  CreditInv'
<1>. USE DEF CreditInv, CreditTypes
<1>1. Flow' = Flow /\ inPc = "poll" /\ inPc' = "poll"
  BY DEF ReadSocket, Polling, Flow, Flows
<1>2. /\ localDeficit' = localDeficit - 1
      /\ reads' = [reads EXCEPT ![Flow] = @ + 1]
      /\ deficit' = deficit /\ visits' = visits
  BY DEF ReadSocket
<1>3. ASSUME NEW p \in Priority
      PROVE  reads'[p] + Credit(p)' = Quantum[p] * visits'[p]
  <2>1. reads[p] + Credit(p) = Quantum[p] * visits[p] /\ reads[p] \in Nat
    BY DEF CreditConserved
  <2>2. CASE p = Flow
    <3>1. Credit(p) = localDeficit /\ Credit(p)' = localDeficit - 1 /\ localDeficit \in Int
      BY <1>1, <1>2, <2>2 DEF Credit
    <3>2. reads'[p] = reads[p] + 1
      BY <1>2, <2>2
    <3>3. reads'[p] + Credit(p)' = reads[p] + Credit(p)
      BY <2>1, <3>1, <3>2
    <3>. QED
      BY <1>2, <2>1, <3>3
  <2>3. CASE p # Flow
    <3>1. Credit(p) = deficit[p] /\ Credit(p)' = deficit[p] /\ reads'[p] = reads[p]
      BY <1>1, <1>2, <2>3 DEF Credit
    <3>. QED
      BY <1>2, <2>1, <3>1
  <2>. QED
    BY <2>2, <2>3
<1>4. CreditTypes'
  <2>1. reads' \in [Priority -> Nat]
    <3>1. CASE Flow \in Priority
      <4>1. reads[Flow] + 1 \in Nat
        BY <3>1
      <4>. QED
        BY <1>2, <4>1
    <3>2. CASE Flow \notin Priority
      BY <1>2, <3>2
    <3>. QED
      BY <3>1, <3>2
  <2>2. Flow \in Priority => localDeficit' \in Int
    BY <1>1, <1>2
  <2>. QED
    BY <1>1, <1>2, <2>1, <2>2
<1>. QED
  BY <1>3, <1>4 DEF CreditConserved

\* The end of a visit stores the copy.
LEMMA EndFlowKeepsCredit ==
  ASSUME CreditInv, EndFlow
  PROVE  CreditInv'
<1>. USE DEF CreditInv, CreditTypes
<1>1. /\ inPc = "poll" /\ inPc' = "flow"
      /\ deficit' = [deficit EXCEPT ![Flow] = localDeficit]
      /\ reads' = reads /\ visits' = visits
  BY DEF EndFlow
<1>2. deficit' \in [Priority -> Int]
  BY <1>1
<1>3. ASSUME NEW p \in Priority PROVE Credit(p)' = Credit(p)
  BY <1>1 DEF Credit
<1>. QED
  BY <1>1, <1>2, <1>3 DEF CreditConserved

LEMMA CreditStep == CreditInv /\ [Next]_vars => CreditInv'
<1>. SUFFICES ASSUME CreditInv, [Next]_vars PROVE CreditInv'
  OBVIOUS
<1>1. CASE IngressStep
  <2>1. CASE StartRound
    BY <2>1 DEF StartRound, CreditInv, CreditTypes, CreditConserved, Credit
  <2>2. CASE IngressExit
    BY <2>2 DEF IngressExit, CreditInv, CreditTypes, CreditConserved, Credit
  <2>3. CASE StartFlow
    BY <2>3, StartFlowKeepsCredit
  <2>4. CASE SkipSocket
    BY <2>4, OthersKeepCredit DEF SkipSocket
  <2>5. CASE ReadSocket
    BY <2>5, ReadKeepsCredit
  <2>6. CASE NextPass
    BY <2>6, OthersKeepCredit DEF NextPass
  <2>7. CASE EndFlow
    BY <2>7, EndFlowKeepsCredit
  <2>8. CASE EndRound
    BY <2>8 DEF EndRound, CreditInv, CreditTypes, CreditConserved, Credit
  <2>. QED
    BY <1>1, <2>1, <2>2, <2>3, <2>4, <2>5, <2>6, <2>7, <2>8 DEF IngressStep
<1>2. CASE UNCHANGED ingressVars
  BY <1>2, OthersKeepCredit DEF ingressVars
<1>. QED
  BY <1>1, <1>2 DEF Next, Ingress, Edf, Egress, vars

(***************************************************************************)
(* Whatever the passes over several sockets, drops and shutdown, every     *)
(* packet read was paid for out of the quanta of its flow, and no credit   *)
(* is lost (process_sockets of ingress).                                   *)
(***************************************************************************)
THEOREM CreditHolds == Spec => []CreditConserved
<1>1. Init => CreditInv
  <2>. SUFFICES ASSUME Init PROVE CreditInv
    OBVIOUS
  <2>1. CreditTypes
    BY DEF Init, IngressInit, CreditTypes
  <2>2. ASSUME NEW p \in Priority PROVE reads[p] + Credit(p) = Quantum[p] * visits[p]
    <3>1. reads[p] = 0 /\ Credit(p) = 0 /\ visits[p] = 0
      BY DEF Init, IngressInit, Credit
    <3>2. Quantum[p] \in Nat
      BY IngressAssumption
    <3>. QED
      BY <3>1, <3>2
  <2>. QED
    BY <2>1, <2>2 DEF CreditInv, CreditConserved
<1>2. CreditInv => CreditConserved
  BY DEF CreditInv
<1>. QED
  BY <1>1, <1>2, CreditStep, PTL DEF Spec

-----------------------------------------------------------------------------
(* Packets. *)

LEMMA OrderType == Order \in Seq(Priority)
<1>1. \A p \in {"High", "Medium", "Low", "BestEffort"} : Used(p) \in Seq(Priority)
  BY DEF Used
<1>2. Used("High") \o Used("Medium") \in Seq(Priority)
  BY <1>1
<1>3. Used("High") \o Used("Medium") \o Used("Low") \in Seq(Priority)
  BY <1>1, <1>2
<1>4. Used("High") \o Used("Medium") \o Used("Low") \o Used("BestEffort") \in Seq(Priority)
  BY <1>1, <1>3
<1>. QED
  BY <1>4 DEF Order

\* A set of natural numbers has a least element.
LEMMA LeastNatural ==
  ASSUME NEW S \in SUBSET Nat, S # {}
  PROVE  \E m \in S : \A n \in S : m <= n
<1>. DEFINE R == {ss \in Nat \X Nat : ss[1] < ss[2]}
<1>1. IsWellFoundedOn(R, Nat)
  BY NatLessThanWellFounded, Zenon DEF OpToRel
<1>. HIDE DEF R
<1>2. PICK m \in S : \A n \in S : ~(<<n, m>> \in R)
  BY <1>1, WFMin
<1>3. \A n \in S : ~(n < m)
  BY <1>2 DEF R
<1>. QED
  BY <1>3

\* Among full buffers there is one that is due first, the earliest in Order on a tie.
LEMMA EarliestFull ==
  ASSUME PacketTypes, Filled # {}
  PROVE  Earliest \in Filled /\ \A j \in Filled : DueAt(Earliest) <= DueAt(j)
<1>. DEFINE Before(i, j) == DueAt(i) < DueAt(j) \/ (DueAt(i) = DueAt(j) /\ i <= j)
<1>1. Filled \subseteq Nat
  BY OrderType DEF Filled
<1>2. ASSUME NEW i \in Filled PROVE DueAt(i) \in Nat
  <2>1. Order[i] \in Priority /\ buffers[Order[i]] # NoPacket
    BY OrderType DEF Filled
  <2>2. buffers[Order[i]] \in Packet
    BY <2>1 DEF PacketTypes
  <2>. QED
    BY <2>1, <2>2, InputAssumption DEF DueAt, Deadline, Packet
<1>. DEFINE Dues == {DueAt(i) : i \in Filled}
<1>3. Dues \in SUBSET Nat /\ Dues # {}
  BY <1>2
<1>. HIDE DEF Dues
<1>4. PICK m \in Dues : \A n \in Dues : m <= n
  BY <1>3, LeastNatural
<1>. DEFINE Firsts == {i \in Filled : DueAt(i) = m}
<1>5. Firsts \in SUBSET Nat /\ Firsts # {}
  BY <1>1, <1>4 DEF Dues
<1>. HIDE DEF Firsts
<1>6. PICK i \in Firsts : \A j \in Firsts : i <= j
  BY <1>5, LeastNatural
<1>7. i \in Filled /\ \A j \in Filled : Before(i, j)
  <2>1. i \in Filled /\ DueAt(i) = m
    BY DEF Firsts
  <2>2. ASSUME NEW j \in Filled PROVE Before(i, j)
    <3>1. m <= DueAt(j) /\ DueAt(j) \in Nat /\ m \in Nat
      BY <1>2, <1>3, <1>4 DEF Dues
    <3>2. CASE DueAt(j) = m
      BY <1>6, <2>1, <3>2 DEF Firsts
    <3>3. CASE DueAt(j) # m
      BY <2>1, <3>1, <3>3
    <3>. QED
      BY <3>2, <3>3
  <2>. QED
    BY <2>1, <2>2
<1>8. Earliest \in Filled /\ \A j \in Filled : Before(Earliest, j)
  BY <1>7 DEF Earliest
<1>. QED
  BY <1>2, <1>8

\* The numbers of packets of p in the places that InHand and the channels name.
Ins(p) == Len(inQueue[p])
Outs(p) == Len(outQueue[p])
Buffered(p) == One(buffers[p] # NoPacket)
Forwarding(p) == One(edfPc = "forward" /\ chosenOf = p)
Leaving(p) == One(egPc \in {"record", "send"} /\ Order[place] = p)

Balanced(p) ==
  reads[p] = Ins(p) + Outs(p) + (Buffered(p) + Forwarding(p) + Leaving(p))
             + gone[p] + inDrops[p] + outDrops[p]

\* A packet of p moves from one place to the next.
Moved(p) ==
  \/ /\ UNCHANGED reads[p]
     /\ \/ /\ Ins(p) = Ins(p)' + 1 /\ Buffered(p)' = Buffered(p) + 1
           /\ UNCHANGED <<Outs(p), Forwarding(p), Leaving(p), gone[p], inDrops[p], outDrops[p]>>
        \/ /\ Buffered(p) = Buffered(p)' + 1 /\ Forwarding(p)' = Forwarding(p) + 1
           /\ UNCHANGED <<Ins(p), Outs(p), Leaving(p), gone[p], inDrops[p], outDrops[p]>>
        \/ /\ Forwarding(p) = Forwarding(p)' + 1
           /\ \/ Outs(p)' = Outs(p) + 1 /\ UNCHANGED outDrops[p]
              \/ outDrops'[p] = outDrops[p] + 1 /\ UNCHANGED Outs(p)
           /\ UNCHANGED <<Ins(p), Buffered(p), Leaving(p), gone[p], inDrops[p]>>
        \/ /\ Outs(p) = Outs(p)' + 1 /\ Leaving(p)' = Leaving(p) + 1
           /\ UNCHANGED <<Ins(p), Buffered(p), Forwarding(p), gone[p], inDrops[p], outDrops[p]>>
        \/ /\ Leaving(p) = Leaving(p)' + 1 /\ gone'[p] = gone[p] + 1
           /\ UNCHANGED <<Ins(p), Outs(p), Buffered(p), Forwarding(p), inDrops[p], outDrops[p]>>
  \/ /\ reads'[p] = reads[p] + 1
     /\ \/ Ins(p)' = Ins(p) + 1 /\ UNCHANGED inDrops[p]
        \/ inDrops'[p] = inDrops[p] + 1 /\ UNCHANGED Ins(p)
     /\ UNCHANGED <<Outs(p), Buffered(p), Forwarding(p), Leaving(p), gone[p], outDrops[p]>>

Stayed(p) ==
  UNCHANGED <<reads[p], Ins(p), Outs(p), Buffered(p), Forwarding(p), Leaving(p), gone[p],
              inDrops[p], outDrops[p]>>

\* The sum is kept; the numbers are picked first, for arithmetic on numbers alone.
LEMMA MoveKeepsBalance ==
  ASSUME NEW p \in Priority, PacketTypes, PacketTypes', Balanced(p), Moved(p) \/ Stayed(p)
  PROVE  Balanced(p)'
<1>1. PICK r, i, o, g, x, y \in Nat :
         /\ r = reads[p] /\ i = Ins(p) /\ o = Outs(p)
         /\ g = gone[p] /\ x = inDrops[p] /\ y = outDrops[p]
  <2>1. reads[p] \in Nat /\ gone[p] \in Nat /\ inDrops[p] \in Nat /\ outDrops[p] \in Nat
    BY DEF PacketTypes
  <2>2. Ins(p) \in Nat /\ Outs(p) \in Nat
    BY DEF PacketTypes, Ins, Outs
  <2>. QED
    BY <2>1, <2>2
<1>2. PICK b, f, e \in Nat : b = Buffered(p) /\ f = Forwarding(p) /\ e = Leaving(p)
  BY DEF Buffered, Forwarding, Leaving, One
<1>3. PICK s, j, q, m, v, z \in Nat :
         /\ s = reads'[p] /\ j = Ins(p)' /\ q = Outs(p)'
         /\ m = gone'[p] /\ v = inDrops'[p] /\ z = outDrops'[p]
  <2>1. /\ reads'[p] \in Nat /\ gone'[p] \in Nat
        /\ inDrops'[p] \in Nat /\ outDrops'[p] \in Nat
    BY DEF PacketTypes
  <2>2. Ins(p)' \in Nat /\ Outs(p)' \in Nat
    BY DEF PacketTypes, Ins, Outs
  <2>. QED
    BY <2>1, <2>2
<1>4. PICK c, h, k \in Nat : c = Buffered(p)' /\ h = Forwarding(p)' /\ k = Leaving(p)'
  BY DEF Buffered, Forwarding, Leaving, One
<1>5. r = i + o + (b + f + e) + g + x + y
  BY <1>1, <1>2 DEF Balanced
<1>6. \/ /\ s = r
         /\ \/ i = j + 1 /\ c = b + 1 /\ q = o /\ h = f /\ k = e /\ m = g /\ v = x /\ z = y
            \/ b = c + 1 /\ h = f + 1 /\ j = i /\ q = o /\ k = e /\ m = g /\ v = x /\ z = y
            \/ f = h + 1 /\ q = o + 1 /\ j = i /\ c = b /\ k = e /\ m = g /\ v = x /\ z = y
            \/ f = h + 1 /\ z = y + 1 /\ j = i /\ q = o /\ c = b /\ k = e /\ m = g /\ v = x
            \/ o = q + 1 /\ k = e + 1 /\ j = i /\ c = b /\ h = f /\ m = g /\ v = x /\ z = y
            \/ e = k + 1 /\ m = g + 1 /\ j = i /\ q = o /\ c = b /\ h = f /\ v = x /\ z = y
            \/ j = i /\ q = o /\ c = b /\ h = f /\ k = e /\ m = g /\ v = x /\ z = y
      \/ /\ s = r + 1
         /\ \/ j = i + 1 /\ v = x
            \/ j = i /\ v = x + 1
         /\ q = o /\ c = b /\ h = f /\ k = e /\ m = g /\ z = y
  BY <1>1, <1>2, <1>3, <1>4 DEF Moved, Stayed
<1>7. s = j + q + (c + h + k) + m + v + z
  BY <1>5, <1>6
<1>. QED
  BY <1>3, <1>4, <1>7 DEF Balanced

\* The sum above is that of PacketsConserved.
LEMMA BalancedIsConserved ==
  (\A p \in Priority : Balanced(p)) <=> PacketsConserved
BY DEF Balanced, PacketsConserved, InHand, Ins, Outs, Buffered, Forwarding, Leaving

LEMMA PacketInit == Init => PacketInv
<1>. SUFFICES ASSUME Init PROVE PacketInv
  OBVIOUS
<1>1. PacketTypes
  BY DEF Init, ChannelInit, InputInit, IngressInit, EdfInit, EgressInit, PacketTypes
<1>2. ASSUME NEW p \in Priority
      PROVE  reads[p] = Len(inQueue[p]) + Len(outQueue[p]) + InHand(p)
                        + gone[p] + inDrops[p] + outDrops[p]
  BY DEF Init, ChannelInit, InputInit, IngressInit, EdfInit, EgressInit, InHand, One
<1>. QED
  BY <1>1, <1>2 DEF PacketInv, PacketsConserved

\* A packet read is in the input channel or counted.
LEMMA ReadKeepsPackets ==
  ASSUME PacketTypes, ReadSocket, UNCHANGED <<edfVars, egressVars>>
  PROVE  PacketTypes' /\ \A p \in Priority : Moved(p) \/ Stayed(p)
<1>. DEFINE f == Flow
            packet == [id |-> nextId, ts |-> now']
<1>1. now' \in Nat
  BY InputAssumption DEF ReadSocket, Clock
<1>2. packet \in Packet /\ nextId + 1 \in Nat
  BY <1>1 DEF PacketTypes, Packet
<1>3. /\ reads' = [reads EXCEPT ![f] = @ + 1]
      /\ \/ inQueue' = [inQueue EXCEPT ![f] = Append(@, packet)] /\ inDrops' = inDrops
         \/ inDrops' = [inDrops EXCEPT ![f] = @ + 1] /\ inQueue' = inQueue
      /\ nextId' = nextId + 1
      /\ UNCHANGED <<outQueue, edfVars, egressVars>>
  BY DEF ReadSocket, Offer
<1>. HIDE DEF f, packet
<1>4. ASSUME NEW p \in Priority
      PROVE  /\ reads'[p] \in Nat /\ inDrops'[p] \in Nat /\ inQueue'[p] \in Seq(Packet)
             /\ Moved(p) \/ Stayed(p)
  <2>1. reads[p] \in Nat /\ inDrops[p] \in Nat /\ inQueue[p] \in Seq(Packet)
    BY DEF PacketTypes
  <2>2. UNCHANGED <<Outs(p), Buffered(p), Forwarding(p), Leaving(p), gone[p], outDrops[p]>>
    BY <1>3 DEF Outs, Buffered, Forwarding, Leaving, edfVars, egressVars
  <2>3. CASE p = f
    <3>1. reads'[p] = reads[p] + 1
      BY <1>3, <2>3 DEF PacketTypes
    <3>2. CASE inQueue' = [inQueue EXCEPT ![f] = Append(@, packet)] /\ inDrops' = inDrops
      <4>1. inQueue'[p] = Append(inQueue[p], packet)
        BY <2>3, <3>2 DEF PacketTypes
      <4>2. inQueue'[p] \in Seq(Packet) /\ Ins(p)' = Ins(p) + 1
        BY <1>2, <2>1, <4>1 DEF Ins
      <4>3. inDrops'[p] = inDrops[p]
        BY <3>2
      <4>4. Moved(p)
        BY <2>2, <3>1, <4>2, <4>3 DEF Moved
      <4>. QED
        BY <2>1, <3>1, <4>2, <4>3, <4>4
    <3>3. CASE inDrops' = [inDrops EXCEPT ![f] = @ + 1] /\ inQueue' = inQueue
      <4>1. inDrops'[p] = inDrops[p] + 1 /\ Ins(p)' = Ins(p)
        BY <2>3, <3>3 DEF PacketTypes, Ins
      <4>2. Moved(p)
        BY <2>2, <3>1, <4>1 DEF Moved
      <4>. QED
        BY <2>1, <3>1, <3>3, <4>1, <4>2
    <3>. QED
      BY <1>3, <3>2, <3>3
  <2>4. CASE p # f
    <3>1. reads'[p] = reads[p] /\ inDrops'[p] = inDrops[p] /\ inQueue'[p] = inQueue[p]
      BY <1>3, <2>4 DEF PacketTypes
    <3>2. Stayed(p)
      BY <2>2, <3>1 DEF Stayed, Ins
    <3>. QED
      BY <2>1, <3>1, <3>2
  <2>. QED
    BY <2>3, <2>4
<1>5. reads' \in [Priority -> Nat]
  BY <1>3, <1>4 DEF PacketTypes
<1>6. inQueue' \in [Priority -> Seq(Packet)]
  BY <1>3, <1>4 DEF PacketTypes
<1>7. inDrops' \in [Priority -> Nat]
  BY <1>3, <1>4 DEF PacketTypes
<1>8. PacketTypes'
  BY <1>1, <1>2, <1>3, <1>5, <1>6, <1>7 DEF PacketTypes, edfVars, egressVars
<1>. QED
  BY <1>4, <1>8

\* The other steps of ingress move no packet.
LEMMA IngressKeepsPackets ==
  ASSUME PacketTypes, Ingress
  PROVE  PacketTypes' /\ \A p \in Priority : Moved(p) \/ Stayed(p)
<1>1. CASE ReadSocket
  BY <1>1, ReadKeepsPackets DEF Ingress
<1>2. CASE ~ReadSocket
  <2>1. UNCHANGED <<now, nextId, reads, inQueue, outQueue, inDrops, edfVars, egressVars>>
    BY <1>2 DEF Ingress, IngressStep, StartRound, IngressExit, StartFlow, SkipSocket, NextPass,
                EndFlow, EndRound, sharedVars, channelVars
  <2>2. PacketTypes'
    BY <2>1 DEF PacketTypes, edfVars, egressVars
  <2>3. ASSUME NEW p \in Priority PROVE Stayed(p)
    BY <2>1 DEF Stayed, Ins, Outs, Buffered, Forwarding, Leaving, edfVars, egressVars
  <2>. QED
    BY <2>2, <2>3
<1>. QED
  BY <1>1, <1>2

\* The front packet of a channel goes to its empty buffer.
LEMMA FillKeepsPackets ==
  ASSUME PacketTypes, Fill, UNCHANGED <<ingressVars, egressVars>>
  PROVE  PacketTypes' /\ \A p \in Priority : Moved(p) \/ Stayed(p)
<1>. DEFINE f == Order[slot]
<1>1. /\ UNCHANGED <<now, outQueue, edfPc, chosen, chosenOf, outDrops, ingressVars, egressVars>>
      /\ edfPc = "fill" /\ slot' = slot + 1
      /\ IF buffers[f] = NoPacket /\ inQueue[f] # <<>>
         THEN /\ buffers' = [buffers EXCEPT ![f] = Head(inQueue[f])]
              /\ inQueue' = [inQueue EXCEPT ![f] = Tail(@)]
         ELSE UNCHANGED <<buffers, inQueue>>
  BY DEF Fill
<1>2. f \in Priority
  BY OrderType DEF Fill, PacketTypes
<1>. HIDE DEF f
<1>3. ASSUME NEW p \in Priority
      PROVE  UNCHANGED <<reads[p], Outs(p), Forwarding(p), Leaving(p), gone[p], inDrops[p], outDrops[p]>>
  BY <1>1 DEF Outs, Forwarding, Leaving, ingressVars, egressVars
<1>4. CASE UNCHANGED <<buffers, inQueue>>
  <2>1. PacketTypes'
    BY <1>1, <1>4 DEF PacketTypes, ingressVars, egressVars
  <2>2. ASSUME NEW p \in Priority PROVE Stayed(p)
    BY <1>3, <1>4 DEF Stayed, Ins, Buffered
  <2>. QED
    BY <2>1, <2>2
<1>5. CASE /\ buffers[f] = NoPacket /\ inQueue[f] # <<>>
           /\ buffers' = [buffers EXCEPT ![f] = Head(inQueue[f])]
           /\ inQueue' = [inQueue EXCEPT ![f] = Tail(@)]
  <2>1. inQueue[f] \in Seq(Packet) /\ inQueue[f] # <<>>
    BY <1>2, <1>5 DEF PacketTypes
  <2>2. /\ Head(inQueue[f]) \in Packet /\ Tail(inQueue[f]) \in Seq(Packet)
        /\ Len(inQueue[f]) = Len(Tail(inQueue[f])) + 1
    BY <2>1
  <2>3. Head(inQueue[f]) # NoPacket
    BY <2>2 DEF Packet, NoPacket
  <2>4. inQueue' \in [Priority -> Seq(Packet)] /\ buffers' \in [Priority -> Packet \cup {NoPacket}]
    BY <1>2, <1>5, <2>2 DEF PacketTypes
  <2>5. PacketTypes'
    BY <1>1, <2>4 DEF PacketTypes, ingressVars, egressVars
  <2>6. ASSUME NEW p \in Priority PROVE Moved(p) \/ Stayed(p)
    <3>1. CASE p = f
      <4>1. buffers'[p] = Head(inQueue[f]) /\ inQueue'[p] = Tail(inQueue[f])
        BY <1>2, <1>5, <3>1 DEF PacketTypes
      <4>2. Buffered(p)' = 1 /\ Buffered(p) = 0
        BY <1>5, <2>3, <3>1, <4>1 DEF Buffered, One
      <4>3. Ins(p) = Ins(p)' + 1
        BY <2>2, <3>1, <4>1 DEF Ins
      <4>. QED
        BY <1>3, <4>2, <4>3 DEF Moved
    <3>2. CASE p # f
      <4>1. buffers'[p] = buffers[p] /\ inQueue'[p] = inQueue[p]
        BY <1>5, <3>2 DEF PacketTypes
      <4>. QED
        BY <1>3, <4>1 DEF Stayed, Ins, Buffered
    <3>. QED
      BY <3>1, <3>2
  <2>. QED
    BY <2>5, <2>6
<1>. QED
  BY <1>1, <1>4, <1>5

\* The chosen packet leaves its buffer.
LEMMA ChooseKeepsPackets ==
  ASSUME PacketTypes, Choose, UNCHANGED <<ingressVars, egressVars>>
  PROVE  PacketTypes' /\ \A p \in Priority : Moved(p) \/ Stayed(p)
<1>. DEFINE f == Order[Earliest]
<1>1. /\ UNCHANGED <<now, inQueue, outQueue, outDrops, ingressVars, egressVars>>
      /\ edfPc = "fill" /\ edfPc' = "forward" /\ slot' = 1
      /\ chosen' = buffers[f] /\ chosenOf' = f
      /\ buffers' = [buffers EXCEPT ![f] = NoPacket]
  BY DEF Choose, sharedVars, channelVars
<1>2. f \in Priority /\ buffers[f] # NoPacket
  BY EarliestFull, OrderType DEF Choose, Filled
<1>. HIDE DEF f
<1>3. ASSUME NEW p \in Priority
      PROVE  UNCHANGED <<reads[p], Ins(p), Outs(p), Leaving(p), gone[p], inDrops[p], outDrops[p]>>
  BY <1>1 DEF Ins, Outs, Leaving, ingressVars, egressVars
<1>4. buffers[f] \in Packet
  BY <1>2 DEF PacketTypes
<1>5. buffers' \in [Priority -> Packet \cup {NoPacket}]
  BY <1>1 DEF PacketTypes
<1>6. PacketTypes'
  BY <1>1, <1>4, <1>5 DEF PacketTypes, ingressVars, egressVars
<1>7. ASSUME NEW p \in Priority PROVE Moved(p) \/ Stayed(p)
  <2>1. CASE p = f
    <3>1. buffers'[p] = NoPacket
      BY <1>1, <1>2, <2>1 DEF PacketTypes
    <3>2. Buffered(p) = 1 /\ Buffered(p)' = 0 /\ Forwarding(p) = 0 /\ Forwarding(p)' = 1
      BY <1>1, <1>2, <2>1, <3>1 DEF Buffered, Forwarding, One
    <3>. QED
      BY <1>3, <3>2 DEF Moved
  <2>2. CASE p # f
    <3>1. buffers'[p] = buffers[p]
      BY <1>1, <2>2 DEF PacketTypes
    <3>2. Forwarding(p) = 0 /\ Forwarding(p)' = 0
      BY <1>1, <2>2 DEF Forwarding, One
    <3>. QED
      BY <1>3, <3>1, <3>2 DEF Stayed, Buffered
  <2>. QED
    BY <2>1, <2>2
<1>. QED
  BY <1>6, <1>7

\* The packet processed goes to its output channel or is counted.
LEMMA ForwardKeepsPackets ==
  ASSUME PacketTypes, Forward, UNCHANGED <<ingressVars, egressVars>>
  PROVE  PacketTypes' /\ \A p \in Priority : Moved(p) \/ Stayed(p)
<1>. DEFINE f == chosenOf
<1>1. /\ UNCHANGED <<now, inQueue, slot, buffers, ingressVars, egressVars>>
      /\ edfPc = "forward" /\ edfPc' = "top" /\ chosen \in Packet
      /\ \/ outQueue' = [outQueue EXCEPT ![f] = Append(@, chosen)] /\ outDrops' = outDrops
         \/ outDrops' = [outDrops EXCEPT ![f] = @ + 1] /\ outQueue' = outQueue
  BY DEF Forward, PacketTypes
<1>2. ASSUME NEW p \in Priority
      PROVE  UNCHANGED <<reads[p], Ins(p), Buffered(p), Leaving(p), gone[p], inDrops[p]>>
  BY <1>1 DEF Ins, Buffered, Leaving, ingressVars, egressVars
<1>3. ASSUME NEW p \in Priority
      PROVE  /\ outQueue'[p] \in Seq(Packet) /\ outDrops'[p] \in Nat
             /\ Moved(p) \/ Stayed(p)
  <2>1. outQueue[p] \in Seq(Packet) /\ outDrops[p] \in Nat
    BY DEF PacketTypes
  <2>2. CASE p = f
    <3>1. Forwarding(p) = 1 /\ Forwarding(p)' = 0
      BY <1>1, <2>2 DEF Forwarding, One
    <3>2. CASE outQueue' = [outQueue EXCEPT ![f] = Append(@, chosen)] /\ outDrops' = outDrops
      <4>1. outQueue'[p] = Append(outQueue[p], chosen)
        BY <2>2, <3>2 DEF PacketTypes
      <4>2. outQueue'[p] \in Seq(Packet) /\ Outs(p)' = Outs(p) + 1
        BY <1>1, <2>1, <4>1 DEF Outs
      <4>3. outDrops'[p] = outDrops[p]
        BY <3>2
      <4>4. Moved(p)
        BY <1>2, <3>1, <4>2, <4>3 DEF Moved
      <4>. QED
        BY <2>1, <4>2, <4>3, <4>4
    <3>3. CASE outDrops' = [outDrops EXCEPT ![f] = @ + 1] /\ outQueue' = outQueue
      <4>1. outDrops'[p] = outDrops[p] + 1 /\ Outs(p)' = Outs(p)
        BY <2>2, <3>3 DEF PacketTypes, Outs
      <4>2. Moved(p)
        BY <1>2, <3>1, <4>1 DEF Moved
      <4>. QED
        BY <2>1, <3>3, <4>1, <4>2
    <3>. QED
      BY <1>1, <3>2, <3>3
  <2>3. CASE p # f
    <3>1. outQueue'[p] = outQueue[p] /\ outDrops'[p] = outDrops[p]
      BY <1>1, <2>3 DEF PacketTypes
    <3>2. Forwarding(p) = 0 /\ Forwarding(p)' = 0
      BY <1>1, <2>3 DEF Forwarding, One
    <3>3. Stayed(p)
      BY <1>2, <3>1, <3>2 DEF Stayed, Outs
    <3>. QED
      BY <2>1, <3>1, <3>3
  <2>. QED
    BY <2>2, <2>3
<1>4. outQueue' \in [Priority -> Seq(Packet)]
  BY <1>1, <1>3 DEF PacketTypes
<1>5. outDrops' \in [Priority -> Nat]
  BY <1>1, <1>3 DEF PacketTypes
<1>6. PacketTypes'
  BY <1>1, <1>4, <1>5 DEF PacketTypes, ingressVars, egressVars
<1>. QED
  BY <1>3, <1>6

LEMMA EdfKeepsPackets ==
  ASSUME PacketTypes, Edf
  PROVE  PacketTypes' /\ \A p \in Priority : Moved(p) \/ Stayed(p)
<1>1. CASE Fill
  BY <1>1, FillKeepsPackets DEF Edf
<1>2. CASE Choose
  BY <1>2, ChooseKeepsPackets DEF Edf
<1>3. CASE Forward
  BY <1>3, ForwardKeepsPackets DEF Edf
<1>4. CASE BeginNext(nextId) \/ EdfExit \/ ChooseNone
  <2>1. /\ UNCHANGED <<now, inQueue, outQueue, buffers, outDrops, ingressVars, egressVars>>
        /\ edfPc # "forward" /\ edfPc' # "forward"
        /\ slot' = 1 \/ slot' = slot
    BY <1>4 DEF Edf, BeginNext, EdfExit, ChooseNone, sharedVars, channelVars
  <2>2. PacketTypes'
    BY <2>1 DEF PacketTypes, ingressVars, egressVars
  <2>3. ASSUME NEW p \in Priority PROVE Stayed(p)
    <3>1. Forwarding(p) = 0 /\ Forwarding(p)' = 0
      BY <2>1 DEF Forwarding, One
    <3>. QED
      BY <2>1, <3>1 DEF Stayed, Ins, Outs, Buffered, Leaving, ingressVars, egressVars
  <2>. QED
    BY <2>2, <2>3
<1>. QED
  BY <1>1, <1>2, <1>3, <1>4 DEF Edf, EdfStep

\* Egress takes the front packet of a channel.
LEMMA ReceiveOutKeepsPackets ==
  ASSUME PacketTypes, NEW f \in Priority, ReceiveOut(f), UNCHANGED <<inQueue, ingressVars, edfVars>>
  PROVE  PacketTypes' /\ \A p \in Priority : Moved(p) \/ Stayed(p)
<1>1. /\ UNCHANGED <<now, inQueue, gone, ingressVars, edfVars, place>>
      /\ egPc = "receive" /\ egPc' = "record" /\ Order[place] = f
      /\ outQueue[f] # <<>>
      /\ outQueue' = [outQueue EXCEPT ![f] = Tail(@)]
  BY DEF ReceiveOut
<1>2. ASSUME NEW p \in Priority
      PROVE  UNCHANGED <<reads[p], Ins(p), Buffered(p), Forwarding(p), gone[p], inDrops[p], outDrops[p]>>
  BY <1>1 DEF Ins, Buffered, Forwarding, ingressVars, edfVars
<1>3. outQueue[f] \in Seq(Packet) /\ outQueue[f] # <<>>
  BY <1>1 DEF PacketTypes
<1>4. Tail(outQueue[f]) \in Seq(Packet) /\ Len(outQueue[f]) = Len(Tail(outQueue[f])) + 1
  BY <1>3
<1>5. outQueue' \in [Priority -> Seq(Packet)]
  BY <1>1, <1>4 DEF PacketTypes
<1>6. PacketTypes'
  BY <1>1, <1>5 DEF PacketTypes, ingressVars, edfVars
<1>7. ASSUME NEW p \in Priority PROVE Moved(p) \/ Stayed(p)
  <2>1. CASE p = f
    <3>1. outQueue'[p] = Tail(outQueue[f])
      BY <1>1, <2>1 DEF PacketTypes
    <3>2. Outs(p) = Outs(p)' + 1
      BY <1>4, <2>1, <3>1 DEF Outs
    <3>3. Leaving(p) = 0 /\ Leaving(p)' = 1
      BY <1>1, <2>1 DEF Leaving, One
    <3>. QED
      BY <1>2, <3>2, <3>3 DEF Moved
  <2>2. CASE p # f
    <3>1. outQueue'[p] = outQueue[p]
      BY <1>1, <2>2 DEF PacketTypes
    <3>2. Leaving(p) = 0 /\ Leaving(p)' = 0
      BY <1>1, <2>2 DEF Leaving, One
    <3>. QED
      BY <1>2, <3>1, <3>2 DEF Stayed, Outs
  <2>. QED
    BY <2>1, <2>2
<1>. QED
  BY <1>6, <1>7

\* The packet in the hands of egress is gone: sent, given up, or without a socket.
LEMMA GoneKeepsPackets ==
  ASSUME PacketTypes, egPc \in {"record", "send"}, egPc' \in {"receive", "top"},
         gone' = [gone EXCEPT ![Order[place]] = @ + 1],
         UNCHANGED <<now, outQueue, inQueue, ingressVars, edfVars>>
  PROVE  PacketTypes' /\ \A p \in Priority : Moved(p) \/ Stayed(p)
<1>. DEFINE f == Order[place]
<1>1. ASSUME NEW p \in Priority
      PROVE  /\ Ins(p)' = Ins(p) /\ Outs(p)' = Outs(p)
             /\ UNCHANGED <<reads[p], Buffered(p), Forwarding(p), inDrops[p], outDrops[p]>>
  BY DEF Ins, Outs, Buffered, Forwarding, ingressVars, edfVars
<1>2. ASSUME NEW p \in Priority
      PROVE  gone'[p] \in Nat /\ (Moved(p) \/ Stayed(p))
  <2>1. gone[p] \in Nat
    BY DEF PacketTypes
  <2>2. CASE p = f
    <3>1. gone'[p] = gone[p] + 1
      BY <2>2 DEF PacketTypes
    <3>2. Leaving(p) = 1 /\ Leaving(p)' = 0
      BY <2>2 DEF Leaving, One
    <3>3. Moved(p)
      BY <1>1, <3>1, <3>2 DEF Moved
    <3>. QED
      BY <2>1, <3>1, <3>3
  <2>3. CASE p # f
    <3>1. gone'[p] = gone[p]
      BY <2>3 DEF PacketTypes
    <3>2. Leaving(p) = 0 /\ Leaving(p)' = 0
      BY <2>3 DEF Leaving, One
    <3>3. Stayed(p)
      BY <1>1, <3>1, <3>2 DEF Stayed
    <3>. QED
      BY <2>1, <3>1, <3>3
  <2>. QED
    BY <2>2, <2>3
<1>3. gone' \in [Priority -> Nat]
  BY <1>2 DEF PacketTypes
<1>4. PacketTypes'
  BY <1>3 DEF PacketTypes, ingressVars, edfVars
<1>. QED
  BY <1>2, <1>4

LEMMA EgressKeepsPackets ==
  ASSUME PacketTypes, Egress
  PROVE  PacketTypes' /\ \A p \in Priority : Moved(p) \/ Stayed(p)
<1>0. UNCHANGED <<inQueue, ingressVars, edfVars>>
  BY DEF Egress
<1>1. ASSUME UNCHANGED <<now, outQueue, gone>>,
             \A p \in Priority : Leaving(p)' = Leaving(p)
      PROVE  PacketTypes' /\ \A p \in Priority : Moved(p) \/ Stayed(p)
  <2>1. PacketTypes'
    BY <1>0, <1>1 DEF PacketTypes, ingressVars, edfVars
  <2>2. ASSUME NEW p \in Priority PROVE Stayed(p)
    BY <1>0, <1>1 DEF Stayed, Ins, Outs, Buffered, Forwarding, ingressVars, edfVars
  <2>. QED
    BY <2>1, <2>2
<1>2. CASE BeginPass \/ EgressExit \/ SkipPriority
  <2>1. /\ UNCHANGED <<now, outQueue, gone>>
        /\ egPc \notin {"record", "send"} /\ egPc' \notin {"record", "send"}
    BY <1>2 DEF BeginPass, EgressExit, SkipPriority, Advance, channelVars
  <2>2. \A p \in Priority : Leaving(p)' = Leaving(p)
    BY <2>1 DEF Leaving, One
  <2>. QED
    BY <1>1, <2>1, <2>2
<1>3. CASE \E f \in Priority : ReceiveOut(f)
  BY <1>0, <1>3, ReceiveOutKeepsPackets
<1>4. CASE SendOut
  <2>1. /\ egPc = "send" /\ egPc' \in {"receive", "top"}
        /\ gone' = [gone EXCEPT ![Order[place]] = @ + 1]
        /\ UNCHANGED <<now, outQueue>>
    BY <1>4 DEF SendOut, Advance, channelVars
  <2>. QED
    BY <1>0, <2>1, GoneKeepsPackets
<1>5. CASE Record /\ UNCHANGED now
  <2>1. egPc = "record" /\ UNCHANGED <<now, outQueue>>
    BY <1>5 DEF Record
  <2>2. CASE egPc' = "send" /\ UNCHANGED <<place, gone>>
    <3>1. \A p \in Priority : Leaving(p)' = Leaving(p)
      BY <2>1, <2>2 DEF Leaving, One
    <3>. QED
      BY <1>1, <2>1, <2>2, <3>1
  <2>3. CASE /\ gone' = [gone EXCEPT ![Order[place]] = @ + 1]
             /\ egPc' \in {"receive", "top"}
    BY <1>0, <2>1, <2>3, GoneKeepsPackets
  <2>. QED
    BY <1>5, <2>2, <2>3 DEF Record, Advance
<1>. QED
  BY <1>2, <1>3, <1>4, <1>5 DEF Egress, EgressStep

LEMMA PacketStep == PacketInv /\ [Next]_vars => PacketInv'
<1>. SUFFICES ASSUME PacketInv, [Next]_vars PROVE PacketInv'
  OBVIOUS
<1>0. PacketTypes /\ \A p \in Priority : Balanced(p)
  BY BalancedIsConserved DEF PacketInv
<1>1. PacketTypes' /\ \A p \in Priority : Moved(p) \/ Stayed(p)
  <2>1. CASE Ingress
    BY <1>0, <2>1, IngressKeepsPackets
  <2>2. CASE Edf
    BY <1>0, <2>2, EdfKeepsPackets
  <2>3. CASE Egress
    BY <1>0, <2>3, EgressKeepsPackets
  <2>4. CASE UNCHANGED <<now, outQueue, inQueue, ingressVars, edfVars, egressVars>>
    <3>1. PacketTypes'
      BY <1>0, <2>4 DEF PacketTypes, ingressVars, edfVars, egressVars
    <3>2. ASSUME NEW p \in Priority PROVE Stayed(p)
      BY <2>4 DEF Stayed, Ins, Outs, Buffered, Forwarding, Leaving, ingressVars, edfVars,
                  egressVars
    <3>. QED
      BY <3>1, <3>2
  <2>. QED
    BY <2>1, <2>2, <2>3, <2>4 DEF Next, Stop, vars, sharedVars, channelVars
<1>2. \A p \in Priority : Balanced(p)'
  BY <1>0, <1>1, MoveKeepsBalance
<1>3. PacketsConserved'
  BY <1>2 DEF Balanced, PacketsConserved, InHand, Ins, Outs, Buffered, Forwarding, Leaving
<1>. QED
  BY <1>1, <1>3 DEF PacketInv

(***************************************************************************)
(* Every datagram read is in one channel or one thread's hand, was sent or *)
(* given up by egress, or is counted in one drop counter, whatever the     *)
(* capacities, the interleaving of the three threads and the moment of     *)
(* shutdown.                                                               *)
(***************************************************************************)
THEOREM PacketsHold == Spec => []PacketsConserved
<1>1. PacketInv => PacketsConserved
  BY DEF PacketInv
<1>. QED
  BY <1>1, PacketInit, PacketStep, PTL DEF Spec

-----------------------------------------------------------------------------
(***************************************************************************)
(* The choice of the EDF thread.  It compares the heads only: what stands  *)
(* behind a head arrived after it, and a buffer that stayed empty had an   *)
(* empty channel when it was looked at, so what is in that channel by now  *)
(* came later than process_next began.                                     *)
(***************************************************************************)

\* Nothing of p that is still in its channel, or will be, arrived before ts.
NotAfter(p, ts) ==
  /\ ts <= now
  /\ \A i \in 1 .. Len(inQueue[p]) : ts <= inQueue[p][i].ts

\* All packets in the channel of p arrived since process_next began.
AllNew(p) == \A i \in 1 .. Len(inQueue[p]) : seenId <= inQueue[p][i].id

CountInv ==
  /\ seenId \in Nat /\ seenId <= nextId
  /\ nextId = 0 => now = 0

ChannelInv ==
  \A p \in Priority : \A i \in 1 .. Len(inQueue[p]) :
    /\ inQueue[p][i].ts <= now
    /\ \A j \in i .. Len(inQueue[p]) : inQueue[p][i].ts <= inQueue[p][j].ts

BufferInv == \A p \in Priority : buffers[p] # NoPacket => NotAfter(p, buffers[p].ts)

FillInv ==
  edfPc = "fill" =>
    \A i \in 1 .. Len(Order) : i < slot /\ buffers[Order[i]] = NoPacket => AllNew(Order[i])

ChosenInv ==
  edfPc = "forward" =>
    /\ chosenOf \in Priority
    /\ \A p \in Priority :
         /\ buffers[p] # NoPacket => Deadline(chosenOf, chosen) <= Deadline(p, buffers[p])
         /\ \A i \in 1 .. Len(inQueue[p]) :
              inQueue[p][i].id < seenId =>
                Deadline(chosenOf, chosen) <= Deadline(p, inQueue[p][i])

HeadInv == PacketTypes /\ CountInv /\ ChannelInv /\ BufferInv /\ FillInv /\ ChosenInv

-----------------------------------------------------------------------------

\* The packets of a channel have a number and a time.
LEMMA ChannelTypes ==
  ASSUME PacketTypes, NEW p \in Priority
  PROVE  /\ inQueue[p] \in Seq(Packet) /\ Len(inQueue[p]) \in Nat
         /\ \A i \in 1 .. Len(inQueue[p]) :
              inQueue[p][i] \in Packet /\ inQueue[p][i].ts \in Nat /\ inQueue[p][i].id \in Nat
<1>1. inQueue[p] \in Seq(Packet)
  BY DEF PacketTypes
<1>2. \A i \in 1 .. Len(inQueue[p]) : inQueue[p][i] \in Packet
  BY <1>1
<1>. QED
  BY <1>1, <1>2 DEF Packet

LEMMA BufferTypes ==
  ASSUME PacketTypes, NEW p \in Priority, buffers[p] # NoPacket
  PROVE  buffers[p] \in Packet /\ buffers[p].ts \in Nat
<1>1. buffers[p] \in Packet
  BY DEF PacketTypes
<1>. QED
  BY <1>1 DEF Packet

Has(s, e) == \E i \in 1 .. Len(s) : s[i] = e

LEMMA AppendKeeps ==
  ASSUME NEW s \in Seq(Priority), NEW t \in Seq(Priority), NEW e, Has(s, e) \/ Has(t, e)
  PROVE  Has(s \o t, e)
<1>1. ASSUME NEW i \in 1 .. Len(s), s[i] = e
      PROVE  i \in 1 .. Len(s \o t) /\ (s \o t)[i] = e
  BY <1>1
<1>2. ASSUME NEW i \in 1 .. Len(t), t[i] = e
      PROVE  Len(s) + i \in 1 .. Len(s \o t) /\ (s \o t)[Len(s) + i] = e
  BY <1>2
<1>. QED
  BY <1>1, <1>2 DEF Has

\* Priority::ALL names every priority.
LEMMA OrderCovers == \A p \in Priority : \E i \in 1 .. Len(Order) : Order[i] = p
<1>. SUFFICES ASSUME NEW p \in Priority
              PROVE  \E i \in 1 .. Len(Order) : Order[i] = p
  OBVIOUS
<1>1. p \in {"High", "Medium", "Low", "BestEffort"}
  BY ChannelAssumption DEF AllPriorities
<1>2. \A q : Used(q) \in Seq(Priority)
  BY DEF Used
<1>3. \E i \in 1 .. Len(Used(p)) : Used(p)[i] = p
  BY DEF Used
<1>. DEFINE h == Used("High")
            m == Used("Medium")
            l == Used("Low")
            b == Used("BestEffort")
<1>. HIDE DEF h, m, l, b
<1>4. h \in Seq(Priority) /\ m \in Seq(Priority) /\ l \in Seq(Priority) /\ b \in Seq(Priority)
  BY <1>2 DEF h, m, l, b
<1>5. h \o m \in Seq(Priority) /\ h \o m \o l \in Seq(Priority)
  BY <1>4
<1>6. Order = h \o m \o l \o b
  BY DEF Order, h, m, l, b
<1>7. Has(h, p) \/ Has(m, p) \/ Has(l, p) \/ Has(b, p)
  BY <1>1, <1>3 DEF Has, h, m, l, b
<1>8. Has(h, p) \/ Has(m, p) => Has(h \o m, p)
  BY <1>4, AppendKeeps
<1>9. Has(h \o m, p) \/ Has(l, p) => Has(h \o m \o l, p)
  BY <1>4, <1>5, AppendKeeps
<1>10. Has(h \o m \o l, p) \/ Has(b, p) => Has(h \o m \o l \o b, p)
  BY <1>4, <1>5, AppendKeeps
<1>. QED
  BY <1>6, <1>7, <1>8, <1>9, <1>10 DEF Has

LEMMA HeadInitially == Init => HeadInv
<1>1. Init => PacketTypes
  BY PacketInit DEF PacketInv
<1>. QED
  BY <1>1 DEF Init, ChannelInit, InputInit, IngressInit, EdfInit, HeadInv, CountInv,
              ChannelInv, BufferInv, FillInv, ChosenInv

\* Steps of egress, of the driver and of ingress that bring no packet.
LEMMA OthersKeepHeads ==
  ASSUME HeadInv, PacketTypes',
         UNCHANGED <<now, nextId, inQueue, buffers>>,
         \/ UNCHANGED <<edfPc, slot, chosen, chosenOf, seenId>>
         \/ edfPc' \notin {"fill", "forward"} /\ seenId' = 0
         \/ edfPc' = "fill" /\ slot' = 1 /\ seenId' = nextId
  PROVE  HeadInv'
<1>1. nextId \in Nat
  BY DEF HeadInv, PacketTypes
<1>2. CountInv' /\ ChannelInv'
  BY <1>1 DEF HeadInv, CountInv, ChannelInv
<1>3. BufferInv'
  BY DEF HeadInv, BufferInv, NotAfter
<1>4. FillInv' /\ ChosenInv'
  <2>1. CASE UNCHANGED <<edfPc, slot, chosen, chosenOf, seenId>>
    BY <2>1 DEF HeadInv, FillInv, ChosenInv, AllNew, Deadline
  <2>2. CASE edfPc' \notin {"fill", "forward"}
    BY <2>2 DEF FillInv, ChosenInv
  <2>3. CASE edfPc' = "fill" /\ slot' = 1
    BY <2>3, OrderType DEF FillInv, ChosenInv
  <2>. QED
    BY <2>1, <2>2, <2>3
<1>. QED
  BY <1>2, <1>3, <1>4 DEF HeadInv

\* A packet is read: it is newer than all numbers and times known so far.
LEMMA ReadKeepsHeads ==
  ASSUME HeadInv, PacketTypes', ReadSocket, UNCHANGED edfVars
  PROVE  HeadInv'
<1>. DEFINE e == [id |-> nextId, ts |-> now']
<1>1. /\ nextId \in Nat /\ nextId' = nextId + 1 /\ now \in Nat /\ now' \in Nat
      /\ now <= now' /\ seenId \in Nat /\ seenId <= nextId
  BY InputAssumption DEF HeadInv, CountInv, PacketTypes, ReadSocket, Clock
<1>2. UNCHANGED <<edfPc, slot, buffers, chosen, chosenOf, seenId>>
  BY DEF edfVars
<1>3. \A p \in Priority : inQueue'[p] = inQueue[p] \/ inQueue'[p] = Append(inQueue[p], e)
  BY DEF ReadSocket, Offer, HeadInv, PacketTypes
<1>4. ASSUME NEW p \in Priority, NEW i \in 1 .. Len(inQueue'[p])
      PROVE  \/ i \in 1 .. Len(inQueue[p]) /\ inQueue'[p][i] = inQueue[p][i]
             \/ i = Len(inQueue'[p]) /\ inQueue'[p][i].ts = now' /\ inQueue'[p][i].id = nextId
  <2>1. inQueue[p] \in Seq(Packet)
    BY DEF HeadInv, PacketTypes
  <2>2. CASE inQueue'[p] = inQueue[p]
    BY <2>2
  <2>3. CASE inQueue'[p] = Append(inQueue[p], e)
    <3>1. /\ Len(inQueue'[p]) = Len(inQueue[p]) + 1 /\ Len(inQueue[p]) \in Nat
          /\ inQueue'[p][Len(inQueue[p]) + 1] = e
          /\ \A j \in 1 .. Len(inQueue[p]) : inQueue'[p][j] = inQueue[p][j]
      BY <2>1, <2>3
    <3>. QED
      BY <3>1
  <2>. QED
    BY <1>3, <2>2, <2>3
<1>5. CountInv'
  BY <1>1, <1>2 DEF CountInv
<1>6. ChannelInv'
  <2>. SUFFICES ASSUME NEW p \in Priority, NEW i \in 1 .. Len(inQueue'[p])
                PROVE  /\ inQueue'[p][i].ts <= now'
                       /\ \A j \in i .. Len(inQueue'[p]) :
                            inQueue'[p][i].ts <= inQueue'[p][j].ts
    BY DEF ChannelInv
  <2>0. Len(inQueue'[p]) \in Nat /\ Len(inQueue[p]) \in Nat
    BY DEF HeadInv, PacketTypes
  <2>1. inQueue'[p][i].ts \in Nat /\ inQueue'[p][i].ts <= now'
    BY <1>1, <1>4, ChannelTypes DEF HeadInv, ChannelInv
  <2>2. ASSUME NEW j \in i .. Len(inQueue'[p])
        PROVE  inQueue'[p][i].ts <= inQueue'[p][j].ts
    <3>1. j \in 1 .. Len(inQueue'[p])
      BY <2>0
    <3>2. CASE j \in 1 .. Len(inQueue[p]) /\ inQueue'[p][j] = inQueue[p][j]
      <4>1. i \in 1 .. Len(inQueue[p]) /\ inQueue'[p][i] = inQueue[p][i]
        <5>1. i \in 1 .. Len(inQueue[p])
          BY <2>0, <3>2
        <5>2. CASE i = Len(inQueue'[p]) /\ inQueue'[p] # inQueue[p]
          <6>1. Len(inQueue'[p]) = Len(inQueue[p]) + 1
            <7>1. inQueue'[p] = Append(inQueue[p], e) /\ inQueue[p] \in Seq(Packet)
              BY <1>3, <5>2 DEF HeadInv, PacketTypes
            <7>. QED
              BY <7>1
          <6>. QED
            BY <2>0, <5>1, <5>2, <6>1
        <5>3. CASE i # Len(inQueue'[p]) \/ inQueue'[p] = inQueue[p]
          BY <1>4, <5>1, <5>3
        <5>. QED
          BY <5>1, <5>2, <5>3
      <4>. QED
        BY <3>2, <4>1 DEF HeadInv, ChannelInv
    <3>3. CASE inQueue'[p][j].ts = now'
      BY <2>1, <3>3
    <3>. QED
      BY <1>4, <3>1, <3>2, <3>3
  <2>. QED
    BY <2>1, <2>2
<1>7. BufferInv'
  <2>. SUFFICES ASSUME NEW p \in Priority, buffers[p] # NoPacket
                PROVE  /\ buffers[p].ts <= now'
                       /\ \A i \in 1 .. Len(inQueue'[p]) : buffers[p].ts <= inQueue'[p][i].ts
    BY <1>2 DEF BufferInv, NotAfter
  <2>1. buffers[p].ts \in Nat /\ NotAfter(p, buffers[p].ts)
    BY BufferTypes DEF HeadInv, BufferInv
  <2>2. buffers[p].ts <= now'
    BY <1>1, <2>1 DEF NotAfter
  <2>. QED
    BY <1>4, <2>1, <2>2 DEF NotAfter
<1>8. FillInv'
  <2>1. ASSUME NEW p \in Priority, AllNew(p)
        PROVE  AllNew(p)'
    BY <1>1, <1>2, <1>4, <2>1 DEF AllNew
  <2>2. \A i \in 1 .. Len(Order) : Order[i] \in Priority
    BY OrderType
  <2>. QED
    BY <1>2, <2>1, <2>2 DEF HeadInv, FillInv
<1>9. ChosenInv'
  <2>. SUFFICES ASSUME edfPc = "forward", NEW p \in Priority,
                       NEW i \in 1 .. Len(inQueue'[p]), inQueue'[p][i].id < seenId
                PROVE  Deadline(chosenOf, chosen) <= Deadline(p, inQueue'[p][i])
    BY <1>2 DEF HeadInv, ChosenInv, Deadline
  <2>1. i \in 1 .. Len(inQueue[p]) /\ inQueue'[p][i] = inQueue[p][i]
    BY <1>1, <1>4
  <2>. QED
    BY <2>1 DEF HeadInv, ChosenInv
<1>. QED
  BY <1>5, <1>6, <1>7, <1>8, <1>9 DEF HeadInv

\* A buffer is filled with the head of its channel, or left empty with nothing to take.
LEMMA FillKeepsHeads ==
  ASSUME HeadInv, PacketTypes', Fill, UNCHANGED <<ingressVars, egressVars>>
  PROVE  HeadInv'
<1>. DEFINE f == Order[slot]
<1>1. /\ edfPc = "fill" /\ slot \in 1 .. Len(Order) /\ slot' = slot + 1 /\ f \in Priority
      /\ UNCHANGED <<now, nextId, edfPc, chosen, chosenOf, seenId>>
  BY OrderType DEF Fill, HeadInv, PacketTypes, ingressVars
<1>2. CASE ~(buffers[f] = NoPacket /\ inQueue[f] # <<>>)
  <2>1. UNCHANGED <<buffers, inQueue>>
    BY <1>2 DEF Fill
  <2>2. CountInv' /\ ChannelInv' /\ BufferInv' /\ ChosenInv'
    BY <1>1, <2>1 DEF HeadInv, CountInv, ChannelInv, BufferInv, ChosenInv, NotAfter
  <2>3. ASSUME NEW i \in 1 .. Len(Order), i < slot', buffers[Order[i]] = NoPacket
        PROVE  AllNew(Order[i])
    <3>1. CASE i < slot
      BY <1>1, <2>3, <3>1 DEF HeadInv, FillInv
    <3>2. CASE i = slot
      BY <1>2, <2>3, <3>2 DEF AllNew
    <3>. QED
      BY <1>1, <2>3, <3>1, <3>2, OrderType
  <2>4. FillInv'
    BY <1>1, <2>1, <2>3 DEF FillInv, AllNew
  <2>. QED
    BY <2>2, <2>4 DEF HeadInv
<1>3. CASE buffers[f] = NoPacket /\ inQueue[f] # <<>>
  <2>1. /\ buffers' = [buffers EXCEPT ![f] = Head(inQueue[f])]
        /\ inQueue' = [inQueue EXCEPT ![f] = Tail(@)]
    BY <1>3 DEF Fill
  <2>. HIDE DEF f
  <2>2. \A p \in Priority :
          /\ p # f => inQueue'[p] = inQueue[p] /\ buffers'[p] = buffers[p]
          /\ p = f => inQueue'[p] = Tail(inQueue[f]) /\ buffers'[p] = inQueue[f][1]
    BY <1>1, <2>1 DEF HeadInv, PacketTypes
  <2>3. /\ inQueue[f] \in Seq(Packet) /\ Len(inQueue[f]) \in Nat /\ 1 \in 1 .. Len(inQueue[f])
        /\ Len(inQueue'[f]) = Len(inQueue[f]) - 1
        /\ \A i \in 1 .. Len(inQueue'[f]) : inQueue'[f][i] = inQueue[f][i + 1]
    <3>1. inQueue[f] \in Seq(Packet) /\ inQueue[f] # <<>> /\ inQueue'[f] = Tail(inQueue[f])
      BY <1>1, <1>3, <2>2 DEF HeadInv, PacketTypes
    <3>. QED
      BY <3>1
  <2>4. ASSUME NEW p \in Priority, NEW i \in 1 .. Len(inQueue'[p])
        PROVE  \E j \in 1 .. Len(inQueue[p]) : inQueue'[p][i] = inQueue[p][j]
    <3>1. CASE p = f
      <4>1. i + 1 \in 1 .. Len(inQueue[p])
        BY <2>3, <3>1
      <4>. QED
        BY <2>3, <3>1, <4>1
    <3>2. CASE p # f
      BY <2>2, <3>2
    <3>. QED
      BY <3>1, <3>2
  <2>5. CountInv'
    BY <1>1 DEF HeadInv, CountInv
  <2>6. ChannelInv'
    <3>. SUFFICES ASSUME NEW p \in Priority, NEW i \in 1 .. Len(inQueue'[p])
                  PROVE  /\ inQueue'[p][i].ts <= now
                         /\ \A j \in i .. Len(inQueue'[p]) :
                              inQueue'[p][i].ts <= inQueue'[p][j].ts
      BY <1>1 DEF ChannelInv
    <3>1. CASE p # f
      BY <2>2, <3>1 DEF HeadInv, ChannelInv
    <3>2. CASE p = f
      <4>1. i + 1 \in 1 .. Len(inQueue[p]) /\ inQueue'[p][i] = inQueue[p][i + 1]
        BY <2>3, <3>2
      <4>2. \A j \in i .. Len(inQueue'[p]) :
              j + 1 \in (i + 1) .. Len(inQueue[p]) /\ inQueue'[p][j] = inQueue[p][j + 1]
        <5>1. \A j \in i .. Len(inQueue'[p]) : j \in 1 .. Len(inQueue'[p])
          BY <2>3, <3>2
        <5>. QED
          BY <2>3, <3>2, <5>1
      <4>. QED
        BY <4>1, <4>2 DEF HeadInv, ChannelInv
    <3>. QED
      BY <3>1, <3>2
  <2>7. BufferInv'
    <3>. SUFFICES ASSUME NEW p \in Priority, buffers'[p] # NoPacket
                  PROVE  /\ buffers'[p].ts <= now
                         /\ \A i \in 1 .. Len(inQueue'[p]) :
                              buffers'[p].ts <= inQueue'[p][i].ts
      BY <1>1 DEF BufferInv, NotAfter
    <3>1. CASE p # f
      BY <2>2, <3>1 DEF HeadInv, BufferInv, NotAfter
    <3>2. CASE p = f
      <4>1. \A j \in 1 .. Len(inQueue[f]) : inQueue[f][1].ts <= inQueue[f][j].ts
        BY <1>1, <2>3 DEF HeadInv, ChannelInv
      <4>2. inQueue[f][1].ts <= now
        BY <1>1, <2>3 DEF HeadInv, ChannelInv
      <4>. QED
        BY <1>1, <2>2, <2>4, <3>2, <4>1, <4>2
    <3>. QED
      BY <3>1, <3>2
  <2>8. FillInv'
    <3>. SUFFICES ASSUME NEW i \in 1 .. Len(Order), i < slot', buffers'[Order[i]] = NoPacket
                  PROVE  AllNew(Order[i])'
      BY DEF FillInv
    <3>1. Order[i] \in Priority
      BY OrderType
    <3>2. CASE i < slot /\ buffers[Order[i]] = NoPacket
      <4>1. AllNew(Order[i])
        BY <1>1, <3>2 DEF HeadInv, FillInv
      <4>. QED
        BY <1>1, <2>4, <3>1, <4>1 DEF AllNew
    <3>3. CASE Order[i] = f
      <4>1. inQueue[f][1] \in Packet
        BY <2>3
      <4>2. NoPacket \notin Packet
        BY DEF NoPacket, Packet
      <4>. QED
        BY <2>2, <3>1, <3>3, <4>1, <4>2
    <3>4. i < slot \/ i = slot
      BY <1>1, OrderType
    <3>5. Order[i] # f => buffers[Order[i]] = NoPacket
      BY <2>2, <3>1
    <3>. QED
      BY <3>2, <3>3, <3>4, <3>5 DEF f
  <2>9. ChosenInv'
    BY <1>1 DEF ChosenInv
  <2>. QED
    BY <2>5, <2>6, <2>7, <2>8, <2>9 DEF HeadInv
<1>. QED
  BY <1>2, <1>3

(***************************************************************************)
(* The packet due first among the buffers is due first among all packets   *)
(* that process_next could know of: a channel behind a full buffer is due  *)
(* later than the buffer, one behind an empty buffer has new packets only. *)
(***************************************************************************)
LEMMA ChooseKeepsHeads ==
  ASSUME HeadInv, PacketTypes', Choose, UNCHANGED <<ingressVars, egressVars>>
  PROVE  HeadInv'
<1>. DEFINE f == Order[Earliest]
<1>1. /\ edfPc = "fill" /\ edfPc' = "forward" /\ slot > Len(Order) /\ Filled # {}
      /\ chosen' = buffers[f] /\ chosenOf' = f
      /\ buffers' = [buffers EXCEPT ![f] = NoPacket]
      /\ UNCHANGED <<now, nextId, inQueue, seenId>>
  BY DEF Choose, sharedVars, channelVars, ingressVars
<1>2. /\ Earliest \in Filled /\ f \in Priority /\ buffers[f] # NoPacket
      /\ \A j \in Filled : DueAt(Earliest) <= DueAt(j)
  BY <1>1, EarliestFull, OrderType DEF HeadInv, Filled
<1>3. DueAt(Earliest) = Deadline(f, buffers[f])
  BY DEF DueAt
<1>. HIDE DEF f
<1>4. \A p \in Priority : buffers'[p] # NoPacket => p # f /\ buffers'[p] = buffers[p]
  BY <1>1, <1>2 DEF HeadInv, PacketTypes
<1>5. ASSUME NEW p \in Priority, buffers[p] # NoPacket
      PROVE  Deadline(f, buffers[f]) <= Deadline(p, buffers[p])
  <2>1. PICK i \in 1 .. Len(Order) : Order[i] = p
    BY OrderCovers
  <2>2. i \in Filled /\ DueAt(i) = Deadline(p, buffers[p])
    BY <1>5, <2>1 DEF Filled, DueAt
  <2>. QED
    BY <1>2, <1>3, <2>2
<1>6. ASSUME NEW p \in Priority, NEW i \in 1 .. Len(inQueue[p]), inQueue[p][i].id < seenId
      PROVE  Deadline(f, buffers[f]) <= Deadline(p, inQueue[p][i])
  <2>0. inQueue[p][i].ts \in Nat /\ inQueue[p][i].id \in Nat /\ seenId \in Nat
    BY ChannelTypes DEF HeadInv, CountInv
  <2>1. buffers[p] # NoPacket
    <3>1. PICK k \in 1 .. Len(Order) : Order[k] = p
      BY OrderCovers
    <3>2. k < slot
      BY <1>1, OrderType DEF HeadInv, PacketTypes
    <3>3. ~AllNew(p)
      BY <1>6, <2>0 DEF AllNew
    <3>. QED
      BY <1>1, <3>1, <3>2, <3>3 DEF HeadInv, FillInv
  <2>2. buffers[p].ts \in Nat /\ buffers[p].ts <= inQueue[p][i].ts
    BY <2>1, BufferTypes DEF HeadInv, BufferInv, NotAfter
  <2>3. Budget[p] \in Nat /\ Budget[f] \in Nat /\ buffers[f].ts \in Nat
    BY <1>2, BufferTypes, InputAssumption DEF HeadInv
  <2>4. Deadline(f, buffers[f]) <= Deadline(p, buffers[p])
    BY <1>5, <2>1
  <2>. QED
    BY <2>0, <2>2, <2>3, <2>4 DEF Deadline
<1>7. CountInv' /\ ChannelInv'
  BY <1>1 DEF HeadInv, CountInv, ChannelInv
<1>8. BufferInv'
  BY <1>1, <1>4 DEF HeadInv, BufferInv, NotAfter
<1>9. FillInv'
  BY <1>1 DEF FillInv
<1>10. ChosenInv'
  BY <1>1, <1>2, <1>4, <1>5, <1>6 DEF ChosenInv, Deadline
<1>. QED
  BY <1>7, <1>8, <1>9, <1>10 DEF HeadInv

LEMMA HeadStep == HeadInv /\ PacketTypes' /\ [Next]_vars => HeadInv'
<1>. SUFFICES ASSUME HeadInv, PacketTypes', [Next]_vars
              PROVE  HeadInv'
  OBVIOUS
<1>1. CASE Ingress
  <2>1. CASE ReadSocket
    BY <1>1, <2>1, ReadKeepsHeads DEF Ingress
  <2>2. CASE ~ReadSocket
    <3>1. UNCHANGED <<now, nextId, inQueue>>
      BY <1>1, <2>2 DEF Ingress, IngressStep, StartRound, IngressExit, StartFlow, SkipSocket,
                        NextPass, EndFlow, EndRound, sharedVars, channelVars
    <3>. QED
      BY <1>1, <3>1, OthersKeepHeads DEF Ingress, edfVars
  <2>. QED
    BY <2>1, <2>2
<1>2. CASE Edf
  <2>1. CASE BeginNext(nextId) \/ EdfExit \/ ChooseNone \/ Forward
    <3>1. /\ UNCHANGED <<now, nextId, inQueue, buffers>>
          /\ \/ UNCHANGED <<slot, chosen, chosenOf, seenId>> /\ edfPc' = "done"
             \/ edfPc' = "top" /\ seenId' = 0
             \/ edfPc' = "fill" /\ slot' = 1 /\ seenId' = nextId
      BY <1>2, <2>1 DEF Edf, BeginNext, EdfExit, ChooseNone, Forward, sharedVars, channelVars,
                        ingressVars
    <3>2. CASE edfPc' = "done" /\ UNCHANGED <<slot, chosen, chosenOf, seenId>>
      BY <3>1, <3>2 DEF HeadInv, CountInv, ChannelInv, BufferInv, NotAfter, FillInv, ChosenInv
    <3>3. CASE ~(edfPc' = "done" /\ UNCHANGED <<slot, chosen, chosenOf, seenId>>)
      BY <3>1, <3>3, OthersKeepHeads
    <3>. QED
      BY <3>2, <3>3
  <2>. QED
    BY <1>2, <2>1, FillKeepsHeads, ChooseKeepsHeads DEF Edf, EdfStep
<1>3. CASE Egress
  <2>1. UNCHANGED now
    BY <1>3 DEF Egress, EgressStep, BeginPass, EgressExit, SkipPriority, SendOut, ReceiveOut,
                channelVars
  <2>. QED
    BY <1>3, <2>1, OthersKeepHeads DEF Egress, ingressVars, edfVars
<1>4. CASE Stop /\ UNCHANGED <<inQueue, ingressVars, edfVars, egressVars>>
  BY <1>4, OthersKeepHeads DEF Stop, ingressVars, edfVars
<1>5. CASE UNCHANGED vars
  BY <1>5, OthersKeepHeads DEF vars, sharedVars, channelVars, ingressVars, edfVars
<1>. QED
  BY <1>1, <1>2, <1>3, <1>4, <1>5 DEF Next

LEMMA HeadImplies == HeadInv => EarliestFirst
<1>. SUFFICES ASSUME HeadInv, edfPc = "forward", NEW p \in Priority
              PROVE  /\ buffers[p] # NoPacket /\ buffers[p].id < seenId =>
                          Deadline(p, buffers[p]) >= Deadline(chosenOf, chosen)
                     /\ \A i \in 1 .. Len(inQueue[p]) :
                          inQueue[p][i].id < seenId =>
                            Deadline(p, inQueue[p][i]) >= Deadline(chosenOf, chosen)
  BY DEF EarliestFirst
<1>1. chosen \in Packet /\ chosenOf \in Priority
  BY DEF HeadInv, PacketTypes, ChosenInv
<1>2. Deadline(chosenOf, chosen) \in Nat
  BY <1>1, InputAssumption DEF Packet, Deadline
<1>3. buffers[p] # NoPacket => Deadline(p, buffers[p]) \in Nat
  BY BufferTypes, InputAssumption DEF HeadInv, Deadline
<1>4. \A i \in 1 .. Len(inQueue[p]) : Deadline(p, inQueue[p][i]) \in Nat
  BY ChannelTypes, InputAssumption DEF HeadInv, Deadline
<1>. QED
  BY <1>2, <1>3, <1>4 DEF HeadInv, ChosenInv

(***************************************************************************)
(* Of the packets in the channels and buffers when process_next began,     *)
(* none is due before the one it processes, although it looks at one       *)
(* packet of each priority only (process_next of edf.rs).                  *)
(***************************************************************************)
THEOREM EarliestHolds == Spec => []EarliestFirst
<1>1. Init => PacketInv /\ HeadInv
  BY PacketInit, HeadInitially
<1>2. PacketInv /\ HeadInv /\ [Next]_vars => PacketInv' /\ HeadInv'
  <2>1. PacketInv' => PacketTypes'
    BY DEF PacketInv
  <2>. QED
    BY <2>1, PacketStep, HeadStep
<1>. QED
  BY <1>1, <1>2, HeadImplies, PTL DEF Spec

-----------------------------------------------------------------------------
(***************************************************************************)
(* The order of the packets of a priority on their way to egress.  A chain *)
(* is what is known of one priority: l, the id egress saw last; o, the     *)
(* channel to egress; c, the packet being forwarded; b, the buffer; q, the *)
(* input channel; n, the next id.  Each is older than those after it.      *)
(***************************************************************************)

Rising(s) == \A i, j \in 1 .. Len(s) : i < j => s[i].id < s[j].id
Below(s, id) == \A i \in 1 .. Len(s) : s[i].id < id
Above(s, id) == \A i \in 1 .. Len(s) : id < s[i].id

Between(l, o, e, q, n) ==
  e # NoPacket => l < e.id /\ Below(o, e.id) /\ Above(q, e.id) /\ e.id < n

Chain(l, o, c, b, q, n) ==
  /\ l < n
  /\ Rising(o) /\ Above(o, l) /\ Below(o, n)
  /\ Rising(q) /\ Above(q, l) /\ Below(q, n)
  /\ \A i \in 1 .. Len(q) : Below(o, q[i].id)
  /\ Between(l, o, c, q, n) /\ Between(l, o, b, q, n)
  /\ c # NoPacket /\ b # NoPacket => c.id < b.id

\* What a chain is made of.
Links(l, o, c, b, q, n) ==
  /\ l \in Int /\ n \in Nat
  /\ o \in Seq(Packet) /\ q \in Seq(Packet)
  /\ c \in Packet \cup {NoPacket} /\ b \in Packet \cup {NoPacket}

LEMMA PacketIs ==
  ASSUME NEW e \in Packet
  PROVE  e.id \in Nat /\ e # NoPacket
BY DEF Packet, NoPacket

LEMMA SeqIs ==
  ASSUME NEW s \in Seq(Packet)
  PROVE  /\ Len(s) \in Nat
         /\ \A i \in 1 .. Len(s) : s[i] \in Packet /\ s[i].id \in Nat
<1>1. Len(s) \in Nat /\ \A i \in 1 .. Len(s) : s[i] \in Packet
  OBVIOUS
<1>. QED
  BY <1>1, PacketIs

LEMMA AppendIs ==
  ASSUME NEW s \in Seq(Packet), NEW e \in Packet
  PROVE  /\ Append(s, e) \in Seq(Packet) /\ Len(Append(s, e)) = Len(s) + 1
         /\ Append(s, e)[Len(s) + 1] = e
         /\ \A i \in 1 .. Len(s) : Append(s, e)[i] = s[i]
         /\ \A i \in 1 .. Len(Append(s, e)) : i = Len(s) + 1 \/ i \in 1 .. Len(s)
OBVIOUS

LEMMA TailIs ==
  ASSUME NEW s \in Seq(Packet), s # <<>>
  PROVE  /\ Tail(s) \in Seq(Packet) /\ Len(Tail(s)) = Len(s) - 1 /\ Len(s) \in Nat \ {0}
         /\ Head(s) = s[1] /\ Head(s) \in Packet
         /\ \A i \in 1 .. Len(Tail(s)) : Tail(s)[i] = s[i + 1] /\ i + 1 \in 1 .. Len(s)
OBVIOUS

\* An appended packet that is newer than the others keeps the order.
LEMMA AppendRises ==
  ASSUME NEW s \in Seq(Packet), NEW e \in Packet, NEW l \in Int, NEW n \in Int
  PROVE  /\ Rising(s) /\ Below(s, e.id) => Rising(Append(s, e))
         /\ Below(s, n) /\ e.id < n => Below(Append(s, e), n)
         /\ Above(s, l) /\ l < e.id => Above(Append(s, e), l)
<1>1. e.id \in Nat /\ Len(s) \in Nat
  BY PacketIs
<1>2. PICK t : t = Append(s, e)
  OBVIOUS
<1>3. /\ Len(t) = Len(s) + 1 /\ t[Len(s) + 1] = e
      /\ \A i \in 1 .. Len(s) : t[i] = s[i]
      /\ \A i \in 1 .. Len(t) : i = Len(s) + 1 \/ i \in 1 .. Len(s)
  BY <1>2, AppendIs
<1>4. ASSUME Rising(s), Below(s, e.id), NEW i \in 1 .. Len(t), NEW j \in 1 .. Len(t), i < j
      PROVE  t[i].id < t[j].id
  BY <1>1, <1>3, <1>4 DEF Rising, Below
<1>5. Below(s, n) /\ e.id < n => Below(t, n)
  BY <1>3 DEF Below
<1>6. Above(s, l) /\ l < e.id => Above(t, l)
  BY <1>3 DEF Above
<1>. QED
  BY <1>2, <1>4, <1>5, <1>6 DEF Rising

\* What is behind the head is newer than it.
LEMMA TailRises ==
  ASSUME NEW s \in Seq(Packet), s # <<>>, Rising(s), NEW n \in Int
  PROVE  /\ Rising(Tail(s)) /\ Above(Tail(s), Head(s).id)
         /\ Below(s, n) => Head(s).id < n /\ Below(Tail(s), n)
         /\ Above(s, n) => n < Head(s).id /\ Above(Tail(s), n)
<1>1. PICK t : t = Tail(s)
  OBVIOUS
<1>2. /\ Len(t) = Len(s) - 1 /\ Len(s) \in Nat \ {0} /\ Head(s) = s[1]
      /\ \A i \in 1 .. Len(t) : t[i] = s[i + 1] /\ i + 1 \in 1 .. Len(s)
  BY <1>1, TailIs
<1>3. 1 \in 1 .. Len(s)
  BY <1>2
<1>4. Rising(t)
  BY <1>2 DEF Rising
<1>5. Above(t, Head(s).id)
  <2>. SUFFICES ASSUME NEW i \in 1 .. Len(t) PROVE Head(s).id < t[i].id
    BY DEF Above
  <2>1. 1 < i + 1
    BY <1>2
  <2>. QED
    BY <1>2, <1>3, <2>1 DEF Rising
<1>. QED
  BY <1>1, <1>2, <1>3, <1>4, <1>5 DEF Below, Above

\* Ingress reads a packet: it is the newest.
LEMMA ChainRead ==
  ASSUME NEW l, NEW o, NEW c, NEW b, NEW q, NEW n, Links(l, o, c, b, q, n),
         Chain(l, o, c, b, q, n), NEW e \in Packet, e.id = n
  PROVE  Chain(l, o, c, b, Append(q, e), n + 1) /\ Chain(l, o, c, b, q, n + 1)
<1>. USE DEF Links
<1>1. Len(o) \in Nat /\ Len(q) \in Nat
  OBVIOUS
<1>2. /\ \A i \in 1 .. Len(o) : o[i].id \in Nat
      /\ \A i \in 1 .. Len(q) : q[i].id \in Nat
      /\ c # NoPacket => c.id \in Nat
      /\ b # NoPacket => b.id \in Nat
  BY SeqIs, PacketIs
<1>3. Chain(l, o, c, b, q, n + 1)
  BY <1>2 DEF Chain, Between, Below
<1>4. Rising(Append(q, e)) /\ Above(Append(q, e), l) /\ Below(Append(q, e), n + 1)
  <2>1. Below(q, n + 1) /\ e.id < n + 1 /\ n + 1 \in Int
    BY <1>3 DEF Chain
  <2>. QED
    BY <2>1, AppendRises DEF Chain
<1>5. \A i \in 1 .. Len(Append(q, e)) : Below(o, Append(q, e)[i].id)
  BY AppendIs DEF Chain
<1>6. /\ c # NoPacket => Above(Append(q, e), c.id)
      /\ b # NoPacket => Above(Append(q, e), b.id)
  <2>1. ASSUME NEW x, x = c \/ x = b, x # NoPacket PROVE Above(Append(q, e), x.id)
    <3>1. x.id \in Int /\ Above(q, x.id) /\ x.id < e.id
      BY <1>2, <2>1 DEF Chain, Between
    <3>. QED
      BY <3>1, AppendRises
  <2>. QED
    BY <2>1
<1>. QED
  BY <1>3, <1>4, <1>5, <1>6 DEF Chain, Between

\* The head of the input channel becomes the buffer.
LEMMA ChainFill ==
  ASSUME NEW l, NEW o, NEW c, NEW b, NEW q, NEW n, Links(l, o, c, b, q, n),
         Chain(l, o, c, b, q, n), q # <<>>, b = NoPacket
  PROVE  Chain(l, o, c, Head(q), Tail(q), n)
<1>. USE DEF Links
<1>1. /\ Len(q) \in Nat \ {0} /\ Head(q) = q[1] /\ Head(q) \in Packet
      /\ \A i \in 1 .. Len(Tail(q)) : Tail(q)[i] = q[i + 1] /\ i + 1 \in 1 .. Len(q)
  BY TailIs
<1>2. 1 \in 1 .. Len(q)
  BY <1>1
<1>3. /\ Rising(Tail(q)) /\ Above(Tail(q), Head(q).id)
      /\ Head(q).id < n /\ Below(Tail(q), n)
      /\ l < Head(q).id /\ Above(Tail(q), l)
  BY TailRises DEF Chain
<1>4. Below(o, Head(q).id) /\ \A i \in 1 .. Len(Tail(q)) : Below(o, Tail(q)[i].id)
  BY <1>1, <1>2 DEF Chain
<1>5. c # NoPacket => c.id < Head(q).id /\ Above(Tail(q), c.id)
  <2>. SUFFICES ASSUME c # NoPacket PROVE c.id < Head(q).id /\ Above(Tail(q), c.id)
    OBVIOUS
  <2>1. c.id \in Int /\ Above(q, c.id)
    BY PacketIs DEF Chain, Between
  <2>. QED
    BY <2>1, TailRises DEF Chain
<1>. QED
  BY <1>3, <1>4, <1>5 DEF Chain, Between

\* The buffer goes into the hand.
LEMMA ChainChoose ==
  ASSUME NEW l, NEW o, NEW c, NEW b, NEW q, NEW n,
         Chain(l, o, c, b, q, n)
  PROVE  Chain(l, o, b, NoPacket, q, n)
BY DEF Chain, Between

\* The packet in hand enters the channel to egress, or is dropped.
LEMMA ChainForward ==
  ASSUME NEW l, NEW o, NEW c, NEW b, NEW q, NEW n, Links(l, o, c, b, q, n),
         Chain(l, o, c, b, q, n), c # NoPacket
  PROVE  Chain(l, Append(o, c), NoPacket, b, q, n) /\ Chain(l, o, NoPacket, b, q, n)
<1>. USE DEF Links
<1>1. c \in Packet /\ c.id \in Nat
  BY PacketIs
<1>2. Chain(l, o, NoPacket, b, q, n)
  BY DEF Chain, Between
<1>3. Rising(Append(o, c)) /\ Above(Append(o, c), l) /\ Below(Append(o, c), n)
  BY <1>1, AppendRises DEF Chain, Between
<1>4. ASSUME NEW i \in 1 .. Len(q) PROVE Below(Append(o, c), q[i].id)
  <2>1. q[i].id \in Int /\ Below(o, q[i].id) /\ c.id < q[i].id
    BY SeqIs DEF Chain, Between, Above
  <2>. QED
    BY <1>1, <2>1, AppendRises
<1>5. b # NoPacket => Below(Append(o, c), b.id)
  <2>. SUFFICES ASSUME b # NoPacket PROVE Below(Append(o, c), b.id)
    OBVIOUS
  <2>1. b.id \in Int /\ Below(o, b.id) /\ c.id < b.id
    BY PacketIs DEF Chain, Between
  <2>. QED
    BY <1>1, <2>1, AppendRises
<1>. QED
  BY <1>2, <1>3, <1>4, <1>5 DEF Chain, Between

\* Egress takes the oldest packet of its channel.
LEMMA ChainReceive ==
  ASSUME NEW l, NEW o, NEW c, NEW b, NEW q, NEW n, Links(l, o, c, b, q, n),
         Chain(l, o, c, b, q, n), o # <<>>
  PROVE  Chain(Head(o).id, Tail(o), c, b, q, n)
<1>. USE DEF Links
<1>1. PICK h \in Nat : h = Head(o).id
  BY TailIs, PacketIs
<1>2. PICK t \in Seq(Packet) : t = Tail(o)
  BY TailIs
<1>3. Rising(t) /\ Above(t, h) /\ h < n /\ Below(t, n)
  BY <1>1, <1>2, TailRises DEF Chain
<1>4. ASSUME NEW x \in Int, Below(o, x) PROVE Below(t, x) /\ h < x
  BY <1>1, <1>2, <1>4, TailRises DEF Chain
<1>5. ASSUME NEW i \in 1 .. Len(q) PROVE Below(t, q[i].id) /\ h < q[i].id
  <2>1. q[i].id \in Int /\ Below(o, q[i].id)
    BY SeqIs DEF Chain
  <2>. QED
    BY <1>4, <2>1
<1>6. ASSUME NEW x, x = c \/ x = b, x # NoPacket PROVE Below(t, x.id) /\ h < x.id
  <2>1. x.id \in Int /\ Below(o, x.id)
    BY <1>6, PacketIs DEF Chain, Between
  <2>. QED
    BY <1>4, <2>1
<1>7. Chain(h, t, c, b, q, n)
  <2>1. Above(q, h)
    BY <1>5 DEF Above
  <2>2. Between(h, t, c, q, n) /\ Between(h, t, b, q, n)
    BY <1>6 DEF Chain, Between
  <2>. QED
    BY <1>3, <1>5, <2>1, <2>2 DEF Chain
<1>. QED
  BY <1>1, <1>2, <1>7

-----------------------------------------------------------------------------

\* The packet of p the EDF thread is about to forward.
Hand(p) == IF edfPc = "forward" /\ chosenOf = p THEN chosen ELSE NoPacket

ChainOf(p) == Chain(lastId[p], outQueue[p], Hand(p), buffers[p], inQueue[p], nextId)

ChainInv ==
  /\ lastId \in [Priority -> Int]
  /\ \A p \in Priority : ChainOf(p)

LEMMA LinksOf ==
  ASSUME PacketTypes, lastId \in [Priority -> Int], NEW p \in Priority
  PROVE  Links(lastId[p], outQueue[p], Hand(p), buffers[p], inQueue[p], nextId)
BY DEF PacketTypes, Links, Hand

LEMMA ChainInit == Init => ChainInv
BY DEF Init, ChannelInit, InputInit, IngressInit, EdfInit, EgressInit, ChainInv, ChainOf, Hand,
       Chain, Rising, Below, Above, Between

\* A step that leaves p alone.
LEMMA ChainStays ==
  ASSUME NEW p \in Priority, ChainOf(p), nextId' = nextId,
         lastId'[p] = lastId[p], outQueue'[p] = outQueue[p], Hand(p)' = Hand(p),
         buffers'[p] = buffers[p], inQueue'[p] = inQueue[p]
  PROVE  ChainOf(p)'
BY DEF ChainOf

LEMMA IngressKeepsChain ==
  ASSUME PacketTypes, ChainInv, Ingress
  PROVE  ChainInv'
<1>1. /\ lastId' = lastId /\ outQueue' = outQueue /\ buffers' = buffers
      /\ edfPc' = edfPc /\ chosen' = chosen /\ chosenOf' = chosenOf
  BY DEF Ingress, IngressStep, StartRound, IngressExit, StartFlow, SkipSocket, ReadSocket,
         NextPass, EndFlow, EndRound, sharedVars, channelVars, edfVars, egressVars
<1>2. ASSUME NEW p \in Priority PROVE ChainOf(p)'
  <2>1. Hand(p)' = Hand(p)
    BY <1>1 DEF Hand
  <2>2. ChainOf(p)
    BY DEF ChainInv
  <2>3. CASE ~ReadSocket
    <3>1. nextId' = nextId /\ inQueue' = inQueue
      BY <2>3 DEF Ingress, IngressStep, StartRound, IngressExit, StartFlow, SkipSocket,
                  NextPass, EndFlow, EndRound, sharedVars
    <3>. QED
      BY <1>1, <2>1, <2>2, <3>1, ChainStays
  <2>4. CASE ReadSocket
    <3>1. PICK e : e = [id |-> nextId, ts |-> now']
      OBVIOUS
    <3>2. nextId \in Nat /\ now' \in Nat /\ inQueue \in [Priority -> Seq(Packet)]
      BY <2>4, InputAssumption DEF PacketTypes, ReadSocket, Clock
    <3>3. e \in Packet /\ e.id = nextId
      BY <3>1, <3>2 DEF Packet
    <3>4. nextId' = nextId + 1
      BY <2>4 DEF ReadSocket
    <3>5. inQueue'[p] = inQueue[p] \/ inQueue'[p] = Append(inQueue[p], e)
      BY <2>4, <3>1, <3>2 DEF ReadSocket, Offer
    <3>6. Links(lastId[p], outQueue[p], Hand(p), buffers[p], inQueue[p], nextId)
      BY LinksOf DEF ChainInv
    <3>. QED
      BY <1>1, <2>1, <2>2, <3>3, <3>4, <3>5, <3>6, ChainRead DEF ChainOf
  <2>. QED
    BY <2>3, <2>4
<1>. QED
  BY <1>1, <1>2 DEF ChainInv

LEMMA EdfKeepsChain ==
  ASSUME PacketTypes, ChainInv, Edf
  PROVE  ChainInv'
<1>1. /\ lastId' = lastId /\ nextId' = nextId
  BY DEF Edf, ingressVars, egressVars
<1>2. ASSUME NEW p \in Priority PROVE ChainOf(p)'
  <2>1. ChainOf(p) /\ Links(lastId[p], outQueue[p], Hand(p), buffers[p], inQueue[p], nextId)
    BY LinksOf DEF ChainInv
  <2>2. CASE BeginNext(nextId) \/ EdfExit \/ ChooseNone
    <3>1. UNCHANGED <<outQueue, buffers, inQueue>> /\ edfPc' # "forward" /\ edfPc # "forward"
      BY <2>2 DEF BeginNext, EdfExit, ChooseNone, sharedVars, channelVars
    <3>2. Hand(p)' = Hand(p)
      BY <3>1 DEF Hand
    <3>. QED
      BY <1>1, <2>1, <3>1, <3>2, ChainStays
  <2>3. CASE Fill
    <3>1. PICK f : f = Order[slot]
      OBVIOUS
    <3>2. /\ outQueue' = outQueue /\ edfPc' = edfPc /\ edfPc = "fill"
          /\ IF buffers[f] = NoPacket /\ inQueue[f] # <<>>
             THEN /\ buffers' = [buffers EXCEPT ![f] = Head(inQueue[f])]
                  /\ inQueue' = [inQueue EXCEPT ![f] = Tail(inQueue[f])]
             ELSE buffers' = buffers /\ inQueue' = inQueue
      BY <2>3, <3>1 DEF Fill
    <3>3. Hand(p)' = Hand(p)
      BY <3>2 DEF Hand
    <3>4. CASE f = p /\ buffers[p] = NoPacket /\ inQueue[p] # <<>>
      <4>1. buffers'[p] = Head(inQueue[p]) /\ inQueue'[p] = Tail(inQueue[p])
        BY <3>2, <3>4 DEF PacketTypes
      <4>2. Chain(lastId[p], outQueue[p], Hand(p), Head(inQueue[p]), Tail(inQueue[p]), nextId)
        BY <2>1, <3>4, ChainFill DEF ChainOf
      <4>. QED
        BY <1>1, <3>2, <3>3, <4>1, <4>2 DEF ChainOf
    <3>5. CASE ~(f = p /\ buffers[p] = NoPacket /\ inQueue[p] # <<>>)
      <4>1. buffers'[p] = buffers[p] /\ inQueue'[p] = inQueue[p]
        BY <3>2, <3>5 DEF PacketTypes
      <4>. QED
        BY <1>1, <2>1, <3>2, <3>3, <4>1, ChainStays
    <3>. QED
      BY <3>4, <3>5
  <2>4. CASE Choose
    <3>1. PICK f : f = Order[Earliest]
      OBVIOUS
    <3>2. /\ outQueue' = outQueue /\ inQueue' = inQueue
          /\ edfPc' = "forward" /\ edfPc = "fill"
          /\ chosen' = buffers[f] /\ chosenOf' = f
          /\ buffers' = [buffers EXCEPT ![f] = NoPacket]
      BY <2>4, <3>1 DEF Choose, sharedVars, channelVars
    <3>3. CASE f = p
      <4>1. Hand(p)' = buffers[p] /\ buffers'[p] = NoPacket
        BY <3>2, <3>3 DEF Hand, PacketTypes
      <4>2. Chain(lastId[p], outQueue[p], buffers[p], NoPacket, inQueue[p], nextId)
        BY <2>1, ChainChoose DEF ChainOf
      <4>. QED
        BY <1>1, <3>2, <4>1, <4>2 DEF ChainOf
    <3>4. CASE f # p
      <4>1. Hand(p)' = Hand(p) /\ buffers'[p] = buffers[p]
        BY <3>2, <3>4 DEF Hand, PacketTypes
      <4>. QED
        BY <1>1, <2>1, <3>2, <4>1, ChainStays
    <3>. QED
      BY <3>3, <3>4
  <2>5. CASE Forward
    <3>1. PICK f : f = chosenOf
      OBVIOUS
    <3>2. /\ inQueue' = inQueue /\ buffers' = buffers
          /\ edfPc' = "top" /\ edfPc = "forward"
          /\ \/ outQueue' = [outQueue EXCEPT ![f] = Append(outQueue[f], chosen)]
             \/ outQueue' = outQueue
      BY <2>5, <3>1 DEF Forward
    <3>3. Hand(p)' = NoPacket
      BY <3>2 DEF Hand
    <3>4. CASE f = p
      <4>1. Hand(p) = chosen /\ chosen \in Packet
        BY <3>1, <3>2, <3>4 DEF Hand, PacketTypes
      <4>2. /\ Chain(lastId[p], Append(outQueue[p], chosen), NoPacket, buffers[p], inQueue[p],
                     nextId)
            /\ Chain(lastId[p], outQueue[p], NoPacket, buffers[p], inQueue[p], nextId)
        <5>1. chosen # NoPacket
          BY <4>1, PacketIs
        <5>. QED
          BY <2>1, <4>1, <5>1, ChainForward DEF ChainOf
      <4>3. outQueue'[p] = Append(outQueue[p], chosen) \/ outQueue'[p] = outQueue[p]
        BY <3>2, <3>4 DEF PacketTypes
      <4>. QED
        BY <1>1, <3>2, <3>3, <4>2, <4>3 DEF ChainOf
    <3>5. CASE f # p
      <4>1. Hand(p) = NoPacket
        BY <3>1, <3>5 DEF Hand
      <4>2. outQueue'[p] = outQueue[p]
        BY <3>2, <3>5 DEF PacketTypes
      <4>. QED
        BY <1>1, <2>1, <3>2, <3>3, <4>1, <4>2, ChainStays
    <3>. QED
      BY <3>4, <3>5
  <2>. QED
    BY <2>2, <2>3, <2>4, <2>5 DEF Edf, EdfStep
<1>. QED
  BY <1>1, <1>2 DEF ChainInv

LEMMA EgressKeepsChain ==
  ASSUME PacketTypes, ChainInv, Egress
  PROVE  ChainInv'
<1>1. /\ inQueue' = inQueue /\ nextId' = nextId /\ buffers' = buffers
      /\ edfPc' = edfPc /\ chosen' = chosen /\ chosenOf' = chosenOf
  BY DEF Egress, ingressVars, edfVars
<1>2. CASE \E f \in Priority : ReceiveOut(f)
  <2>1. PICK f \in Priority : ReceiveOut(f)
    BY <1>2
  <2>2. /\ outQueue[f] # <<>>
        /\ outQueue' = [outQueue EXCEPT ![f] = Tail(outQueue[f])]
        /\ lastId' = [lastId EXCEPT ![f] = Head(outQueue[f]).id]
    BY <2>1 DEF ReceiveOut
  <2>3. Head(outQueue[f]).id \in Int
    <3>1. outQueue[f] \in Seq(Packet)
      BY DEF PacketTypes
    <3>2. Head(outQueue[f]) \in Packet
      BY <2>2, <3>1, TailIs
    <3>. QED
      BY <3>2, PacketIs
  <2>4. lastId' \in [Priority -> Int]
    BY <2>2, <2>3 DEF ChainInv
  <2>5. ASSUME NEW p \in Priority PROVE ChainOf(p)'
    <3>1. Hand(p)' = Hand(p)
      BY <1>1 DEF Hand
    <3>2. ChainOf(p) /\ Links(lastId[p], outQueue[p], Hand(p), buffers[p], inQueue[p], nextId)
      BY LinksOf DEF ChainInv
    <3>3. CASE p = f
      <4>1. outQueue'[p] = Tail(outQueue[p]) /\ lastId'[p] = Head(outQueue[p]).id
        BY <2>2, <3>3 DEF PacketTypes, ChainInv
      <4>2. Chain(Head(outQueue[p]).id, Tail(outQueue[p]), Hand(p), buffers[p], inQueue[p],
                  nextId)
        BY <2>2, <3>2, <3>3, ChainReceive DEF ChainOf
      <4>. QED
        BY <1>1, <3>1, <4>1, <4>2 DEF ChainOf
    <3>4. CASE p # f
      <4>1. outQueue'[p] = outQueue[p] /\ lastId'[p] = lastId[p]
        BY <2>2, <3>4 DEF PacketTypes, ChainInv
      <4>. QED
        BY <1>1, <3>1, <3>2, <4>1, ChainStays
    <3>. QED
      BY <3>3, <3>4
  <2>. QED
    BY <2>4, <2>5 DEF ChainInv
<1>3. CASE ~\E f \in Priority : ReceiveOut(f)
  <2>1. outQueue' = outQueue /\ lastId' = lastId
    BY <1>3 DEF Egress, EgressStep, BeginPass, EgressExit, SkipPriority, SendOut, Record,
                channelVars
  <2>. QED
    BY <1>1, <2>1, ChainStays DEF ChainInv, Hand
<1>. QED
  BY <1>2, <1>3

LEMMA ChainStep == PacketTypes /\ ChainInv /\ [Next]_vars => ChainInv'
<1>. SUFFICES ASSUME PacketTypes, ChainInv, [Next]_vars PROVE ChainInv'
  OBVIOUS
<1>1. CASE Stop /\ UNCHANGED <<inQueue, ingressVars, edfVars, egressVars>>
  BY <1>1, ChainStays DEF Stop, ingressVars, edfVars, egressVars, ChainInv, Hand
<1>2. CASE UNCHANGED vars
  BY <1>2, ChainStays DEF vars, sharedVars, channelVars, ingressVars, edfVars, egressVars,
                          ChainInv, Hand
<1>. QED
  BY <1>1, <1>2, IngressKeepsChain, EdfKeepsChain, EgressKeepsChain DEF Next

\* Two rising sequences, the second above the first.
LEMMA JoinRises ==
  ASSUME NEW s \in Seq(Packet), NEW t \in Seq(Packet), NEW l \in Int,
         Rising(s), Rising(t), \A i \in 1 .. Len(t) : Below(s, t[i].id)
  PROVE  /\ s \o t \in Seq(Packet) /\ Rising(s \o t)
         /\ Above(s, l) /\ Above(t, l) => Above(s \o t, l)
         /\ \A id \in Int : Below(s, id) /\ Below(t, id) => Below(s \o t, id)
<1>1. PICK r : r = s \o t
  OBVIOUS
<1>2. /\ r \in Seq(Packet) /\ Len(s) \in Nat /\ Len(t) \in Nat
      /\ Len(r) = Len(s) + Len(t)
      /\ \A i \in 1 .. Len(s) : r[i] = s[i]
      /\ \A i \in 1 .. Len(r) : i > Len(s) => i - Len(s) \in 1 .. Len(t) /\ r[i] = t[i - Len(s)]
      /\ \A i \in 1 .. Len(r) : i > Len(s) \/ i \in 1 .. Len(s)
  BY <1>1
<1>3. ASSUME NEW i \in 1 .. Len(r), NEW j \in 1 .. Len(r), i < j
      PROVE  r[i].id < r[j].id
  <2>1. CASE j \in 1 .. Len(s)
    BY <1>2, <1>3, <2>1 DEF Rising
  <2>2. CASE i \in 1 .. Len(s) /\ j > Len(s)
    BY <1>2, <1>3, <2>2 DEF Below
  <2>3. CASE i > Len(s)
    <3>1. /\ i - Len(s) \in 1 .. Len(t) /\ j - Len(s) \in 1 .. Len(t)
          /\ i - Len(s) < j - Len(s)
          /\ r[i] = t[i - Len(s)] /\ r[j] = t[j - Len(s)]
      BY <1>2, <1>3, <2>3
    <3>. QED
      BY <3>1 DEF Rising
  <2>. QED
    BY <1>2, <2>1, <2>2, <2>3
<1>4. Above(s, l) /\ Above(t, l) => Above(r, l)
  BY <1>2 DEF Above
<1>5. \A id \in Int : Below(s, id) /\ Below(t, id) => Below(r, id)
  BY <1>2 DEF Below
<1>. QED
  BY <1>1, <1>2, <1>3, <1>4, <1>5 DEF Rising

\* A chain, put in a row, rises.
LEMMA ChainRises ==
  ASSUME NEW l, NEW o, NEW c, NEW b, NEW q, NEW n, Links(l, o, c, b, q, n),
         Chain(l, o, c, b, q, n),
         NEW C, C = (IF c = NoPacket THEN <<>> ELSE <<c>>),
         NEW B, B = (IF b = NoPacket THEN <<>> ELSE <<b>>)
  PROVE  /\ o \o C \o B \o q \in Seq(Packet)
         /\ Rising(o \o C \o B \o q) /\ Above(o \o C \o B \o q, l)
<1>1. C \in Seq(Packet) /\ B \in Seq(Packet)
  BY DEF Links
<1>2. /\ \A i \in 1 .. Len(C) : i = 1 /\ C[1] = c /\ c # NoPacket
      /\ \A i \in 1 .. Len(B) : i = 1 /\ B[1] = b /\ b # NoPacket
  OBVIOUS
<1>. USE DEF Links
<1>3. Rising(C) /\ Rising(B) /\ Above(C, l) /\ Above(B, l)
  BY <1>2 DEF Rising, Above, Chain, Between
<1>4. /\ \A i \in 1 .. Len(q) : q[i].id \in Int
      /\ c # NoPacket => c.id \in Int
      /\ b # NoPacket => b.id \in Int
  BY SeqIs, PacketIs
<1>5. o \o C \in Seq(Packet) /\ Rising(o \o C) /\ Above(o \o C, l)
      /\ \A id \in Int : Below(o, id) /\ Below(C, id) => Below(o \o C, id)
  <2>1. \A i \in 1 .. Len(C) : Below(o, C[i].id)
    BY <1>2 DEF Chain, Between
  <2>. QED
    BY <1>1, <1>3, <2>1, JoinRises DEF Chain
<1>6. PICK s : s = o \o C
  OBVIOUS
<1>7. s \o B \in Seq(Packet) /\ Rising(s \o B) /\ Above(s \o B, l)
      /\ \A id \in Int : Below(s, id) /\ Below(B, id) => Below(s \o B, id)
  <2>1. ASSUME b # NoPacket PROVE Below(s, b.id)
    <3>1. Below(o, b.id) /\ b.id \in Int /\ (c # NoPacket => c.id < b.id)
      BY <1>4, <2>1 DEF Chain, Between
    <3>2. Below(C, b.id)
      BY <1>2, <3>1 DEF Below
    <3>. QED
      BY <1>5, <1>6, <3>1, <3>2
  <2>2. \A i \in 1 .. Len(B) : Below(s, B[i].id)
    BY <1>2, <2>1
  <2>. QED
    BY <1>1, <1>3, <1>5, <1>6, <2>2, JoinRises
<1>8. PICK r : r = s \o B
  OBVIOUS
<1>9. ASSUME NEW i \in 1 .. Len(q) PROVE Below(r, q[i].id)
  <2>1. /\ q[i].id \in Int /\ Below(o, q[i].id)
        /\ (c # NoPacket => c.id < q[i].id) /\ (b # NoPacket => b.id < q[i].id)
    BY <1>4 DEF Chain, Between, Above
  <2>2. Below(C, q[i].id) /\ Below(B, q[i].id)
    BY <1>2, <2>1 DEF Below
  <2>. QED
    BY <1>5, <1>6, <1>7, <1>8, <2>1, <2>2
<1>10. r \o q \in Seq(Packet) /\ Rising(r \o q) /\ Above(r \o q, l)
  BY <1>7, <1>8, <1>9, JoinRises DEF Chain
<1>. QED
  BY <1>6, <1>8, <1>10

(***************************************************************************)
(* The check of process_queues that "should never fail": the packets of a  *)
(* priority reach egress in the order of their ids, whatever was dropped   *)
(* on the way, and those on their way have the order in which they came.   *)
(***************************************************************************)
THEOREM EgressOrderIsKept == Spec => []EgressOrderHolds
<1>1. Init => PacketInv /\ ChainInv
  BY PacketInit, ChainInit
<1>2. PacketInv /\ ChainInv /\ [Next]_vars => PacketInv' /\ ChainInv'
  BY PacketStep, ChainStep DEF PacketInv
<1>3. PacketInv /\ ChainInv => EgressOrderHolds
  <2>. SUFFICES ASSUME PacketInv, ChainInv, NEW p \in Priority,
                       NEW t, t = InTransit(p),
                       NEW ids, ids = <<lastId[p]>> \o [i \in 1 .. Len(t) |-> t[i].id],
                       NEW i \in 1 .. Len(ids) - 1
                PROVE  ids[i] < ids[i + 1]
    BY DEF EgressOrderHolds
  <2>1. Links(lastId[p], outQueue[p], Hand(p), buffers[p], inQueue[p], nextId)
    BY LinksOf DEF ChainInv, PacketInv
  <2>2. Chain(lastId[p], outQueue[p], Hand(p), buffers[p], inQueue[p], nextId)
    BY DEF ChainInv, ChainOf
  <2>. DEFINE C == IF Hand(p) = NoPacket THEN <<>> ELSE <<Hand(p)>>
              B == IF buffers[p] = NoPacket THEN <<>> ELSE <<buffers[p]>>
  <2>3. t = outQueue[p] \o C \o B \o inQueue[p]
    <3>1. edfPc = "forward" => chosen # NoPacket
      BY PacketIs DEF PacketInv, PacketTypes
    <3>2. C = IF edfPc = "forward" /\ chosenOf = p THEN <<chosen>> ELSE <<>>
      BY <3>1 DEF Hand
    <3>3. B = IF buffers[p] # NoPacket THEN <<buffers[p]>> ELSE <<>>
      OBVIOUS
    <3>. HIDE DEF C, B
    <3>. QED
      BY <3>2, <3>3 DEF InTransit
  <2>4. t \in Seq(Packet) /\ Rising(t) /\ Above(t, lastId[p])
    <3>1. /\ outQueue[p] \o C \o B \o inQueue[p] \in Seq(Packet)
          /\ Rising(outQueue[p] \o C \o B \o inQueue[p])
          /\ Above(outQueue[p] \o C \o B \o inQueue[p], lastId[p])
      BY <2>1, <2>2, ChainRises
    <3>. HIDE DEF C, B
    <3>. QED
      BY <2>3, <3>1
  <2>5. PICK x : x = [j \in 1 .. Len(t) |-> t[j].id]
    OBVIOUS
  <2>6. Len(t) \in Nat /\ x \in Seq(Nat) /\ Len(x) = Len(t) /\ lastId[p] \in Int
    BY <2>4, <2>5, SeqIs DEF ChainInv
  <2>7. /\ Len(ids) = Len(t) + 1 /\ ids[1] = lastId[p]
        /\ \A j \in 1 .. Len(t) : ids[j + 1] = t[j].id
    BY <2>5, <2>6
  <2>8. CASE i = 1
    BY <2>4, <2>6, <2>7, <2>8 DEF Above
  <2>9. CASE i > 1
    <3>1. i - 1 \in 1 .. Len(t) /\ i \in 1 .. Len(t) /\ i - 1 < i
      BY <2>6, <2>7, <2>9
    <3>2. ids[i] = t[i - 1].id /\ ids[i + 1] = t[i].id
      <4>1. ids[(i - 1) + 1] = t[i - 1].id
        BY <2>7, <3>1
      <4>. QED
        BY <2>7, <3>1, <4>1
    <3>. QED
      BY <2>4, <3>1, <3>2 DEF Rising
  <2>. QED
    BY <2>6, <2>7, <2>8, <2>9
<1>. QED
  BY <1>1, <1>2, <1>3, PTL DEF Spec

-----------------------------------------------------------------------------
(* Visits. *)

\* A place of the round, without the division.
LEMMA TurnIs ==
  ASSUME NEW n \in Nat \ {0}, NEW f \in 0 .. n - 1, NEW v \in 0 .. n
  PROVE  /\ (f + v) % n \in 0 .. n - 1
         /\ v < n => (f + v) % n = IF f + v < n THEN f + v ELSE f + v - n
<1>1. PICK a \in Nat : a = f + v
  OBVIOUS
<1>2. a % n \in 0 .. n - 1
  BY SMTT(20)
<1>3. a < n => a % n = a
  BY SMTT(20)
<1>4. a >= n /\ a < 2 * n => a % n = a - n
  BY SMTT(20)
<1>. QED
  BY <1>1, <1>2, <1>3, <1>4

\* No priority has two places in the order.
LEMMA OrderDistinct ==
  \A i, j \in 1 .. Len(Order) : Order[i] = Order[j] => i = j
<1>. QED
  BY DEF Order, Used

\* How many flows are visited before place i of the order in this round.
Before(i) == IF i - 1 >= flowIndex THEN i - 1 - flowIndex ELSE i - 1 - flowIndex + Flows

\* The flows visited in this round: those before "visit", and the one being visited.
Visited(i) == Before(i) < visit \/ (Before(i) = visit /\ inPc = "poll")

VisitTypes ==
  /\ flowIndex \in 0 .. Flows - 1 /\ visit \in 0 .. Flows
  /\ inPc \in {"round", "flow", "poll", "done"}
  /\ inPc = "round" => visit = 0
  /\ inPc = "poll" => visit < Flows
  /\ inPc = "done" => ~running
  /\ visits \in [Priority -> Nat]

\* Every flow has the visits of the rounds that are over, and one more if it is visited.
Even ==
  \E r \in Nat : \A i \in 1 .. Flows : visits[Order[i]] = r + One(Visited(i))

VisitInv == Priority # {} => VisitTypes /\ (running => Even)

LEMMA FlowsIs == Flows \in Nat /\ (Priority # {} => Flows \in Nat \ {0})
BY OrderType, OrderCovers DEF Flows

LEMMA BeforeIs ==
  ASSUME VisitTypes, NEW i \in 1 .. Flows
  PROVE  Before(i) \in 0 .. Flows - 1
BY FlowsIs DEF VisitTypes, Before

LEMMA FlowIs ==
  ASSUME Priority # {}, VisitTypes, visit < Flows
  PROVE  \E k \in 1 .. Flows :
           /\ Flow = Order[k] /\ Before(k) = visit
           /\ \A i \in 1 .. Flows : Before(i) = visit => i = k
<1>1. Flows \in Nat \ {0}
  BY FlowsIs
<1>2. PICK n, f, v :
        /\ n = Flows /\ f = flowIndex /\ v = visit
        /\ n \in Nat \ {0} /\ f \in 0 .. n - 1 /\ v \in 0 .. n - 1
  BY <1>1 DEF VisitTypes
<1>3. (f + v) % n = IF f + v < n THEN f + v ELSE f + v - n
  <2>1. n \in Nat \ {0} /\ f \in 0 .. n - 1 /\ v \in 0 .. n /\ v < n
    BY <1>2
  <2>. QED
    BY <2>1, TurnIs
<1>4. PICK k : k = 1 + ((f + v) % n)
  OBVIOUS
<1>5. k = IF f + v < n THEN 1 + f + v ELSE 1 + f + v - n
  <2>1. PICK m : m = (f + v) % n
    OBVIOUS
  <2>2. m = IF f + v < n THEN f + v ELSE f + v - n
    BY <1>3, <2>1
  <2>3. k = 1 + m
    BY <1>4, <2>1
  <2>. QED
    BY <1>2, <2>2, <2>3
<1>6. Flow = Order[k]
  BY <1>2, <1>4 DEF Flow
<1>7. k \in 1 .. n /\ Before(k) = v
  BY <1>2, <1>5 DEF Before
<1>8. \A i \in 1 .. n : Before(i) = v => i = k
  BY <1>2, <1>5 DEF Before
<1>. QED
  BY <1>2, <1>6, <1>7, <1>8

LEMMA VisitInit == Init => VisitInv
<1>. SUFFICES ASSUME Init, Priority # {} PROVE VisitTypes /\ Even
  BY DEF VisitInv
<1>1. VisitTypes
  BY FlowsIs DEF Init, IngressInit, VisitTypes
<1>2. ASSUME NEW i \in 1 .. Flows PROVE visits[Order[i]] = 0 + One(Visited(i))
  <2>1. Order[i] \in Priority
    BY OrderType DEF Flows
  <2>2. ~Visited(i)
    BY <1>1, BeforeIs DEF Init, IngressInit, Visited
  <2>. QED
    BY <2>1, <2>2 DEF Init, IngressInit, One
<1>. QED
  BY <1>1, <1>2 DEF Even

\* Steps that neither begin nor end a visit or a round.
LEMMA VisitStays ==
  ASSUME VisitInv, UNCHANGED <<flowIndex, visit, visits>>,
         running' => running,
         \/ inPc' = inPc
         \/ inPc' = "done" /\ ~running
         \/ inPc = "round" /\ inPc' = "flow"
  PROVE  VisitInv'
<1>. SUFFICES ASSUME Priority # {} PROVE VisitTypes' /\ (running' => Even')
  BY DEF VisitInv
<1>1. VisitTypes /\ (running => Even)
  BY DEF VisitInv
<1>2. VisitTypes'
  BY <1>1, FlowsIs DEF VisitTypes, Flows
<1>3. ASSUME running' PROVE Even'
  <2>1. Even
    BY <1>1, <1>3
  <2>2. \A i \in 1 .. Flows : Visited(i)' = Visited(i)
    BY <1>3 DEF Visited, Before, Flows
  <2>. QED
    BY <2>1, <2>2 DEF Even, Flows
<1>. QED
  BY <1>2, <1>3

LEMMA StartFlowKeepsVisits ==
  ASSUME VisitInv, StartFlow
  PROVE  VisitInv'
<1>. SUFFICES ASSUME Priority # {} PROVE VisitTypes' /\ Even'
  BY DEF VisitInv
<1>1. VisitTypes /\ Even /\ Flows' = Flows
  BY DEF VisitInv, StartFlow, Flows
<1>2. /\ visit < Flows /\ inPc = "flow" /\ inPc' = "poll"
      /\ visit' = visit /\ flowIndex' = flowIndex
      /\ visits' = [visits EXCEPT ![Flow] = visits[Flow] + 1]
  BY DEF StartFlow
<1>3. PICK k \in 1 .. Flows :
        /\ Flow = Order[k] /\ Before(k) = visit
        /\ \A i \in 1 .. Flows : Before(i) = visit => i = k
  BY <1>1, <1>2, FlowIs
<1>4. Order[k] \in Priority /\ \A i \in 1 .. Flows : Order[i] \in Priority
  BY OrderType DEF Flows
<1>5. visits[Order[k]] + 1 \in Nat
  BY <1>1, <1>4 DEF VisitTypes
<1>6. visits' \in [Priority -> Nat]
  BY <1>1, <1>2, <1>3, <1>5 DEF VisitTypes
<1>7. VisitTypes'
  BY <1>1, <1>2, <1>6 DEF VisitTypes
<1>8. PICK r \in Nat : \A i \in 1 .. Flows : visits[Order[i]] = r + One(Visited(i))
  BY <1>1 DEF Even
<1>9. ASSUME NEW i \in 1 .. Flows PROVE visits'[Order[i]] = r + One(Visited(i)')
  <2>0. Before(i)' = Before(i) /\ Before(i) \in Int /\ visit \in Int
    BY <1>1, <1>2, BeforeIs DEF Before, VisitTypes
  <2>1. CASE i = k
    <3>1. visits'[Order[k]] = visits[Order[k]] + 1
      BY <1>1, <1>2, <1>3, <1>4 DEF VisitTypes
    <3>2. ~Visited(k) /\ Visited(k)'
      BY <1>2, <1>3, <2>0, <2>1 DEF Visited
    <3>. QED
      BY <1>8, <2>1, <3>1, <3>2 DEF One
  <2>2. CASE i # k
    <3>1. Order[i] # Order[k]
      BY <2>2, OrderDistinct DEF Flows
    <3>2. visits'[Order[i]] = visits[Order[i]]
      BY <1>1, <1>2, <1>3, <1>4, <3>1 DEF VisitTypes
    <3>3. Visited(i)' <=> Visited(i)
      BY <1>2, <1>3, <2>0, <2>2 DEF Visited
    <3>. QED
      BY <1>8, <3>2, <3>3 DEF One
  <2>. QED
    BY <2>1, <2>2
<1>10. Even'
  BY <1>1, <1>9 DEF Even
<1>. QED
  BY <1>7, <1>10

LEMMA EndFlowKeepsVisits ==
  ASSUME VisitInv, EndFlow, running' => running
  PROVE  VisitInv'
<1>. SUFFICES ASSUME Priority # {} PROVE VisitTypes' /\ (running' => Even')
  BY DEF VisitInv
<1>1. VisitTypes /\ (running => Even) /\ Flows' = Flows
  BY DEF VisitInv, EndFlow, Flows
<1>2. /\ inPc = "poll" /\ inPc' = "flow" /\ visit' = visit + 1
      /\ flowIndex' = flowIndex /\ visits' = visits
  BY DEF EndFlow
<1>3. VisitTypes'
  BY <1>1, <1>2, FlowsIs DEF VisitTypes
<1>4. ASSUME NEW i \in 1 .. Flows PROVE Visited(i)' <=> Visited(i)
  <2>1. Before(i)' = Before(i) /\ Before(i) \in Int /\ visit \in Int
    BY <1>1, <1>2, BeforeIs DEF Before, VisitTypes
  <2>. QED
    BY <1>2, <2>1 DEF Visited
<1>5. ASSUME running PROVE Even'
  <2>1. PICK r \in Nat : \A i \in 1 .. Flows : visits[Order[i]] = r + One(Visited(i))
    BY <1>1, <1>5 DEF Even
  <2>2. \A i \in 1 .. Flows : visits'[Order[i]] = r + One(Visited(i)')
    BY <1>2, <1>4, <2>1 DEF One
  <2>. QED
    BY <1>1, <2>2 DEF Even
<1>. QED
  BY <1>3, <1>5

LEMMA EndRoundKeepsVisits ==
  ASSUME VisitInv, EndRound, running' => running
  PROVE  VisitInv'
<1>. SUFFICES ASSUME Priority # {} PROVE VisitTypes' /\ (running' => Even')
  BY DEF VisitInv
<1>1. VisitTypes /\ (running => Even) /\ Flows' = Flows /\ Flows \in Nat \ {0}
  BY FlowsIs DEF VisitInv, EndRound, Flows
<1>2. /\ inPc = "flow" /\ inPc' = "round" /\ visit' = 0 /\ visits' = visits
      /\ flowIndex' = (flowIndex + 1) % Flows /\ (running => visit = Flows)
  BY DEF EndRound
<1>3. flowIndex' \in 0 .. Flows - 1
  <2>1. PICK n, f :
          n = Flows /\ f = flowIndex /\ n \in Nat \ {0} /\ f \in 0 .. n - 1
    BY <1>1 DEF VisitTypes
  <2>2. (f + 1) % n \in 0 .. n - 1
    BY <2>1, TurnIs
  <2>. QED
    BY <1>2, <2>1, <2>2
<1>4. VisitTypes'
  BY <1>1, <1>2, <1>3 DEF VisitTypes
<1>5. ASSUME running PROVE Even'
  <2>1. PICK r \in Nat : \A i \in 1 .. Flows : visits[Order[i]] = r + One(Visited(i))
    BY <1>1, <1>5 DEF Even
  <2>2. ASSUME NEW i \in 1 .. Flows PROVE visits'[Order[i]] = r + 1 + One(Visited(i)')
    <3>1. Visited(i)
      <4>1. Before(i) \in 0 .. Flows - 1 /\ visit = Flows
        BY <1>1, <1>2, <1>5, BeforeIs
      <4>. QED
        BY <1>1, <4>1 DEF Visited
    <3>2. ~Visited(i)'
      <4>1. Before(i)' \in 0 .. Flows - 1
        <5>1. PICK n \in Nat \ {0} : n = Flows
          BY <1>1
        <5>2. PICK g : g = flowIndex'
          OBVIOUS
        <5>3. Before(i)' = IF i - 1 >= g THEN i - 1 - g ELSE i - 1 - g + n
          BY <1>1, <5>1, <5>2 DEF Before
        <5>4. g \in 0 .. n - 1 /\ i \in 1 .. n
          BY <1>3, <5>1, <5>2
        <5>. QED
          BY <5>1, <5>3, <5>4
      <4>. QED
        BY <1>2, <4>1 DEF Visited
    <3>. QED
      BY <1>2, <2>1, <3>1, <3>2 DEF One
  <2>. QED
    BY <1>1, <2>2 DEF Even
<1>. QED
  BY <1>4, <1>5

LEMMA VisitStep == VisitInv /\ [Next]_vars => VisitInv'
<1>. SUFFICES ASSUME VisitInv, [Next]_vars PROVE VisitInv'
  OBVIOUS
<1>1. CASE Ingress
  <2>0. running' = running
    BY <1>1 DEF Ingress, IngressStep, StartRound, IngressExit, StartFlow, SkipSocket, ReadSocket,
                NextPass, EndFlow, EndRound, sharedVars, channelVars
  <2>1. CASE StartRound \/ IngressExit \/ SkipSocket \/ ReadSocket \/ NextPass
    <3>1. /\ flowIndex' = flowIndex /\ visits' = visits
          /\ visit' = visit \/ (inPc = "round" /\ visit' = 0)
          /\ inPc' = inPc \/ (inPc' = "done" /\ ~running) \/ (inPc = "round" /\ inPc' = "flow")
      BY <2>1 DEF StartRound, IngressExit, SkipSocket, ReadSocket, NextPass
    <3>2. Priority = {} => VisitInv'
      BY DEF VisitInv
    <3>3. Priority # {} => visit' = visit
      BY <3>1 DEF VisitInv, VisitTypes
    <3>. QED
      BY <2>0, <3>1, <3>2, <3>3, VisitStays
  <2>. QED
    BY <1>1, <2>0, <2>1, StartFlowKeepsVisits, EndFlowKeepsVisits, EndRoundKeepsVisits
    DEF Ingress, IngressStep
<1>2. CASE Edf \/ Egress \/ (Stop /\ UNCHANGED <<inQueue, ingressVars, edfVars, egressVars>>)
  <2>1. /\ flowIndex' = flowIndex /\ visits' = visits /\ visit' = visit /\ inPc' = inPc
    BY <1>2 DEF Edf, Egress, ingressVars
  <2>2. running' => running
    BY <1>2 DEF Edf, EdfStep, BeginNext, EdfExit, Fill, ChooseNone, Choose, Forward, Egress,
                EgressStep, BeginPass, EgressExit, SkipPriority, SendOut, Record, ReceiveOut,
                Stop, sharedVars, channelVars
  <2>. QED
    BY <2>1, <2>2, VisitStays
<1>3. CASE UNCHANGED vars
  BY <1>3, VisitStays DEF vars, sharedVars, channelVars, ingressVars
<1>. QED
  BY <1>1, <1>2, <1>3 DEF Next

(***************************************************************************)
(* The rotating round of process_sockets is fair for any number of flows:  *)
(* as long as the pipeline runs, no flow is more than one visit behind.    *)
(***************************************************************************)
THEOREM VisitsHold == Spec => []VisitsBalanced
<1>1. VisitInv => VisitsBalanced
  <2>. SUFFICES ASSUME VisitInv, NEW p \in Priority, NEW q \in Priority, running
                PROVE  visits[p] <= visits[q] + 1
    BY DEF VisitsBalanced
  <2>1. PICK r \in Nat : \A i \in 1 .. Flows : visits[Order[i]] = r + One(Visited(i))
    BY DEF VisitInv, Even
  <2>2. PICK i \in 1 .. Flows, j \in 1 .. Flows : Order[i] = p /\ Order[j] = q
    BY OrderCovers DEF Flows
  <2>3. visits[p] = r + One(Visited(i)) /\ visits[q] = r + One(Visited(j))
    BY <2>1, <2>2
  <2>. QED
    BY <2>3 DEF One
<1>. QED
  BY <1>1, VisitInit, VisitStep, PTL DEF Spec

=============================================================================
