--------------------------- MODULE ElasticEDFProofs ---------------------------
(***************************************************************************)
(* Three facts of ElasticEDF, for any loads, budgets and batch sizes.      *)
(*                                                                         *)
(* Balance: while a batch is being sent, its target was the least of the   *)
(* scores when it was chosen (base) and has grown by no more than most     *)
(* since.                                                                  *)
(*                                                                         *)
(* Order: seven stages lead a packet from the input channels to the buffer *)
(* of the reorder thread, and of the packets of one class those at a later *)
(* stage came first.  A step moves packets some stages on, or the one that *)
(* a worker holds one stage back.                                          *)
(*                                                                         *)
(* Conservation: each id is at one place, and a step moves some of them    *)
(* from one place to another.                                              *)
(***************************************************************************)
EXTENDS ElasticEDF, TLAPS

Packet == [id : Nat, of : Priority, ts : Nat]

\* The types of what the scores are computed from.
BalanceTypes ==
  /\ arrived \in Nat /\ clock \in Nat /\ passTime \in Nat
  /\ coming \in Seq(Priority)
  /\ inQueue \in [Priority -> Seq(Packet)]
  /\ batch \in Seq(Packet)
  /\ target \in Channel
  /\ score \in [Channel -> Nat]
  /\ base \in Nat /\ most \in Nat
  /\ dispatchPc = "send" => batch # <<>>

\* The target of a batch in the middle of being sent.
TargetWasLeast ==
  dispatchPc = "send" =>
    /\ \A c \in Channel : base <= score[c]
    /\ score[target] <= base + most

BalanceInv == BalanceTypes /\ TargetWasLeast /\ HighBalanced

-----------------------------------------------------------------------------

\* A packet adds a natural number to a score.
LEMMA WeightType ==
  ASSUME NEW packet \in Packet, NEW t \in Nat
  PROVE  Weight(packet, t) \in Nat
<1>. DEFINE slack == IF Deadline(packet) <= t THEN 0 ELSE Deadline(packet) - t
<1>1. Deadline(packet) \in Nat
  BY ElasticAssumption DEF Deadline, Packet
<1>2. slack \in Nat
  BY <1>1
<1>. HIDE DEF slack
<1>3. UnitUs * slack \in Nat
  BY <1>2, ElasticAssumption
<1>4. Weight(packet, t) = 1000 + UnitUs * slack
  BY DEF Weight, slack
<1>. QED
  BY <1>3, <1>4

\* find_best_channel returns a channel with the least score.
LEMMA BestIsLeast ==
  ASSUME score \in [Channel -> Nat]
  PROVE  /\ BestChannel \in Channel
         /\ \A d \in Channel : score[BestChannel] <= score[d]
<1>. DEFINE Least(c) ==
       \A d \in Channel : score[c] < score[d] \/ (score[c] = score[d] /\ c <= d)
<1>1. \E c \in Channel : Least(c)
  <2>1. CASE score[0] <= score[1] /\ score[0] <= score[2]
    BY <2>1 DEF Channel
  <2>2. CASE score[1] < score[0] /\ score[1] <= score[2]
    BY <2>2 DEF Channel
  <2>3. CASE score[2] < score[0] /\ score[2] < score[1]
    BY <2>3 DEF Channel
  <2>. QED
    BY <2>1, <2>2, <2>3 DEF Channel
<1>2. BestChannel = CHOOSE c \in Channel : Least(c)
  BY DEF BestChannel
<1>3. BestChannel \in Channel /\ Least(BestChannel)
  BY <1>1, <1>2
<1>. QED
  BY <1>3

LEMMA BalanceInit == Init => BalanceInv
<1>. SUFFICES ASSUME Init PROVE BalanceInv
  OBVIOUS
<1>. USE ElasticAssumption DEF Init
<1>1. BalanceTypes
  BY DEF BalanceTypes, Channel
<1>2. TargetWasLeast /\ HighBalanced
  BY DEF TargetWasLeast, HighBalanced
<1>. QED
  BY <1>1, <1>2 DEF BalanceInv

LEMMA CollectKeepsBalance == BalanceInv /\ Collect => BalanceInv'
<1>. SUFFICES ASSUME BalanceInv, Collect PROVE BalanceInv'
  OBVIOUS
<1>. USE DEF BalanceInv
<1>. DEFINE queue == inQueue["High"]
            size == IF Len(queue) <= BatchMax THEN Len(queue) ELSE BatchMax
            rest == SubSeq(queue, 1, size)
<1>1. queue \in Seq(Packet) /\ size \in Nat /\ size <= Len(queue)
  BY ElasticAssumption DEF BalanceTypes
<1>2. rest \in Seq(Packet) /\ SubSeq(queue, size + 1, Len(queue)) \in Seq(Packet)
  BY <1>1
<1>3. inQueue' \in [Priority -> Seq(Packet)]
  BY <1>2 DEF Collect, BalanceTypes
<1>4. GoOnWith(rest, BestChannel, score[BestChannel]) /\ UNCHANGED <<score, most, arrived, clock, coming>>
  BY DEF Collect
<1>5. BestChannel \in Channel /\ \A d \in Channel : score[BestChannel] <= score[d]
  BY BestIsLeast DEF BalanceTypes
<1>6. BalanceTypes'
  BY <1>2, <1>3, <1>4, <1>5 DEF BalanceTypes, GoOnWith, Channel
<1>7. TargetWasLeast'
  BY <1>4, <1>5 DEF TargetWasLeast, GoOnWith, BalanceTypes
<1>8. HighBalanced'
  BY <1>4 DEF HighBalanced
<1>. QED
  BY <1>6, <1>7, <1>8

LEMMA SendKeepsBalance == BalanceInv /\ SendHigh => BalanceInv'
<1>. SUFFICES ASSUME BalanceInv, SendHigh PROVE BalanceInv'
  OBVIOUS
<1>. USE DEF BalanceInv
<1>. DEFINE weight == Weight(Head(batch), passTime)
            added == score[target] + weight
<1>1. Head(batch) \in Packet /\ Tail(batch) \in Seq(Packet)
  BY DEF SendHigh, BalanceTypes
<1>2. weight \in Nat
  BY <1>1, WeightType DEF BalanceTypes
<1>3. /\ score' = [score EXCEPT ![target] = added]
      /\ most' = IF added - base > most THEN added - base ELSE most
      /\ GoOnWith(Tail(batch), target, base)
      /\ UNCHANGED <<inQueue, arrived, clock, coming>>
  BY DEF SendHigh
<1>4. dispatchPc = "send"
  BY DEF SendHigh
<1>. HIDE DEF weight
<1>5. /\ added \in Nat /\ score' \in [Channel -> Nat]
      /\ most' \in Nat /\ most <= most' /\ added <= base + most'
      /\ base <= added /\ score[target] <= added
  BY <1>2, <1>3, <1>4 DEF BalanceTypes, TargetWasLeast
<1>6. BalanceTypes'
  <2>1. /\ batch' \in Seq(Packet) /\ (dispatchPc' = "send" => batch' # <<>>)
        /\ target' \in Channel /\ base' \in Nat /\ passTime' \in Nat
    <3>1. CASE Tail(batch) # <<>>
      BY <1>1, <1>3, <3>1 DEF GoOnWith, BalanceTypes
    <3>2. CASE Tail(batch) = <<>>
      BY <1>1, <1>3, <3>2 DEF GoOnWith, Channel
    <3>. QED
      BY <3>1, <3>2
  <2>. QED
    BY <1>3, <1>5, <2>1 DEF BalanceTypes
<1>7. TargetWasLeast'
  BY <1>3, <1>4, <1>5 DEF TargetWasLeast, GoOnWith, BalanceTypes
<1>8. HighBalanced'
  <2>. SUFFICES ASSUME NEW c \in Channel, NEW d \in Channel
                PROVE  score'[c] <= score'[d] + most'
    BY DEF HighBalanced
  <2>1. /\ score[c] <= score[d] + most /\ base <= score[d]
        /\ score[c] \in Nat /\ score[d] \in Nat /\ most \in Nat /\ base \in Nat
    BY <1>4 DEF BalanceTypes, HighBalanced, TargetWasLeast
  <2>2. \A e \in Channel : score'[e] = IF e = target THEN added ELSE score[e]
    BY <1>3 DEF BalanceTypes
  <2>3. /\ added \in Nat /\ most' \in Nat /\ most <= most' /\ added <= base + most'
        /\ score[target] <= added
    BY <1>5
  <2>. HIDE DEF added
  <2>4. CASE c = target
    <3>1. score'[c] = added
      BY <2>2, <2>4
    <3>2. score'[d] = added \/ score'[d] = score[d]
      BY <2>2
    <3>. QED
      BY <2>1, <2>3, <3>1, <3>2
  <2>5. CASE c # target
    <3>1. score'[c] = score[c]
      BY <2>2, <2>5
    <3>2. score'[d] = score[d] \/ (d = target /\ score'[d] = added)
      BY <2>2
    <3>. QED
      BY <2>1, <2>3, <3>1, <3>2
  <2>. QED
    BY <2>4, <2>5
<1>. QED
  BY <1>6, <1>7, <1>8

\* The rest of the dispatcher moves packets and leaves the scores alone.
LEMMA DispatcherKeepsBalance == BalanceInv /\ Dispatcher => BalanceInv'
<1>. SUFFICES ASSUME BalanceInv, Dispatcher PROVE BalanceInv'
  OBVIOUS
<1>. USE DEF BalanceInv
<1>1. CASE DispatchTop
  <2>1. clock' \in Nat /\ passTime' \in Nat
    BY <1>1, ElasticAssumption DEF DispatchTop, ReadClock, BalanceTypes
  <2>. QED
    BY <1>1, <2>1 DEF DispatchTop, BalanceTypes, TargetWasLeast, HighBalanced
<1>2. CASE DispatchExit
  BY <1>2 DEF DispatchExit, BalanceTypes, TargetWasLeast, HighBalanced
<1>3. CASE Collect
  BY <1>3, CollectKeepsBalance
<1>4. CASE SendHigh
  BY <1>4, SendKeepsBalance
<1>5. CASE NothingElse
  BY <1>5 DEF NothingElse, BalanceTypes, TargetWasLeast, HighBalanced
<1>6. CASE \E i, j \in 1 .. 3 : DispatchOne(i, j)
  <2>1. PICK i \in 1 .. 3, j \in 1 .. 3 : DispatchOne(i, j)
    BY <1>6
  <2>2. Turns[j] \in Priority /\ inQueue[Turns[j]] # <<>>
    BY <2>1 DEF DispatchOne, Waiting
  <2>3. Tail(inQueue[Turns[j]]) \in Seq(Packet)
    BY <2>2 DEF BalanceTypes
  <2>4. inQueue' \in [Priority -> Seq(Packet)]
    BY <2>1, <2>3 DEF DispatchOne, BalanceTypes
  <2>5. dispatchPc' # "send"
    BY <2>1 DEF DispatchOne, Turns
  <2>. QED
    BY <2>1, <2>4, <2>5 DEF DispatchOne, BalanceTypes, TargetWasLeast, HighBalanced
<1>. QED
  BY <1>1, <1>2, <1>3, <1>4, <1>5, <1>6 DEF Dispatcher

LEMMA ArrivalKeepsBalance ==
  ASSUME NEW p \in Priority, BalanceInv, Arrive(p)
  PROVE  BalanceInv'
<1>. USE DEF BalanceInv
<1>1. clock' \in Nat /\ [id |-> arrived, of |-> p, ts |-> clock'] \in Packet
  BY ElasticAssumption DEF Arrive, ReadClock, BalanceTypes, Packet
<1>2. Tail(coming) \in Seq(Priority)
  BY DEF Arrive, BalanceTypes
<1>3. inQueue' \in [Priority -> Seq(Packet)]
  BY <1>1 DEF Arrive, BalanceTypes
<1>. QED
  BY <1>1, <1>2, <1>3
  DEF Arrive, dispatchVars, BalanceTypes, TargetWasLeast, HighBalanced

LEMMA BalanceStep == BalanceInv /\ [Next]_vars => BalanceInv'
<1>. SUFFICES ASSUME BalanceInv, [Next]_vars PROVE BalanceInv'
  OBVIOUS
<1>0. ASSUME UNCHANGED <<coming, arrived, clock, inQueue, dispatchVars>> PROVE BalanceInv'
  BY <1>0 DEF dispatchVars, BalanceInv, BalanceTypes, TargetWasLeast, HighBalanced
<1>1. CASE \E p \in Priority : Arrive(p)
  BY <1>1, ArrivalKeepsBalance
<1>2. CASE Dispatcher
  BY <1>2, DispatcherKeepsBalance
<1>3. CASE Stop
  BY <1>0, <1>3 DEF Stop
<1>4. CASE Reorder
  BY <1>0, <1>4 DEF Reorder, FillBuffer, Emit, ReorderExit
<1>5. CASE \E c \in Channel : Worker(c)
  BY <1>0, <1>5
  DEF Worker, ReceiveHigh, NoHigh, ReceiveOwn, WorkerExit, HighArrives, TimeoutExpires, Finish
<1>6. CASE UNCHANGED vars
  BY <1>0, <1>6 DEF vars
<1>. QED
  BY <1>1, <1>2, <1>3, <1>4, <1>5, <1>6 DEF Next

(***************************************************************************)
(* However the batches fall, two channels never differ by more than one    *)
(* batch has added to a score (find_best_channel and                       *)
(* record_distribution_with_slack in dispatcher_loop).                     *)
(***************************************************************************)
THEOREM BalanceHolds == Spec => []HighBalanced
<1>1. BalanceInv => HighBalanced
  BY DEF BalanceInv
<1>. QED
  BY <1>1, BalanceInit, BalanceStep, PTL DEF Spec

\* Packets of one priority, and those that are not High.
PacketOf(p) == [id : Nat, of : {p}, ts : Nat]
OtherPacket == {t \in Packet : t.of # "High"}

(***************************************************************************)
(* What each thread holds at each of its places.  The worker of channel 0  *)
(* only ever gets High packets: it processes each at once, so that nothing *)
(* queues at it.                                                           *)
(***************************************************************************)
DispatchTypes ==
  /\ \A p \in Priority : inQueue[p] \in Seq(PacketOf(p))
  /\ batch \in Seq(PacketOf("High"))
  /\ dispatchPc # "send" => batch = <<>>
  /\ highIn \in [Channel -> Seq(PacketOf("High"))]
  /\ ownIn \in [Channel -> Seq(OtherPacket)]

WorkerTypes ==
  /\ heap \in [Channel -> SUBSET Packet]
  /\ pc \in [Channel -> {"top", "drain", "wait", "process", "done"}]
  /\ task \in [Channel -> Packet \cup {NoTask}]
  /\ \A c \in Channel :
       /\ pc[c] \in {"wait", "process"} => task[c] \in Packet
       /\ pc[c] \notin {"wait", "process"} => task[c] = NoTask
  /\ emitted \in [Channel -> Seq(Packet)]
  /\ buffer \in [Channel -> Packet \cup {NoTask}]
  /\ decided \subseteq Nat
  /\ lastLeft \in [Channel -> [Priority -> Nat]]

HighChannel ==
  /\ fifo = <<>> /\ ownIn[0] = <<>> /\ heap[0] = {}
  /\ pc[0] \in {"top", "process", "done"}

FlowInv == DispatchTypes /\ WorkerTypes /\ HighChannel

-----------------------------------------------------------------------------
\* The way of a packet to channel c.
Stages == 1 .. 7

Incoming == UNION {SetOf(inQueue[p]) : p \in Priority}

StageOf(c) ==
  <<Incoming, SetOf(batch), SetOf(highIn[c]) \cup SetOf(ownIn[c]), heap[c], {task[c]} \ {NoTask},
    SetOf(emitted[c]), {buffer[c]} \ {NoTask}>>

\* t comes before u wherever both are of one class.
Before(t, u) == t.of = u.of => t.ts <= u.ts

InOrder(st, last, time) ==
  /\ \A k, l \in Stages : k < l => \A t \in st[k], u \in st[l] : Before(u, t)
  /\ \A k \in Stages : \A t \in st[k] : last[t.of] <= t.ts /\ t.ts <= time
  /\ \A p \in Priority : last[p] <= time

Sorted(s) == \A j, k \in DOMAIN s : j < k => Before(s[j], s[k])

ChainInv ==
  /\ \A c \in Channel : InOrder(StageOf(c), lastLeft[c], clock)
  /\ \A p \in Priority : Sorted(inQueue[p])
  /\ Sorted(batch)
  /\ \A c \in Channel : Sorted(highIn[c]) /\ Sorted(ownIn[c]) /\ Sorted(emitted[c])

LEMMA NoTaskIsNone == NoTask \notin Packet /\ NoTask.of = "none" /\ NoTask.id = -1
<1>1. "none" \notin Priority
  BY ElasticAssumption DEF AllPriorities
<1>. QED
  BY <1>1 DEF NoTask, Packet

LEMMA PacketsOf ==
  /\ \A p \in Priority : PacketOf(p) \subseteq Packet
  /\ OtherPacket \subseteq Packet
  /\ \A p \in Priority : p # "High" => PacketOf(p) \subseteq OtherPacket
  /\ "High" \in Priority
BY ElasticAssumption DEF PacketOf, OtherPacket, Packet

LEMMA SeqsOf ==
  /\ Seq(PacketOf("High")) \subseteq Seq(Packet)
  /\ Seq(OtherPacket) \subseteq Seq(Packet)
BY PacketsOf

LEMMA SetOfIs ==
  /\ \A S : \A s \in Seq(S) : SetOf(s) \subseteq S
  /\ SetOf(<<>>) = {}
  /\ \A s : \A i \in DOMAIN s : s[i] \in SetOf(s)
  /\ \A s : \A t \in SetOf(s) : \E i \in DOMAIN s : t = s[i]
BY DEF SetOf

\* What an urgent task comes before.
LEMMA UrgentIsFirst ==
  ASSUME NEW tasks \in SUBSET Packet, NEW t \in Urgent(tasks)
  PROVE  t \in tasks /\ \A u \in tasks : Before(t, u)
<1>1. t \in tasks /\ \A u \in tasks : VirtualDeadline(t) <= VirtualDeadline(u)
  BY DEF Urgent
<1>2. ASSUME NEW u \in tasks, t.of = u.of PROVE t.ts <= u.ts
  <2>1. /\ t.ts \in Nat /\ u.ts \in Nat /\ t.of \in Priority
    BY <1>1 DEF Packet
  <2>2. PICK k \in Nat : k = Scale(t.of) * Budget[t.of]
    BY <2>1, ElasticAssumption DEF Scale
  <2>3. VirtualDeadline(t) = 40 * t.ts + k /\ VirtualDeadline(u) = 40 * u.ts + k
    BY <1>2, <2>2 DEF VirtualDeadline
  <2>. QED
    BY <1>1, <2>1, <2>3
<1>. QED
  BY <1>1, <1>2 DEF Before

\* The worker of c takes t from what it has and what it received.
Takes(c, received, t) ==
  /\ t \in heap[c] \cup SetOf(received)
  /\ heap' = [heap EXCEPT ![c] = (heap[c] \cup SetOf(received)) \ {t}]
  /\ task' = [task EXCEPT ![c] = t]
  /\ pc' = [pc EXCEPT ![c] = PlaceOf(t)]
  /\ fifo' = fifo
  /\ \A u \in (heap[c] \cup SetOf(received)) \ {t} : Before(t, u)

LEMMA PopTakes ==
  ASSUME FlowInv, NEW c \in Channel, NEW received \in Seq(Packet), PopFrom(c, received),
         c = 0 => Len(received) = 1
  PROVE  \E t : Takes(c, received, t)
<1>0. heap \in [Channel -> SUBSET Packet] /\ fifo = <<>> /\ heap[0] = {}
  BY DEF FlowInv, WorkerTypes, HighChannel
<1>1. CASE c = 0
  <2>1. fifo \o received = received /\ Head(received) = received[1] /\ Tail(received) = <<>>
    BY <1>0, <1>1
  <2>2. /\ fifo' = fifo /\ heap' = heap
        /\ task' = [task EXCEPT ![c] = received[1]]
        /\ pc' = [pc EXCEPT ![c] = PlaceOf(received[1])]
    BY <1>0, <1>1, <2>1 DEF PopFrom
  <2>3. SetOf(received) = {received[1]}
    BY <1>1 DEF SetOf
  <2>4. heap[c] \cup SetOf(received) = {received[1]} /\ heap' = [heap EXCEPT ![c] = {}]
    BY <1>0, <1>1, <2>2, <2>3
  <2>. QED
    BY <2>2, <2>4 DEF Takes
<1>2. CASE c # 0
  <2>1. PICK t \in Urgent(heap[c] \cup SetOf(received)) :
          /\ heap' = [heap EXCEPT ![c] = (heap[c] \cup SetOf(received)) \ {t}]
          /\ task' = [task EXCEPT ![c] = t]
          /\ pc' = [pc EXCEPT ![c] = PlaceOf(t)]
          /\ fifo' = fifo
    BY <1>2 DEF PopFrom
  <2>2. heap[c] \cup SetOf(received) \subseteq Packet
    BY <1>0, SetOfIs
  <2>3. t \in heap[c] \cup SetOf(received) /\ \A u \in heap[c] \cup SetOf(received) : Before(t, u)
    BY <2>2, UrgentIsFirst
  <2>. QED
    BY <2>1, <2>3 DEF Takes
<1>. QED
  BY <1>1, <1>2

\* The two ways of taking a task.
LEMMA ReceiveHighTakes ==
  ASSUME FlowInv, NEW c \in Channel, ReceiveHigh(c)
  PROVE  /\ highIn[c] # <<>> /\ highIn' = [highIn EXCEPT ![c] = Tail(@)]
         /\ Head(highIn[c]) \in PacketOf("High")
         /\ \E t : Takes(c, <<Head(highIn[c])>>, t)
<1>1. /\ highIn[c] # <<>> /\ highIn' = [highIn EXCEPT ![c] = Tail(@)]
      /\ PopFrom(c, <<Head(highIn[c])>>)
  BY DEF ReceiveHigh, SkipReception, FlowInv, HighChannel
<1>2. Head(highIn[c]) \in PacketOf("High")
  BY <1>1 DEF FlowInv, DispatchTypes
<1>3. <<Head(highIn[c])>> \in Seq(Packet) /\ Len(<<Head(highIn[c])>>) = 1
  BY <1>2, PacketsOf
<1>. QED
  BY <1>1, <1>2, <1>3, PopTakes

LEMMA ReceiveOwnTakes ==
  ASSUME FlowInv, NEW c \in Channel, ReceiveOwn(c)
  PROVE  c # 0 /\ \E t : Takes(c, ownIn[c], t)
<1>1. c # 0 /\ PopFrom(c, ownIn[c])
  BY DEF ReceiveOwn, FlowInv, HighChannel
<1>2. ownIn[c] \in Seq(Packet)
  BY SeqsOf DEF FlowInv, DispatchTypes
<1>. QED
  BY <1>1, <1>2, PopTakes

-----------------------------------------------------------------------------

LEMMA FlowInitially == Init => FlowInv
<1>. SUFFICES ASSUME Init PROVE FlowInv
  OBVIOUS
<1>. USE DEF Init
<1>1. DispatchTypes
  BY DEF DispatchTypes
<1>2. WorkerTypes
  BY DEF WorkerTypes
<1>3. HighChannel
  BY DEF HighChannel, Channel
<1>. QED
  BY <1>1, <1>2, <1>3 DEF FlowInv

LEMMA ArriveKeepsFlow ==
  ASSUME BalanceInv, FlowInv, NEW p \in Priority, Arrive(p)
  PROVE  FlowInv'
<1>1. /\ inQueue' = [inQueue EXCEPT ![p] = Append(@, [id |-> arrived, of |-> p, ts |-> clock'])]
      /\ clock' \in Nat /\ arrived \in Nat
      /\ inQueue \in [Priority -> Seq(Packet)]
      /\ UNCHANGED <<running, dispatchVars, highIn, ownIn, workerVars, emitted, reorderVars>>
  BY ElasticAssumption DEF Arrive, ReadClock, BalanceInv, BalanceTypes
<1>2. PICK e \in PacketOf(p) : e = [id |-> arrived, of |-> p, ts |-> clock']
  BY <1>1 DEF PacketOf
<1>3. \A q \in Priority : inQueue'[q] \in Seq(PacketOf(q))
  <2>1. inQueue'[p] = Append(inQueue[p], e) /\ inQueue[p] \in Seq(PacketOf(p))
    BY <1>1, <1>2 DEF FlowInv, DispatchTypes
  <2>2. \A q \in Priority : q # p => inQueue'[q] = inQueue[q] /\ inQueue[q] \in Seq(PacketOf(q))
    BY <1>1 DEF FlowInv, DispatchTypes
  <2>. QED
    BY <2>1, <2>2
<1>. QED
  BY <1>1, <1>3
  DEF FlowInv, DispatchTypes, WorkerTypes, HighChannel, dispatchVars, workerVars, reorderVars

\* How a batch is taken, and what is left of the queue.
Batched == IF Len(inQueue["High"]) <= BatchMax THEN Len(inQueue["High"]) ELSE BatchMax

LEMMA CollectTakes ==
  ASSUME BalanceInv, FlowInv, Collect
  PROVE  /\ batch = <<>> /\ Batched \in 0 .. Len(inQueue["High"])
         /\ batch' = SubSeq(inQueue["High"], 1, Batched)
         /\ inQueue' = [inQueue EXCEPT
                           !["High"] = SubSeq(@, Batched + 1, Len(inQueue["High"]))]
         /\ dispatchPc' # "send" => batch' = <<>>
         /\ inQueue["High"] \in Seq(PacketOf("High"))
         /\ inQueue \in [Priority -> Seq(Packet)]
<1>1. inQueue["High"] \in Seq(PacketOf("High")) /\ batch = <<>>
  BY PacketsOf DEF FlowInv, DispatchTypes, Collect
<1>2. inQueue \in [Priority -> Seq(Packet)]
  BY DEF BalanceInv, BalanceTypes
<1>3. Batched \in 0 .. Len(inQueue["High"])
  BY <1>1, ElasticAssumption DEF Batched
<1>4. /\ batch' = SubSeq(inQueue["High"], 1, Batched)
      /\ dispatchPc' # "send" => batch' = <<>>
      /\ inQueue' = [inQueue EXCEPT !["High"] = SubSeq(@, Batched + 1, Len(@))]
  BY DEF Collect, GoOnWith, Batched
<1>. QED
  BY <1>1, <1>2, <1>3, <1>4

LEMMA CollectKeepsFlow ==
  ASSUME BalanceInv, FlowInv, Collect
  PROVE  FlowInv'
<1>. DEFINE q == inQueue["High"]
            n == Batched
<1>1. n \in 0 .. Len(q) /\ q \in Seq(PacketOf("High")) /\ inQueue \in [Priority -> Seq(Packet)]
  BY CollectTakes
<1>2. /\ batch' = SubSeq(q, 1, n)
      /\ inQueue' = [inQueue EXCEPT !["High"] = SubSeq(q, n + 1, Len(q))]
      /\ dispatchPc' # "send" => batch' = <<>>
  BY CollectTakes
<1>3. UNCHANGED <<highIn, ownIn, workerVars, emitted, reorderVars>>
  BY DEF Collect
<1>. HIDE DEF n
<1>4. batch' \in Seq(PacketOf("High")) /\ SubSeq(q, n + 1, Len(q)) \in Seq(PacketOf("High"))
  BY <1>1, <1>2
<1>5. \A p \in Priority : inQueue'[p] \in Seq(PacketOf(p))
  BY <1>1, <1>2, <1>4 DEF FlowInv, DispatchTypes
<1>. QED
  BY <1>2, <1>3, <1>4, <1>5
  DEF FlowInv, DispatchTypes, WorkerTypes, HighChannel, workerVars, reorderVars

LEMMA SendTakes ==
  ASSUME BalanceInv, FlowInv, SendHigh
  PROVE  /\ target \in Channel /\ batch # <<>> /\ batch \in Seq(PacketOf("High"))
         /\ batch' = Tail(batch)
         /\ Head(batch) \in PacketOf("High")
         /\ highIn' = [highIn EXCEPT ![target] = Append(@, Head(batch))]
         /\ dispatchPc' # "send" => batch' = <<>>
<1>1. target \in Channel /\ batch # <<>> /\ batch \in Seq(PacketOf("High"))
  BY DEF BalanceInv, BalanceTypes, FlowInv, DispatchTypes, SendHigh
<1>. QED
  BY <1>1 DEF SendHigh, GoOnWith

LEMMA SendKeepsFlow ==
  ASSUME BalanceInv, FlowInv, SendHigh
  PROVE  FlowInv'
<1>1. UNCHANGED <<inQueue, ownIn, workerVars, emitted, reorderVars>>
  BY DEF SendHigh
<1>2. batch' \in Seq(PacketOf("High")) /\ (dispatchPc' # "send" => batch' = <<>>)
  BY SendTakes
<1>3. highIn' \in [Channel -> Seq(PacketOf("High"))]
  <2>1. highIn \in [Channel -> Seq(PacketOf("High"))]
    BY DEF FlowInv, DispatchTypes
  <2>2. PICK h \in PacketOf("High") : h = Head(batch)
    BY SendTakes
  <2>3. highIn' = [highIn EXCEPT ![target] = Append(@, h)] /\ target \in Channel
    BY <2>2, SendTakes
  <2>. QED
    BY <2>1, <2>3
<1>. QED
  BY <1>1, <1>2, <1>3
  DEF FlowInv, DispatchTypes, WorkerTypes, HighChannel, workerVars, reorderVars

\* A packet that is not High goes to its channel.
LEMMA OneTakes ==
  ASSUME BalanceInv, FlowInv, NEW i \in 1 .. 3, NEW j \in 1 .. 3, DispatchOne(i, j)
  PROVE  \E p \in Priority :
           /\ p # "High" /\ inQueue[p] # <<>> /\ batch = <<>>
           /\ Home(p) \in Channel /\ Home(p) # 0
           /\ inQueue[p] \in Seq(PacketOf(p)) /\ Head(inQueue[p]) \in OtherPacket
           /\ ownIn' = [ownIn EXCEPT ![Home(p)] = Append(@, Head(inQueue[p]))]
           /\ inQueue' = [inQueue EXCEPT ![p] = Tail(@)]
<1>1. PICK p : p = Turns[j]
  OBVIOUS
<1>2. p \in Priority /\ p # "High" /\ inQueue[p] # <<>> /\ dispatchPc # "send"
  BY <1>1 DEF DispatchOne, Waiting, Turns
<1>3. inQueue[p] \in Seq(PacketOf(p)) /\ batch = <<>>
  BY <1>2 DEF FlowInv, DispatchTypes
<1>4. Head(inQueue[p]) \in OtherPacket
  BY <1>2, <1>3, PacketsOf
<1>5. Home(p) \in Channel /\ Home(p) # 0
  BY DEF Home, Channel
<1>6. /\ ownIn' = [ownIn EXCEPT ![Home(p)] = Append(@, Head(inQueue[p]))]
      /\ inQueue' = [inQueue EXCEPT ![p] = Tail(@)]
  BY <1>1 DEF DispatchOne
<1>. QED
  BY <1>2, <1>3, <1>4, <1>5, <1>6

LEMMA OneKeepsFlow ==
  ASSUME BalanceInv, FlowInv, NEW i \in 1 .. 3, NEW j \in 1 .. 3, DispatchOne(i, j)
  PROVE  FlowInv'
<1>1. /\ UNCHANGED <<batch, highIn, workerVars, emitted, reorderVars>>
      /\ dispatchPc # "send" /\ dispatchPc' # "send"
  BY DEF DispatchOne, Turns
<1>2. PICK p \in Priority :
           /\ Home(p) \in Channel /\ Home(p) # 0 /\ inQueue[p] # <<>>
           /\ inQueue[p] \in Seq(PacketOf(p)) /\ Head(inQueue[p]) \in OtherPacket
           /\ ownIn' = [ownIn EXCEPT ![Home(p)] = Append(@, Head(inQueue[p]))]
           /\ inQueue' = [inQueue EXCEPT ![p] = Tail(@)]
  BY OneTakes
<1>3. ownIn' \in [Channel -> Seq(OtherPacket)] /\ ownIn'[0] = ownIn[0]
  <2>1. ownIn \in [Channel -> Seq(OtherPacket)]
    BY DEF FlowInv, DispatchTypes
  <2>2. Append(ownIn[Home(p)], Head(inQueue[p])) \in Seq(OtherPacket)
    BY <1>2, <2>1
  <2>. QED
    BY <1>2, <2>1, <2>2 DEF Channel
<1>4. \A q \in Priority : inQueue'[q] \in Seq(PacketOf(q))
  <2>1. inQueue \in [Priority -> Seq(Packet)] /\ Tail(inQueue[p]) \in Seq(PacketOf(p))
    BY <1>2 DEF BalanceInv, BalanceTypes
  <2>. QED
    BY <1>2, <2>1 DEF FlowInv, DispatchTypes
<1>. QED
  BY <1>1, <1>3, <1>4
  DEF FlowInv, DispatchTypes, WorkerTypes, HighChannel, workerVars, reorderVars

\* What a worker that takes a task is left with.
LEMMA TakingKeepsWorkers ==
  ASSUME FlowInv, NEW c \in Channel, NEW received \in Seq(Packet), NEW t, Takes(c, received, t),
         c = 0 => received \in Seq(PacketOf("High")) /\ Len(received) = 1,
         UNCHANGED <<emitted, buffer, decided, lastLeft>>, ownIn'[0] = ownIn[0]
  PROVE  WorkerTypes' /\ HighChannel'
<1>1. heap[c] \cup SetOf(received) \in SUBSET Packet /\ t \in Packet
  BY SetOfIs DEF FlowInv, WorkerTypes, Takes
<1>2. PlaceOf(t) \in {"wait", "process"}
  BY DEF PlaceOf
<1>3. WorkerTypes'
  BY <1>1, <1>2 DEF FlowInv, WorkerTypes, Takes
<1>4. HighChannel'
  <2>1. CASE c = 0
    <3>1. SetOf(received) = {received[1]} /\ received[1] \in PacketOf("High")
      BY <2>1 DEF SetOf
    <3>2. t = received[1] /\ heap'[0] = {} /\ pc'[0] = PlaceOf(t) /\ fifo' = fifo
      BY <2>1, <3>1 DEF Takes, FlowInv, HighChannel, WorkerTypes
    <3>3. PlaceOf(t) = "process"
      BY <3>1, <3>2 DEF PlaceOf, PacketOf
    <3>. QED
      BY <3>2, <3>3 DEF FlowInv, HighChannel
  <2>2. CASE c # 0
    BY <2>2 DEF FlowInv, HighChannel, WorkerTypes, Takes, Channel
  <2>. QED
    BY <2>1, <2>2
<1>. QED
  BY <1>3, <1>4

LEMMA WorkerKeepsFlow ==
  ASSUME FlowInv, NEW c \in Channel, Worker(c)
  PROVE  FlowInv'
<1>0. UNCHANGED <<inQueue, dispatchPc, batch, buffer, decided, lastLeft>>
  BY DEF Worker, ReceiveHigh, NoHigh, ReceiveOwn, WorkerExit, HighArrives, TimeoutExpires,
         Finish, dispatchVars, reorderVars
<1>1. CASE ReceiveHigh(c)
  <2>1. PICK t : Takes(c, <<Head(highIn[c])>>, t)
    BY <1>1, ReceiveHighTakes
  <2>2. /\ UNCHANGED <<ownIn, emitted>> /\ highIn[c] # <<>>
        /\ highIn' = [highIn EXCEPT ![c] = Tail(@)]
        /\ Head(highIn[c]) \in PacketOf("High")
    BY <1>1, ReceiveHighTakes DEF ReceiveHigh
  <2>3. PICK r \in Seq(PacketOf("High")) : r = <<Head(highIn[c])>> /\ Len(r) = 1
    <3>1. PICK h \in PacketOf("High") : h = Head(highIn[c])
      BY <2>2
    <3>2. <<h>> \in Seq(PacketOf("High")) /\ Len(<<h>>) = 1
      OBVIOUS
    <3>. QED
      BY <3>1, <3>2
  <2>4. WorkerTypes' /\ HighChannel'
    BY <1>0, <2>1, <2>2, <2>3, TakingKeepsWorkers, SeqsOf
  <2>5. highIn' \in [Channel -> Seq(PacketOf("High"))]
    BY <2>2 DEF FlowInv, DispatchTypes
  <2>. QED
    BY <1>0, <2>2, <2>4, <2>5 DEF FlowInv, DispatchTypes
<1>2. CASE ReceiveOwn(c)
  <2>1. PICK t : Takes(c, ownIn[c], t)
    BY <1>2, ReceiveOwnTakes
  <2>2. /\ UNCHANGED <<highIn, emitted>> /\ c # 0
        /\ ownIn' = [ownIn EXCEPT ![c] = <<>>]
    BY <1>2, ReceiveOwnTakes DEF ReceiveOwn
  <2>3. ownIn' \in [Channel -> Seq(OtherPacket)] /\ ownIn'[0] = ownIn[0]
    BY <2>2 DEF FlowInv, DispatchTypes, Channel
  <2>4. ownIn[c] \in Seq(Packet)
    BY SeqsOf DEF FlowInv, DispatchTypes
  <2>5. WorkerTypes' /\ HighChannel'
    BY <1>0, <2>1, <2>2, <2>3, <2>4, TakingKeepsWorkers
  <2>. QED
    BY <1>0, <2>2, <2>3, <2>5 DEF FlowInv, DispatchTypes
<1>3. CASE NoHigh(c) \/ WorkerExit(c) \/ TimeoutExpires(c)
  <2>1. UNCHANGED <<highIn, ownIn, emitted, fifo, heap, task>>
    BY <1>3 DEF NoHigh, WorkerExit, TimeoutExpires
  <2>2. PICK a \in {"drain", "done", "process"} :
          /\ pc' = [pc EXCEPT ![c] = a]
          /\ a = "process" => pc[c] = "wait"
          /\ a # "process" => pc[c] = "top"
          /\ a = "drain" => c # 0
    BY <1>3 DEF NoHigh, WorkerExit, TimeoutExpires, FlowInv, HighChannel
  <2>3. WorkerTypes'
    BY <1>0, <2>1, <2>2 DEF FlowInv, WorkerTypes
  <2>4. HighChannel'
    BY <2>1, <2>2 DEF FlowInv, WorkerTypes, HighChannel, Channel
  <2>. QED
    BY <1>0, <2>1, <2>3, <2>4 DEF FlowInv, DispatchTypes
<1>4. CASE HighArrives(c)
  <2>1. /\ UNCHANGED <<ownIn, emitted, fifo>> /\ highIn[c] # <<>> /\ pc[c] = "wait" /\ c # 0
        /\ highIn' = [highIn EXCEPT ![c] = Tail(@)]
        /\ heap' = [heap EXCEPT ![c] = @ \cup {Head(highIn[c]), task[c]}]
        /\ task' = [task EXCEPT ![c] = NoTask]
        /\ pc' = [pc EXCEPT ![c] = "top"]
    BY <1>4 DEF HighArrives, PutBack, FlowInv, HighChannel
  <2>2. Head(highIn[c]) \in Packet /\ task[c] \in Packet
    BY <2>1, PacketsOf DEF FlowInv, DispatchTypes, WorkerTypes
  <2>3. WorkerTypes'
    BY <1>0, <2>1, <2>2 DEF FlowInv, WorkerTypes
  <2>4. HighChannel'
    BY <2>1 DEF FlowInv, WorkerTypes, HighChannel, Channel
  <2>5. highIn' \in [Channel -> Seq(PacketOf("High"))]
    BY <2>1 DEF FlowInv, DispatchTypes
  <2>. QED
    BY <1>0, <2>1, <2>3, <2>4, <2>5 DEF FlowInv, DispatchTypes
<1>5. CASE Finish(c)
  <2>1. /\ UNCHANGED <<ownIn, highIn, fifo, heap>> /\ pc[c] = "process"
        /\ emitted' = [emitted EXCEPT ![c] = Append(@, task[c])]
        /\ task' = [task EXCEPT ![c] = NoTask]
        /\ pc' = [pc EXCEPT ![c] = "top"]
    BY <1>5 DEF Finish
  <2>2. WorkerTypes'
    BY <1>0, <2>1 DEF FlowInv, WorkerTypes
  <2>3. HighChannel'
    BY <2>1 DEF FlowInv, WorkerTypes, HighChannel, Channel
  <2>. QED
    BY <1>0, <2>1, <2>2, <2>3 DEF FlowInv, DispatchTypes
<1>. QED
  BY <1>1, <1>2, <1>3, <1>4, <1>5 DEF Worker

LEMMA ReorderKeepsFlow ==
  ASSUME FlowInv, Reorder
  PROVE  FlowInv'
<1>0. UNCHANGED <<inQueue, dispatchPc, batch, highIn, ownIn, fifo, heap, pc, task>>
  BY DEF Reorder, FillBuffer, Emit, ReorderExit, dispatchVars, workerVars
<1>1. CASE \E c \in Channel : FillBuffer(c)
  <2>1. PICK c \in Channel : FillBuffer(c)
    BY <1>1
  <2>2. /\ emitted[c] # <<>> /\ UNCHANGED <<decided, lastLeft>>
        /\ buffer' = [buffer EXCEPT ![c] = Head(emitted[c])]
        /\ emitted' = [emitted EXCEPT ![c] = Tail(@)]
    BY <2>1 DEF FillBuffer, MayFill
  <2>3. Head(emitted[c]) \in Packet /\ Tail(emitted[c]) \in Seq(Packet)
    BY <2>2 DEF FlowInv, WorkerTypes
  <2>. QED
    BY <1>0, <2>2, <2>3 DEF FlowInv, DispatchTypes, WorkerTypes, HighChannel
<1>2. CASE Emit
  <2>1. PICK c \in Channel :
          /\ buffer[c] # NoTask
          /\ lastLeft' = [lastLeft EXCEPT ![c][buffer[c].of] = buffer[c].ts]
          /\ buffer' = [buffer EXCEPT ![c] = NoTask]
          /\ decided' = decided \cup {buffer[c].id}
          /\ emitted' = emitted
    BY <1>2 DEF Emit, Earliest, Buffered
  <2>2. buffer[c] \in Packet
    BY <2>1 DEF FlowInv, WorkerTypes
  <2>3. buffer[c].id \in Nat /\ buffer[c].of \in Priority /\ buffer[c].ts \in Nat
    BY <2>2 DEF Packet
  <2>4. lastLeft' \in [Channel -> [Priority -> Nat]]
    BY <2>1, <2>3 DEF FlowInv, WorkerTypes
  <2>. QED
    BY <1>0, <2>1, <2>3, <2>4 DEF FlowInv, DispatchTypes, WorkerTypes, HighChannel
<1>3. CASE ReorderExit
  BY <1>0, <1>3 DEF ReorderExit, FlowInv, DispatchTypes, WorkerTypes, HighChannel
<1>. QED
  BY <1>1, <1>2, <1>3 DEF Reorder

\* A step that moves no packet.
LEMMA StillFlow ==
  ASSUME FlowInv, dispatchPc' = dispatchPc \/ (dispatchPc # "send" /\ dispatchPc' # "send"),
         UNCHANGED <<inQueue, batch, highIn, ownIn, workerVars, emitted, buffer, decided, lastLeft>>
  PROVE  FlowInv'
BY DEF FlowInv, DispatchTypes, WorkerTypes, HighChannel, workerVars

LEMMA StepKeepsFlow == BalanceInv /\ FlowInv /\ [Next]_vars => FlowInv'
<1>. SUFFICES ASSUME BalanceInv, FlowInv, [Next]_vars PROVE FlowInv'
  OBVIOUS
<1>1. CASE \E p \in Priority : Arrive(p)
  BY <1>1, ArriveKeepsFlow
<1>2. CASE Stop \/ UNCHANGED vars
  BY <1>2, StillFlow DEF Stop, vars, dispatchVars, reorderVars
<1>3. CASE Dispatcher
  <2>1. CASE DispatchTop \/ DispatchExit \/ NothingElse
    <3>1. dispatchPc # "send" /\ dispatchPc' # "send"
      BY <2>1 DEF DispatchTop, DispatchExit, NothingElse, Turns
    <3>. QED
      BY <2>1, <3>1, StillFlow DEF DispatchTop, DispatchExit, NothingElse, reorderVars
  <2>2. CASE \E i, j \in 1 .. 3 : DispatchOne(i, j)
    BY <2>2, OneKeepsFlow
  <2>. QED
    BY <1>3, <2>1, <2>2, CollectKeepsFlow, SendKeepsFlow DEF Dispatcher
<1>. QED
  BY <1>1, <1>2, <1>3, WorkerKeepsFlow, ReorderKeepsFlow DEF Next

-----------------------------------------------------------------------------
(* The order of a class within a channel. *)

\* Some packets leave the stages, and time goes on.
LEMMA Shrinks ==
  ASSUME NEW st, NEW st2, NEW last \in [Priority -> Nat], NEW time \in Nat, NEW time2 \in Nat,
         time <= time2, \A k \in Stages : st[k] \subseteq Packet /\ st2[k] \subseteq st[k],
         InOrder(st, last, time)
  PROVE  InOrder(st2, last, time2)
<1>1. ASSUME NEW k \in Stages, NEW l \in Stages, k < l, NEW t \in st2[k], NEW u \in st2[l]
      PROVE  Before(u, t)
  BY <1>1 DEF InOrder
<1>2. ASSUME NEW k \in Stages, NEW t \in st2[k]
      PROVE  last[t.of] <= t.ts /\ t.ts <= time2
  <2>1. last[t.of] <= t.ts /\ t.ts <= time /\ t.ts \in Nat
    BY DEF InOrder, Packet
  <2>. QED
    BY <2>1
<1>3. ASSUME NEW p \in Priority PROVE last[p] <= time2
  <2>1. last[p] <= time /\ last[p] \in Nat
    BY DEF InOrder
  <2>. QED
    BY <2>1
<1>. QED
  BY <1>1, <1>2, <1>3 DEF InOrder

\* The first packets of stage k go on to stage l, past stages that are empty.
LEMMA Advances ==
  ASSUME NEW st, NEW st2, NEW last, NEW time, InOrder(st, last, time),
         NEW k \in Stages, NEW l \in Stages, k < l, NEW X, X \subseteq st[k],
         \A m \in Stages : m # l => st2[m] \subseteq st[m],
         st2[l] \subseteq st[l] \cup X,
         \A m \in Stages : k < m /\ m < l => st2[m] = {},
         \A x \in X, y \in st2[k] : Before(x, y)
  PROVE  InOrder(st2, last, time)
<1>1. \A m \in Stages : \A t \in st2[m] : (m = l /\ t \in X) \/ t \in st[m]
  OBVIOUS
<1>2. ASSUME NEW m \in Stages, NEW n \in Stages, m < n, NEW t \in st2[m], NEW u \in st2[n]
      PROVE  Before(u, t)
  <2>1. CASE t \in st[m] /\ u \in st[n]
    BY <1>2, <2>1 DEF InOrder
  <2>2. CASE n = l /\ u \in X
    <3>1. m < k \/ m = k \/ (k < m /\ m < l)
      BY <1>2, <2>2 DEF Stages
    <3>2. CASE m < k
      BY <1>2, <2>2, <3>2 DEF InOrder, Stages
    <3>3. CASE m = k
      BY <2>2, <3>3
    <3>. QED
      BY <3>1, <3>2, <3>3
  <2>3. CASE m = l /\ t \in X /\ u \in st[n]
    <3>1. k < n /\ t \in st[k]
      BY <1>2, <2>3 DEF Stages
    <3>. QED
      BY <2>3, <3>1 DEF InOrder
  <2>4. m # n
    BY <1>2 DEF Stages
  <2>. QED
    BY <1>1, <2>1, <2>2, <2>3, <2>4
<1>3. ASSUME NEW m \in Stages, NEW t \in st2[m]
      PROVE  last[t.of] <= t.ts /\ t.ts <= time
  BY <1>1 DEF InOrder
<1>. QED
  BY <1>2, <1>3 DEF InOrder

\* All of a stage goes back to the one before.
LEMMA Retreats ==
  ASSUME NEW st, NEW st2, NEW last, NEW time, InOrder(st, last, time),
         NEW k \in Stages, NEW l \in Stages, l = k + 1,
         \A m \in Stages : m # k => st2[m] \subseteq st[m],
         st2[k] \subseteq st[k] \cup st[l], st2[l] = {}
  PROVE  InOrder(st2, last, time)
<1>1. \A m \in Stages : \A t \in st2[m] : (m = k /\ t \in st[l]) \/ t \in st[m]
  OBVIOUS
<1>2. ASSUME NEW m \in Stages, NEW n \in Stages, m < n, NEW t \in st2[m], NEW u \in st2[n]
      PROVE  Before(u, t)
  <2>1. CASE t \in st[m] /\ u \in st[n]
    BY <1>2, <2>1 DEF InOrder
  <2>2. CASE n = k /\ u \in st[l]
    <3>1. m < l /\ t \in st[m]
      BY <1>1, <1>2, <2>2 DEF Stages
    <3>. QED
      BY <2>2, <3>1 DEF InOrder
  <2>3. CASE m = k /\ t \in st[l] /\ u \in st[n]
    <3>1. n = l \/ l < n
      BY <1>2, <2>3 DEF Stages
    <3>. QED
      BY <2>3, <3>1 DEF InOrder
  <2>. QED
    BY <1>1, <2>1, <2>2, <2>3
<1>3. ASSUME NEW m \in Stages, NEW t \in st2[m]
      PROVE  last[t.of] <= t.ts /\ t.ts <= time
  BY <1>1 DEF InOrder
<1>. QED
  BY <1>2, <1>3 DEF InOrder

\* A packet that comes now is the last of its class.
LEMMA Enters ==
  ASSUME NEW st, NEW st2, NEW last \in [Priority -> Nat], NEW time \in Nat, NEW e \in Packet,
         time <= e.ts, \A k \in Stages : st[k] \subseteq Packet, InOrder(st, last, time),
         st2[1] \subseteq st[1] \cup {e}, \A k \in Stages : k # 1 => st2[k] \subseteq st[k]
  PROVE  InOrder(st2, last, e.ts)
<1>0. e.ts \in Nat /\ e.of \in Priority
  BY DEF Packet
<1>1. \A m \in Stages : \A t \in st2[m] : (m = 1 /\ t = e) \/ t \in st[m]
  OBVIOUS
<1>2. ASSUME NEW m \in Stages, NEW t \in st[m]
      PROVE  last[t.of] <= t.ts /\ t.ts <= e.ts /\ Before(t, e)
  <2>1. last[t.of] <= t.ts /\ t.ts <= time /\ t.ts \in Nat
    BY DEF InOrder, Packet
  <2>. QED
    BY <1>0, <2>1 DEF Before
<1>3. ASSUME NEW p \in Priority PROVE last[p] <= e.ts
  <2>1. last[p] <= time /\ last[p] \in Nat
    BY DEF InOrder
  <2>. QED
    BY <1>0, <2>1
<1>4. ASSUME NEW m \in Stages, NEW n \in Stages, m < n, NEW t \in st2[m], NEW u \in st2[n]
      PROVE  Before(u, t)
  <2>1. u \in st[n]
    BY <1>1, <1>4 DEF Stages
  <2>2. CASE t \in st[m]
    BY <1>4, <2>1, <2>2 DEF InOrder
  <2>3. CASE t = e
    BY <1>2, <2>1, <2>3
  <2>. QED
    BY <1>1, <2>2, <2>3
<1>5. ASSUME NEW m \in Stages, NEW t \in st2[m]
      PROVE  last[t.of] <= t.ts /\ t.ts <= e.ts
  <2>1. CASE t \in st[m]
    BY <1>2, <2>1
  <2>2. CASE t = e
    BY <1>0, <1>3, <2>2
  <2>. QED
    BY <1>1, <2>1, <2>2
<1>. QED
  BY <1>3, <1>4, <1>5 DEF InOrder

\* The packet at the last stage leaves.
LEMMA Leaves ==
  ASSUME NEW st, NEW st2, NEW last \in [Priority -> Nat], NEW time \in Nat,
         \A k \in Stages : st[k] \subseteq Packet, InOrder(st, last, time),
         NEW x, st[7] = {x}, st2[7] = {}, \A k \in Stages : st2[k] \subseteq st[k]
  PROVE  /\ InOrder(st2, [last EXCEPT ![x.of] = x.ts], time)
         /\ last[x.of] <= x.ts
<1>0. x.ts \in Nat /\ x.of \in Priority /\ last[x.of] <= x.ts /\ x.ts <= time
  BY DEF InOrder, Packet, Stages
<1>. DEFINE new == [last EXCEPT ![x.of] = x.ts]
<1>1. new[x.of] = x.ts /\ \A p \in Priority : p # x.of => new[p] = last[p]
  BY <1>0
<1>. HIDE DEF new
<1>2. ASSUME NEW m \in Stages, NEW n \in Stages, m < n, NEW t \in st2[m], NEW u \in st2[n]
      PROVE  Before(u, t)
  BY <1>2 DEF InOrder
<1>3. ASSUME NEW m \in Stages, NEW t \in st2[m]
      PROVE  new[t.of] <= t.ts /\ t.ts <= time
  <2>1. m < 7 /\ 7 \in Stages /\ t \in st[m] /\ t.of \in Priority
    BY DEF Stages, Packet
  <2>2. Before(x, t) /\ last[t.of] <= t.ts /\ t.ts <= time
    BY <2>1 DEF InOrder
  <2>. QED
    BY <1>1, <2>1, <2>2 DEF Before
<1>4. \A p \in Priority : new[p] <= time
  BY <1>0, <1>1 DEF InOrder
<1>5. InOrder(st2, new, time)
  BY <1>2, <1>3, <1>4 DEF InOrder
<1>. QED
  BY <1>0, <1>5 DEF new

LEMMA AppendSorted ==
  ASSUME NEW S, NEW s \in Seq(S), NEW e \in S, Sorted(s), \A t \in SetOf(s) : Before(t, e)
  PROVE  Sorted(Append(s, e)) /\ SetOf(Append(s, e)) = SetOf(s) \cup {e}
<1>. DEFINE g == Append(s, e)
<1>1. /\ g \in Seq(S) /\ Len(g) = Len(s) + 1 /\ g[Len(g)] = e /\ Len(s) \in Nat
      /\ \A i \in 1 .. Len(s) : g[i] = s[i]
      /\ DOMAIN g = 1 .. Len(g) /\ DOMAIN s = 1 .. Len(s)
  OBVIOUS
<1>. HIDE DEF g
<1>2. \A i \in 1 .. Len(g) : i \in 1 .. Len(s) \/ i = Len(g)
  BY <1>1
<1>3. Len(g) \in 1 .. Len(g) /\ \A i \in 1 .. Len(s) : i \in 1 .. Len(g)
  BY <1>1
<1>4. SetOf(g) = SetOf(s) \cup {e}
  BY <1>1, <1>2, <1>3 DEF SetOf
<1>5. ASSUME NEW j \in 1 .. Len(g), NEW k \in 1 .. Len(g), j < k
      PROVE  Before(g[j], g[k])
  <2>1. j \in 1 .. Len(s)
    BY <1>1, <1>5
  <2>2. CASE k \in 1 .. Len(s)
    BY <1>1, <1>5, <2>1, <2>2 DEF Sorted
  <2>3. CASE k = Len(g)
    <3>1. s[j] \in SetOf(s)
      BY <1>1, <2>1, SetOfIs
    <3>. QED
      BY <1>1, <2>1, <2>3, <3>1
  <2>. QED
    BY <1>2, <2>2, <2>3
<1>6. Sorted(g)
  BY <1>1, <1>5 DEF Sorted
<1>. QED
  BY <1>4, <1>6 DEF g

\* Both parts of a sequence are sorted, and the first comes before the second.
LEMMA SplitSorted ==
  ASSUME NEW S, NEW s \in Seq(S), Sorted(s), NEW n \in 0 .. Len(s)
  PROVE  /\ Sorted(SubSeq(s, 1, n)) /\ Sorted(SubSeq(s, n + 1, Len(s)))
         /\ SetOf(SubSeq(s, 1, n)) \subseteq SetOf(s)
         /\ SetOf(SubSeq(s, n + 1, Len(s))) \subseteq SetOf(s)
         /\ \A x \in SetOf(SubSeq(s, 1, n)), y \in SetOf(SubSeq(s, n + 1, Len(s))) : Before(x, y)
<1>. DEFINE a == SubSeq(s, 1, n)
            b == SubSeq(s, n + 1, Len(s))
<1>1. /\ DOMAIN a = 1 .. n /\ DOMAIN b = 1 .. Len(s) - n /\ DOMAIN s = 1 .. Len(s)
      /\ \A i \in 1 .. n : a[i] = s[i] /\ i \in 1 .. Len(s)
      /\ \A i \in 1 .. Len(s) - n : b[i] = s[n + i] /\ n + i \in 1 .. Len(s)
      /\ Len(s) \in Nat /\ n \in Nat
  OBVIOUS
<1>. HIDE DEF a, b
<1>2. SetOf(a) \subseteq SetOf(s) /\ SetOf(b) \subseteq SetOf(s)
  BY <1>1 DEF SetOf
<1>3. Sorted(a)
  BY <1>1 DEF Sorted
<1>4. Sorted(b)
  <2>. SUFFICES ASSUME NEW j \in 1 .. Len(s) - n, NEW k \in 1 .. Len(s) - n, j < k
                PROVE  Before(b[j], b[k])
    BY <1>1 DEF Sorted
  <2>1. n + j < n + k /\ n + j \in 1 .. Len(s) /\ n + k \in 1 .. Len(s)
    BY <1>1
  <2>. QED
    BY <1>1, <2>1 DEF Sorted
<1>5. ASSUME NEW x \in SetOf(a), NEW y \in SetOf(b) PROVE Before(x, y)
  <2>1. PICK i \in 1 .. n : x = s[i] /\ i \in 1 .. Len(s)
    BY <1>1, SetOfIs
  <2>2. PICK j \in 1 .. Len(s) - n : y = s[n + j] /\ n + j \in 1 .. Len(s)
    BY <1>1, SetOfIs
  <2>3. i < n + j
    BY <1>1
  <2>. QED
    BY <1>1, <2>1, <2>2, <2>3 DEF Sorted
<1>. QED
  BY <1>2, <1>3, <1>4, <1>5 DEF a, b

LEMMA TailSorted ==
  ASSUME NEW S, NEW s \in Seq(S), s # <<>>, Sorted(s)
  PROVE  /\ Sorted(Tail(s)) /\ SetOf(Tail(s)) \subseteq SetOf(s) /\ Head(s) \in SetOf(s)
         /\ \A y \in SetOf(Tail(s)) : Before(Head(s), y)
<1>. DEFINE g == Tail(s)
<1>1. /\ DOMAIN g = 1 .. Len(s) - 1 /\ DOMAIN s = 1 .. Len(s) /\ 1 \in 1 .. Len(s)
      /\ \A i \in 1 .. Len(s) - 1 : g[i] = s[i + 1] /\ i + 1 \in 1 .. Len(s)
      /\ Head(s) = s[1]
  OBVIOUS
<1>. HIDE DEF g
<1>2. SetOf(g) \subseteq SetOf(s) /\ Head(s) \in SetOf(s)
  <2>1. ASSUME NEW x \in SetOf(g) PROVE x \in SetOf(s)
    <3>1. PICK i \in 1 .. Len(s) - 1 : x = g[i]
      BY <1>1, SetOfIs
    <3>. QED
      BY <1>1, <3>1, SetOfIs
  <2>. QED
    BY <1>1, <2>1, SetOfIs
<1>3. Sorted(g)
  <2>. SUFFICES ASSUME NEW j \in 1 .. Len(s) - 1, NEW k \in 1 .. Len(s) - 1, j < k
                PROVE  Before(g[j], g[k])
    BY <1>1 DEF Sorted
  <2>1. j + 1 < k + 1
    OBVIOUS
  <2>. QED
    BY <1>1, <2>1 DEF Sorted
<1>4. ASSUME NEW y \in SetOf(g) PROVE Before(Head(s), y)
  <2>1. PICK i \in 1 .. Len(s) - 1 : y = s[i + 1] /\ i + 1 \in 1 .. Len(s)
    BY <1>1, SetOfIs
  <2>2. 1 < i + 1
    BY <2>1
  <2>. QED
    BY <1>1, <2>1, <2>2 DEF Sorted
<1>. QED
  BY <1>2, <1>3, <1>4 DEF g

LEMMA StagesAre ==
  /\ \A k \in Stages : k = 1 \/ k = 2 \/ k = 3 \/ k = 4 \/ k = 5 \/ k = 6 \/ k = 7
  /\ 1 \in Stages /\ 2 \in Stages /\ 3 \in Stages /\ 4 \in Stages /\ 5 \in Stages
  /\ 6 \in Stages /\ 7 \in Stages
BY DEF Stages

\* The stages, now and after a step.
LEMMA StageIs ==
  ASSUME NEW c
  PROVE  /\ StageOf(c)[1] = Incoming /\ StageOf(c)[2] = SetOf(batch)
         /\ StageOf(c)[3] = SetOf(highIn[c]) \cup SetOf(ownIn[c])
         /\ StageOf(c)[4] = heap[c] /\ StageOf(c)[5] = {task[c]} \ {NoTask}
         /\ StageOf(c)[6] = SetOf(emitted[c]) /\ StageOf(c)[7] = {buffer[c]} \ {NoTask}
BY DEF StageOf

LEMMA StageBecomes ==
  ASSUME NEW c
  PROVE  /\ StageOf(c)'[1] = Incoming' /\ StageOf(c)'[2] = SetOf(batch')
         /\ StageOf(c)'[3] = SetOf(highIn'[c]) \cup SetOf(ownIn'[c])
         /\ StageOf(c)'[4] = heap'[c] /\ StageOf(c)'[5] = {task'[c]} \ {NoTask}
         /\ StageOf(c)'[6] = SetOf(emitted'[c]) /\ StageOf(c)'[7] = {buffer'[c]} \ {NoTask}
BY DEF StageOf

LEMMA IncomingIs ==
  /\ \A p \in Priority : SetOf(inQueue[p]) \subseteq Incoming
  /\ \A t \in Incoming : \E p \in Priority : t \in SetOf(inQueue[p])
  /\ \A p \in Priority : SetOf(inQueue'[p]) \subseteq Incoming'
  /\ \A t \in Incoming' : \E p \in Priority : t \in SetOf(inQueue'[p])
BY DEF Incoming

LEMMA StageTypes ==
  ASSUME BalanceInv, FlowInv, NEW c \in Channel
  PROVE  \A k \in Stages : StageOf(c)[k] \subseteq Packet
<1>1. Incoming \subseteq Packet
  BY IncomingIs, SetOfIs, PacketsOf DEF FlowInv, DispatchTypes
<1>2. SetOf(batch) \subseteq Packet
  BY SetOfIs, PacketsOf DEF FlowInv, DispatchTypes
<1>3. SetOf(highIn[c]) \cup SetOf(ownIn[c]) \subseteq Packet
  BY SetOfIs, PacketsOf DEF FlowInv, DispatchTypes
<1>4. heap[c] \subseteq Packet /\ {task[c]} \ {NoTask} \subseteq Packet
  BY DEF FlowInv, WorkerTypes
<1>5. SetOf(emitted[c]) \subseteq Packet /\ {buffer[c]} \ {NoTask} \subseteq Packet
  BY SetOfIs DEF FlowInv, WorkerTypes
<1>. QED
  BY <1>1, <1>2, <1>3, <1>4, <1>5, StagesAre, StageIs

\* What the chain is about.
LEMMA ChainTypes ==
  ASSUME BalanceInv, FlowInv, ChainInv, NEW c \in Channel
  PROVE  /\ InOrder(StageOf(c), lastLeft[c], clock)
         /\ \A k \in Stages : StageOf(c)[k] \subseteq Packet
         /\ lastLeft[c] \in [Priority -> Nat] /\ clock \in Nat
BY StageTypes DEF ChainInv, FlowInv, WorkerTypes, BalanceInv, BalanceTypes

LEMMA ChainInitially == Init => ChainInv
<1>. SUFFICES ASSUME Init PROVE ChainInv
  OBVIOUS
<1>1. /\ inQueue = [p \in Priority |-> <<>>] /\ batch = <<>> /\ clock = 0
      /\ highIn = [c \in Channel |-> <<>>] /\ ownIn = [c \in Channel |-> <<>>]
      /\ heap = [c \in Channel |-> {}] /\ task = [c \in Channel |-> NoTask]
      /\ emitted = [c \in Channel |-> <<>>] /\ buffer = [c \in Channel |-> NoTask]
      /\ lastLeft = [c \in Channel |-> [p \in Priority |-> 0]]
  BY DEF Init
<1>2. Sorted(<<>>) /\ SetOf(<<>>) = {}
  BY DEF Sorted, SetOf
<1>3. ASSUME NEW c \in Channel PROVE InOrder(StageOf(c), lastLeft[c], clock)
  <2>1. Incoming = {}
    BY <1>1, <1>2, IncomingIs
  <2>2. \A k \in Stages : StageOf(c)[k] = {}
    BY <1>1, <1>2, <2>1, StagesAre, StageIs
  <2>. QED
    BY <1>1, <2>2 DEF InOrder
<1>. QED
  BY <1>1, <1>2, <1>3 DEF ChainInv

\* Time may go on while nothing moves.
LEMMA StillChain ==
  ASSUME BalanceInv, FlowInv, ChainInv, clock' \in Nat, clock <= clock',
         UNCHANGED <<inQueue, batch, highIn, ownIn, heap, task, emitted, buffer, lastLeft>>
  PROVE  ChainInv'
<1>1. ASSUME NEW c \in Channel PROVE InOrder(StageOf(c)', lastLeft'[c], clock')
  <2>1. StageOf(c)' = StageOf(c) /\ lastLeft'[c] = lastLeft[c]
    BY DEF StageOf, Incoming
  <2>2. InOrder(StageOf(c), lastLeft[c], clock')
    BY ChainTypes, Shrinks
  <2>. QED
    BY <2>1, <2>2
<1>. QED
  BY <1>1 DEF ChainInv

LEMMA ArriveKeepsChain ==
  ASSUME BalanceInv, FlowInv, ChainInv, NEW p \in Priority, Arrive(p)
  PROVE  ChainInv'
<1>1. /\ inQueue' = [inQueue EXCEPT ![p] = Append(@, [id |-> arrived, of |-> p, ts |-> clock'])]
      /\ clock' \in Nat /\ clock <= clock' /\ arrived \in Nat
      /\ inQueue \in [Priority -> Seq(Packet)]
      /\ UNCHANGED <<batch, highIn, ownIn, heap, task, emitted, buffer, lastLeft>>
  BY ElasticAssumption
  DEF Arrive, ReadClock, BalanceInv, BalanceTypes, dispatchVars, workerVars, reorderVars
<1>2. PICK e \in Packet : e = [id |-> arrived, of |-> p, ts |-> clock'] /\ e.ts = clock'
  <2>1. clock' \in Nat /\ arrived \in Nat
    BY <1>1
  <2>2. [id |-> arrived, of |-> p, ts |-> clock'] \in Packet
    BY <2>1 DEF Packet
  <2>. QED
    BY <2>2
<1>3. /\ inQueue'[p] = Append(inQueue[p], e) /\ inQueue[p] \in Seq(Packet)
      /\ \A q \in Priority : q # p => inQueue'[q] = inQueue[q]
  BY <1>1, <1>2
<1>4. ASSUME NEW t \in SetOf(inQueue[p]) PROVE Before(t, e)
  <2>1. 0 \in Channel /\ t \in StageOf(0)[1] /\ 1 \in Stages
    BY IncomingIs, StageIs, StagesAre DEF Channel
  <2>2. t.ts <= clock /\ t.ts \in Nat /\ clock \in Nat
    BY <2>1, ChainTypes DEF InOrder, Packet
  <2>. QED
    BY <1>1, <1>2, <2>2 DEF Before
<1>5. Sorted(inQueue'[p]) /\ SetOf(inQueue'[p]) = SetOf(inQueue[p]) \cup {e}
  BY <1>3, <1>4, AppendSorted DEF ChainInv
<1>6. Incoming' \subseteq Incoming \cup {e}
  BY <1>3, <1>5, IncomingIs
<1>7. ASSUME NEW c \in Channel PROVE InOrder(StageOf(c)', lastLeft'[c], clock')
  <2>0. UNCHANGED <<batch, highIn, ownIn, heap, task, emitted, buffer>>
    BY <1>1
  <2>1. /\ StageOf(c)'[1] \subseteq StageOf(c)[1] \cup {e}
        /\ \A k \in Stages : k # 1 => StageOf(c)'[k] \subseteq StageOf(c)[k]
    BY <1>6, <2>0, StagesAre, StageIs, StageBecomes
  <2>. QED
    BY <1>1, <1>2, <2>1, ChainTypes, Enters
<1>. QED
  BY <1>1, <1>3, <1>5, <1>7 DEF ChainInv

\* Taking packets of p out of their queue, the first of them, keeps what remains behind them.
LEMMA TakenFromQueue ==
  ASSUME FlowInv, NEW p \in Priority, NEW X,
         \A q \in Priority : q # p => inQueue'[q] = inQueue[q],
         X \subseteq SetOf(inQueue[p]), SetOf(inQueue'[p]) \subseteq SetOf(inQueue[p]),
         \A x \in X, y \in SetOf(inQueue'[p]) : Before(x, y)
  PROVE  /\ X \subseteq Incoming /\ Incoming' \subseteq Incoming
         /\ \A x \in X, y \in Incoming' : Before(x, y)
<1>1. X \subseteq Incoming /\ Incoming' \subseteq Incoming
  BY IncomingIs
<1>2. ASSUME NEW x \in X, NEW y \in Incoming' PROVE Before(x, y)
  <2>1. PICK q \in Priority : y \in SetOf(inQueue'[q])
    BY IncomingIs
  <2>2. CASE q = p
    BY <2>1, <2>2
  <2>3. CASE q # p
    <3>1. x \in PacketOf(p) /\ y \in PacketOf(q)
      BY <2>1, <2>3, SetOfIs DEF FlowInv, DispatchTypes
    <3>. QED
      BY <2>3, <3>1 DEF Before, PacketOf
  <2>. QED
    BY <2>2, <2>3
<1>. QED
  BY <1>1, <1>2

LEMMA CollectKeepsChain ==
  ASSUME BalanceInv, FlowInv, ChainInv, Collect
  PROVE  ChainInv'
<1>. DEFINE q == inQueue["High"]
            n == Batched
<1>1. n \in 0 .. Len(q) /\ q \in Seq(PacketOf("High")) /\ inQueue \in [Priority -> Seq(Packet)]
  BY CollectTakes
<1>2. /\ batch' = SubSeq(q, 1, n) /\ batch = <<>>
      /\ inQueue' = [inQueue EXCEPT !["High"] = SubSeq(q, n + 1, Len(q))]
  BY CollectTakes
<1>3. UNCHANGED <<clock, highIn, ownIn, heap, task, emitted, buffer, lastLeft>>
  BY DEF Collect, workerVars, reorderVars
<1>. HIDE DEF n
<1>4. /\ "High" \in Priority /\ inQueue'["High"] = SubSeq(q, n + 1, Len(q))
      /\ \A p \in Priority : p # "High" => inQueue'[p] = inQueue[p]
  BY <1>1, <1>2, PacketsOf
<1>5. Sorted(q)
  BY PacketsOf DEF ChainInv
<1>6. /\ Sorted(batch') /\ Sorted(inQueue'["High"])
      /\ SetOf(batch') \subseteq SetOf(q) /\ SetOf(inQueue'["High"]) \subseteq SetOf(q)
      /\ \A x \in SetOf(batch'), y \in SetOf(inQueue'["High"]) : Before(x, y)
  BY <1>1, <1>2, <1>4, <1>5, SplitSorted
<1>7. PICK X : X = SetOf(batch')
  OBVIOUS
<1>8. /\ X \subseteq Incoming /\ Incoming' \subseteq Incoming
      /\ \A x \in X, y \in Incoming' : Before(x, y)
  BY <1>4, <1>6, <1>7, TakenFromQueue
<1>9. ASSUME NEW c \in Channel PROVE InOrder(StageOf(c)', lastLeft'[c], clock')
  <2>1. /\ X \subseteq StageOf(c)[1] /\ StageOf(c)'[2] \subseteq StageOf(c)[2] \cup X
        /\ \A k \in Stages : k # 2 => StageOf(c)'[k] \subseteq StageOf(c)[k]
    BY <1>3, <1>7, <1>8, StagesAre, StageIs, StageBecomes
  <2>2. \A x \in X, y \in StageOf(c)'[1] : Before(x, y)
    BY <1>8, StageBecomes
  <2>3. /\ 1 \in Stages /\ 2 \in Stages /\ 1 < 2
        /\ \A m \in Stages : 1 < m /\ m < 2 => StageOf(c)'[m] = {}
    BY DEF Stages
  <2>4. InOrder(StageOf(c)', lastLeft[c], clock)
    BY <2>1, <2>2, <2>3, ChainTypes, Advances
  <2>. QED
    BY <1>3, <2>4
<1>. QED
  BY <1>3, <1>4, <1>6, <1>9 DEF ChainInv

LEMMA SendKeepsChain ==
  ASSUME BalanceInv, FlowInv, ChainInv, SendHigh
  PROVE  ChainInv'
<1>1. UNCHANGED <<clock, inQueue, ownIn, heap, task, emitted, buffer, lastLeft>>
  BY DEF SendHigh, workerVars, reorderVars
<1>2. /\ target \in Channel /\ batch # <<>> /\ batch \in Seq(PacketOf("High"))
      /\ batch' = Tail(batch)
  BY SendTakes
<1>3. PICK h \in PacketOf("High") : h = Head(batch)
  BY SendTakes
<1>4. /\ highIn'[target] = Append(highIn[target], h)
      /\ highIn[target] \in Seq(PacketOf("High"))
      /\ \A c \in Channel : c # target => highIn'[c] = highIn[c]
  BY <1>3, SendTakes DEF FlowInv, DispatchTypes
<1>5. /\ Sorted(batch') /\ SetOf(batch') \subseteq SetOf(batch) /\ h \in SetOf(batch)
      /\ \A y \in SetOf(batch') : Before(h, y)
  BY <1>2, <1>3, TailSorted DEF ChainInv
<1>6. ASSUME NEW t \in SetOf(highIn[target]) PROVE Before(t, h)
  <2>1. t \in StageOf(target)[3] /\ h \in StageOf(target)[2] /\ 2 < 3
    BY <1>5, StageIs
  <2>. QED
    BY <1>2, <2>1, StagesAre, ChainTypes DEF InOrder
<1>7. /\ Sorted(highIn'[target])
      /\ SetOf(highIn'[target]) = SetOf(highIn[target]) \cup {h}
  BY <1>2, <1>4, <1>6, AppendSorted DEF ChainInv
<1>8. ASSUME NEW c \in Channel PROVE InOrder(StageOf(c)', lastLeft'[c], clock')
  <2>1. CASE c = target
    <3>0. PICK X : X = {h}
      OBVIOUS
    <3>1. /\ X \subseteq StageOf(c)[2] /\ StageOf(c)'[3] \subseteq StageOf(c)[3] \cup X
          /\ \A k \in Stages : k # 3 => StageOf(c)'[k] \subseteq StageOf(c)[k]
      BY <1>1, <1>5, <1>7, <2>1, <3>0, StagesAre, StageIs, StageBecomes DEF Incoming
    <3>2. \A x \in X, y \in StageOf(c)'[2] : Before(x, y)
      BY <1>5, <3>0, StageBecomes
    <3>3. /\ 2 \in Stages /\ 3 \in Stages /\ 2 < 3
          /\ \A m \in Stages : 2 < m /\ m < 3 => StageOf(c)'[m] = {}
      BY DEF Stages
    <3>4. InOrder(StageOf(c)', lastLeft[c], clock)
      BY <3>1, <3>2, <3>3, ChainTypes, Advances
    <3>. QED
      BY <1>1, <3>4
  <2>2. CASE c # target
    <3>1. \A k \in Stages : StageOf(c)'[k] \subseteq StageOf(c)[k]
      BY <1>1, <1>4, <1>5, <2>2, StagesAre, StageIs, StageBecomes DEF Incoming
    <3>2. InOrder(StageOf(c)', lastLeft[c], clock)
      BY <3>1, ChainTypes, Shrinks
    <3>. QED
      BY <1>1, <3>2
  <2>. QED
    BY <2>1, <2>2
<1>. QED
  BY <1>1, <1>2, <1>4, <1>5, <1>7, <1>8 DEF ChainInv

LEMMA OneKeepsChain ==
  ASSUME BalanceInv, FlowInv, ChainInv, NEW i \in 1 .. 3, NEW j \in 1 .. 3, DispatchOne(i, j)
  PROVE  ChainInv'
<1>1. UNCHANGED <<clock, batch, highIn, heap, task, emitted, buffer, lastLeft>>
  BY DEF DispatchOne, workerVars, reorderVars
<1>2. PICK p \in Priority :
        /\ p # "High" /\ inQueue[p] # <<>> /\ batch = <<>> /\ Home(p) \in Channel
        /\ inQueue[p] \in Seq(PacketOf(p)) /\ Head(inQueue[p]) \in OtherPacket
        /\ ownIn' = [ownIn EXCEPT ![Home(p)] = Append(@, Head(inQueue[p]))]
        /\ inQueue' = [inQueue EXCEPT ![p] = Tail(@)]
  BY OneTakes
<1>3. PICK d \in Channel : d = Home(p)
  BY <1>2
<1>4. PICK h \in OtherPacket : h = Head(inQueue[p])
  BY <1>2
<1>5. /\ ownIn'[d] = Append(ownIn[d], h) /\ ownIn[d] \in Seq(OtherPacket)
      /\ \A c \in Channel : c # d => ownIn'[c] = ownIn[c]
  BY <1>2, <1>3, <1>4 DEF FlowInv, DispatchTypes
<1>6. /\ inQueue'[p] = Tail(inQueue[p]) /\ inQueue[p] # <<>>
      /\ inQueue[p] \in Seq(PacketOf(p))
      /\ \A q \in Priority : q # p => inQueue'[q] = inQueue[q]
  <2>1. inQueue \in [Priority -> Seq(Packet)]
    BY DEF BalanceInv, BalanceTypes
  <2>. QED
    BY <1>2, <2>1
<1>7. /\ Sorted(inQueue'[p]) /\ SetOf(inQueue'[p]) \subseteq SetOf(inQueue[p])
      /\ h \in SetOf(inQueue[p]) /\ \A y \in SetOf(inQueue'[p]) : Before(h, y)
  BY <1>4, <1>6, TailSorted DEF ChainInv
<1>8. PICK X : X = {h}
  OBVIOUS
<1>9. /\ X \subseteq Incoming /\ Incoming' \subseteq Incoming
      /\ \A x \in X, y \in Incoming' : Before(x, y)
  <2>1. X \subseteq SetOf(inQueue[p]) /\ \A x \in X, y \in SetOf(inQueue'[p]) : Before(x, y)
    BY <1>7, <1>8
  <2>. QED
    BY <1>6, <1>7, <2>1, TakenFromQueue
<1>10. ASSUME NEW t \in SetOf(ownIn[d]) PROVE Before(t, h)
  <2>1. t \in StageOf(d)[3] /\ h \in StageOf(d)[1] /\ 1 < 3
    BY <1>8, <1>9, StageIs
  <2>. QED
    BY <2>1, StagesAre, ChainTypes DEF InOrder
<1>11. Sorted(ownIn'[d]) /\ SetOf(ownIn'[d]) = SetOf(ownIn[d]) \cup X
  BY <1>5, <1>8, <1>10, AppendSorted DEF ChainInv
<1>12. ASSUME NEW c \in Channel PROVE InOrder(StageOf(c)', lastLeft'[c], clock')
  <2>0. SetOf(batch) = {} /\ SetOf(batch') = {}
    BY <1>1, <1>2, SetOfIs
  <2>1. CASE c = d
    <3>1. /\ X \subseteq StageOf(c)[1] /\ StageOf(c)'[3] \subseteq StageOf(c)[3] \cup X
          /\ \A k \in Stages : k # 3 => StageOf(c)'[k] \subseteq StageOf(c)[k]
      BY <1>1, <1>9, <1>11, <2>1, StagesAre, StageIs, StageBecomes
    <3>2. \A x \in X, y \in StageOf(c)'[1] : Before(x, y)
      BY <1>9, StageBecomes
    <3>3. \A m \in Stages : 1 < m /\ m < 3 => m = 2
      BY DEF Stages
    <3>4. \A m \in Stages : 1 < m /\ m < 3 => StageOf(c)'[m] = {}
      BY <2>0, <3>3, StageBecomes
    <3>5. InOrder(StageOf(c)', lastLeft[c], clock)
      BY <3>1, <3>2, <3>4, StagesAre, ChainTypes, Advances
    <3>. QED
      BY <1>1, <3>5
  <2>2. CASE c # d
    <3>1. \A k \in Stages : StageOf(c)'[k] \subseteq StageOf(c)[k]
      BY <1>1, <1>5, <1>9, <2>2, StagesAre, StageIs, StageBecomes
    <3>2. InOrder(StageOf(c)', lastLeft[c], clock)
      BY <3>1, ChainTypes, Shrinks
    <3>. QED
      BY <1>1, <3>2
  <2>. QED
    BY <2>1, <2>2
<1>. QED
  BY <1>1, <1>5, <1>6, <1>7, <1>11, <1>12 DEF ChainInv

\* What the steps of a worker leave alone.
LEMMA OtherWorkers ==
  ASSUME FlowInv, NEW c \in Channel, Worker(c)
  PROVE  /\ UNCHANGED <<inQueue, batch, buffer, lastLeft, clock, arrived, decided>>
         /\ Incoming' = Incoming
         /\ \A d \in Channel : d # c =>
              /\ highIn'[d] = highIn[d] /\ ownIn'[d] = ownIn[d] /\ heap'[d] = heap[d]
              /\ task'[d] = task[d] /\ emitted'[d] = emitted[d]
<1>1. UNCHANGED <<inQueue, batch, buffer, lastLeft, clock, arrived, decided>>
  BY DEF Worker, ReceiveHigh, NoHigh, ReceiveOwn, WorkerExit, HighArrives, TimeoutExpires,
         Finish, dispatchVars, reorderVars
<1>2. ASSUME NEW received, NEW t, Takes(c, received, t), NEW d \in Channel, d # c
      PROVE  heap'[d] = heap[d] /\ task'[d] = task[d]
  BY <1>2 DEF Takes, FlowInv, WorkerTypes
<1>3. ASSUME NEW d \in Channel, d # c
      PROVE  /\ highIn'[d] = highIn[d] /\ ownIn'[d] = ownIn[d] /\ heap'[d] = heap[d]
             /\ task'[d] = task[d] /\ emitted'[d] = emitted[d]
  <2>0. /\ highIn \in [Channel -> Seq(PacketOf("High"))] /\ ownIn \in [Channel -> Seq(OtherPacket)]
        /\ heap \in [Channel -> SUBSET Packet] /\ emitted \in [Channel -> Seq(Packet)]
        /\ task \in [Channel -> Packet \cup {NoTask}]
    BY DEF FlowInv, DispatchTypes, WorkerTypes
  <2>1. CASE ReceiveHigh(c)
    <3>1. UNCHANGED <<ownIn, emitted>> /\ highIn'[d] = highIn[d]
      BY <1>3, <2>0, <2>1, ReceiveHighTakes DEF ReceiveHigh
    <3>2. heap'[d] = heap[d] /\ task'[d] = task[d]
      BY <1>2, <1>3, <2>1, ReceiveHighTakes
    <3>. QED
      BY <3>1, <3>2
  <2>2. CASE ReceiveOwn(c)
    <3>1. UNCHANGED <<highIn, emitted>> /\ ownIn'[d] = ownIn[d]
      BY <1>3, <2>0, <2>2 DEF ReceiveOwn
    <3>2. heap'[d] = heap[d] /\ task'[d] = task[d]
      BY <1>2, <1>3, <2>2, ReceiveOwnTakes
    <3>. QED
      BY <3>1, <3>2
  <2>3. CASE HighArrives(c)
    BY <1>3, <2>0, <2>3 DEF HighArrives
  <2>4. CASE Finish(c)
    BY <1>3, <2>0, <2>4 DEF Finish
  <2>5. CASE NoHigh(c) \/ WorkerExit(c) \/ TimeoutExpires(c)
    BY <2>5 DEF NoHigh, WorkerExit, TimeoutExpires
  <2>. QED
    BY <2>1, <2>2, <2>3, <2>4, <2>5 DEF Worker
<1>4. Incoming' = Incoming
  BY <1>1 DEF Incoming
<1>. QED
  BY <1>1, <1>3, <1>4

\* The other channels stay in order.
LEMMA OthersInOrder ==
  ASSUME BalanceInv, FlowInv, ChainInv, NEW c \in Channel, Worker(c), NEW d \in Channel, d # c
  PROVE  InOrder(StageOf(d)', lastLeft'[d], clock')
<1>0. /\ UNCHANGED <<batch, buffer>> /\ Incoming' = Incoming
      /\ highIn'[d] = highIn[d] /\ ownIn'[d] = ownIn[d] /\ heap'[d] = heap[d]
      /\ task'[d] = task[d] /\ emitted'[d] = emitted[d]
  BY OtherWorkers
<1>1. StageOf(d)' = StageOf(d)
  BY <1>0 DEF StageOf
<1>2. InOrder(StageOf(d)', lastLeft[d], clock)
  BY <1>1, ChainTypes
<1>. QED
  BY <1>2, OtherWorkers

(***************************************************************************)
(* Taking a task is two moves: what was received joins what waits, and the *)
(* most urgent of all goes on.                                             *)
(***************************************************************************)
LEMMA TakingInOrder ==
  ASSUME BalanceInv, FlowInv, ChainInv, NEW c \in Channel, Worker(c),
         NEW received \in Seq(Packet), NEW t, Takes(c, received, t), task[c] = NoTask,
         emitted' = emitted, SetOf(received) \subseteq SetOf(highIn[c]) \cup SetOf(ownIn[c]),
         SetOf(highIn'[c]) \subseteq SetOf(highIn[c]), SetOf(ownIn'[c]) \subseteq SetOf(ownIn[c]),
         \A x \in SetOf(received), y \in SetOf(highIn'[c]) \cup SetOf(ownIn'[c]) : Before(x, y)
  PROVE  InOrder(StageOf(c)', lastLeft'[c], clock')
<1>1. /\ heap'[c] = (heap[c] \cup SetOf(received)) \ {t} /\ task'[c] = t
      /\ t \in heap[c] \cup SetOf(received)
      /\ \A u \in (heap[c] \cup SetOf(received)) \ {t} : Before(t, u)
  BY DEF Takes, FlowInv, WorkerTypes
<1>2. PICK R, L : R = SetOf(received) /\ L = SetOf(highIn'[c]) \cup SetOf(ownIn'[c])
  OBVIOUS
<1>3. PICK mid : mid = <<Incoming, SetOf(batch), L, heap[c] \cup R, {}, SetOf(emitted[c]),
                         {buffer[c]} \ {NoTask}>>
  OBVIOUS
<1>4. /\ mid[1] = Incoming /\ mid[2] = SetOf(batch) /\ mid[3] = L /\ mid[4] = heap[c] \cup R
      /\ mid[5] = {} /\ mid[6] = SetOf(emitted[c]) /\ mid[7] = {buffer[c]} \ {NoTask}
  BY <1>3
<1>5. InOrder(mid, lastLeft[c], clock)
  <2>1. /\ R \subseteq StageOf(c)[3] /\ mid[4] \subseteq StageOf(c)[4] \cup R
        /\ \A k \in Stages : k # 4 => mid[k] \subseteq StageOf(c)[k]
    BY <1>2, <1>4, StagesAre, StageIs
  <2>2. \A x \in R, y \in mid[3] : Before(x, y)
    BY <1>2, <1>4
  <2>3. /\ 3 \in Stages /\ 4 \in Stages /\ 3 < 4
        /\ \A m \in Stages : 3 < m /\ m < 4 => mid[m] = {}
    BY DEF Stages
  <2>. QED
    BY <2>1, <2>2, <2>3, ChainTypes, Advances
<1>6. PICK X : X = {t}
  OBVIOUS
<1>7. InOrder(StageOf(c)', lastLeft[c], clock)
  <2>0. UNCHANGED <<batch, buffer>> /\ Incoming' = Incoming
    BY OtherWorkers
  <2>1. /\ X \subseteq mid[4] /\ StageOf(c)'[5] \subseteq mid[5] \cup X
        /\ \A k \in Stages : k # 5 => StageOf(c)'[k] \subseteq mid[k]
    BY <1>1, <1>2, <1>4, <1>6, <2>0, StagesAre, StageBecomes
  <2>2. \A x \in X, y \in StageOf(c)'[4] : Before(x, y)
    BY <1>1, <1>6, StageBecomes
  <2>3. /\ 4 \in Stages /\ 5 \in Stages /\ 4 < 5
        /\ \A m \in Stages : 4 < m /\ m < 5 => StageOf(c)'[m] = {}
    BY DEF Stages
  <2>. QED
    BY <1>5, <2>1, <2>2, <2>3, Advances
<1>. QED
  BY <1>7, OtherWorkers

\* Sorted channels and order at the worker that moved are all there is to show.
LEMMA WorkerChain ==
  ASSUME BalanceInv, FlowInv, ChainInv, NEW c \in Channel, Worker(c),
         InOrder(StageOf(c)', lastLeft'[c], clock'),
         Sorted(highIn'[c]), Sorted(ownIn'[c]), Sorted(emitted'[c])
  PROVE  ChainInv'
<1>1. \A d \in Channel : InOrder(StageOf(d)', lastLeft'[d], clock')
  BY OthersInOrder
<1>2. \A d \in Channel : Sorted(highIn'[d]) /\ Sorted(ownIn'[d]) /\ Sorted(emitted'[d])
  BY OtherWorkers DEF ChainInv
<1>. QED
  BY <1>1, <1>2, OtherWorkers DEF ChainInv

LEMMA ReceiveHighKeepsChain ==
  ASSUME BalanceInv, FlowInv, ChainInv, NEW c \in Channel, ReceiveHigh(c)
  PROVE  ChainInv'
<1>1. Worker(c) /\ task[c] = NoTask /\ UNCHANGED <<ownIn, emitted>>
  BY DEF ReceiveHigh, Worker, FlowInv, WorkerTypes
<1>2. PICK h \in PacketOf("High") : h = Head(highIn[c])
  BY ReceiveHighTakes
<1>3. PICK t : Takes(c, <<h>>, t)
  BY <1>2, ReceiveHighTakes
<1>4. PICK r \in Seq(Packet) : r = <<h>> /\ SetOf(r) = {h}
  <2>1. <<h>> \in Seq(Packet) /\ SetOf(<<h>>) = {h}
    BY PacketsOf DEF SetOf
  <2>. QED
    BY <2>1
<1>5. /\ highIn'[c] = Tail(highIn[c]) /\ highIn[c] # <<>>
      /\ highIn[c] \in Seq(PacketOf("High")) /\ ownIn[c] \in Seq(OtherPacket)
  BY ReceiveHighTakes DEF FlowInv, DispatchTypes
<1>6. /\ Sorted(highIn'[c]) /\ SetOf(highIn'[c]) \subseteq SetOf(highIn[c])
      /\ h \in SetOf(highIn[c]) /\ \A y \in SetOf(highIn'[c]) : Before(h, y)
  BY <1>2, <1>5, TailSorted DEF ChainInv
<1>7. ASSUME NEW y \in SetOf(ownIn[c]) PROVE Before(h, y)
  <2>1. y \in OtherPacket
    BY <1>5, SetOfIs
  <2>. QED
    BY <2>1 DEF Before, OtherPacket, PacketOf
<1>8. InOrder(StageOf(c)', lastLeft'[c], clock')
  <2>1. /\ SetOf(r) \subseteq SetOf(highIn[c]) \cup SetOf(ownIn[c])
        /\ SetOf(ownIn'[c]) \subseteq SetOf(ownIn[c])
        /\ \A x \in SetOf(r), y \in SetOf(highIn'[c]) \cup SetOf(ownIn'[c]) : Before(x, y)
    BY <1>1, <1>4, <1>6, <1>7
  <2>2. Takes(c, r, t)
    BY <1>3, <1>4
  <2>. QED
    BY <1>1, <1>6, <2>1, <2>2, TakingInOrder
<1>9. Sorted(ownIn'[c]) /\ Sorted(emitted'[c])
  BY <1>1 DEF ChainInv
<1>. QED
  BY <1>1, <1>6, <1>8, <1>9, WorkerChain

LEMMA ReceiveOwnKeepsChain ==
  ASSUME BalanceInv, FlowInv, ChainInv, NEW c \in Channel, ReceiveOwn(c)
  PROVE  ChainInv'
<1>1. /\ Worker(c) /\ task[c] = NoTask /\ UNCHANGED <<highIn, emitted>>
      /\ ownIn'[c] = <<>>
  BY DEF ReceiveOwn, Worker, FlowInv, WorkerTypes, DispatchTypes
<1>2. PICK t : Takes(c, ownIn[c], t)
  BY ReceiveOwnTakes
<1>3. ownIn[c] \in Seq(OtherPacket) /\ ownIn[c] \in Seq(Packet)
      /\ highIn[c] \in Seq(PacketOf("High"))
  BY SeqsOf DEF FlowInv, DispatchTypes
<1>4. SetOf(ownIn'[c]) = {} /\ Sorted(ownIn'[c])
  BY <1>1, SetOfIs DEF Sorted
<1>5. ASSUME NEW x \in SetOf(ownIn[c]), NEW y \in SetOf(highIn[c]) PROVE Before(x, y)
  <2>1. x \in OtherPacket /\ y \in PacketOf("High")
    BY <1>3, SetOfIs
  <2>. QED
    BY <2>1 DEF Before, OtherPacket, PacketOf
<1>6. InOrder(StageOf(c)', lastLeft'[c], clock')
  BY <1>1, <1>2, <1>3, <1>4, <1>5, TakingInOrder
<1>7. Sorted(highIn'[c]) /\ Sorted(emitted'[c])
  BY <1>1 DEF ChainInv
<1>. QED
  BY <1>1, <1>4, <1>6, <1>7, WorkerChain

\* A High packet joins what waits, and the task that waited for it goes back there.
LEMMA HighArrivesKeepsChain ==
  ASSUME BalanceInv, FlowInv, ChainInv, NEW c \in Channel, HighArrives(c)
  PROVE  ChainInv'
<1>1. /\ Worker(c) /\ UNCHANGED <<ownIn, emitted>>
      /\ highIn'[c] = Tail(highIn[c]) /\ highIn[c] # <<>>
      /\ highIn[c] \in Seq(PacketOf("High")) /\ ownIn[c] \in Seq(OtherPacket)
      /\ task'[c] = NoTask /\ task[c] # NoTask
      /\ heap'[c] = heap[c] \cup {Head(highIn[c]), task[c]}
  BY NoTaskIsNone DEF HighArrives, PutBack, Worker, FlowInv, DispatchTypes, WorkerTypes
<1>2. PICK h \in PacketOf("High") : h = Head(highIn[c])
  BY <1>1
<1>3. /\ Sorted(highIn'[c]) /\ SetOf(highIn'[c]) \subseteq SetOf(highIn[c])
      /\ h \in SetOf(highIn[c]) /\ \A y \in SetOf(highIn'[c]) : Before(h, y)
  BY <1>1, <1>2, TailSorted DEF ChainInv
<1>4. ASSUME NEW y \in SetOf(ownIn[c]) PROVE Before(h, y)
  <2>1. y \in OtherPacket
    BY <1>1, SetOfIs
  <2>. QED
    BY <2>1 DEF Before, OtherPacket, PacketOf
<1>5. PICK X, L : X = {h} /\ L = SetOf(highIn'[c]) \cup SetOf(ownIn[c])
  OBVIOUS
<1>6. PICK mid : mid = <<Incoming, SetOf(batch), L, heap[c] \cup X, {task[c]} \ {NoTask},
                         SetOf(emitted[c]), {buffer[c]} \ {NoTask}>>
  OBVIOUS
<1>7. /\ mid[1] = Incoming /\ mid[2] = SetOf(batch) /\ mid[3] = L /\ mid[4] = heap[c] \cup X
      /\ mid[5] = {task[c]} \ {NoTask} /\ mid[6] = SetOf(emitted[c])
      /\ mid[7] = {buffer[c]} \ {NoTask}
  BY <1>6
<1>8. InOrder(mid, lastLeft[c], clock)
  <2>1. /\ X \subseteq StageOf(c)[3] /\ mid[4] \subseteq StageOf(c)[4] \cup X
        /\ \A k \in Stages : k # 4 => mid[k] \subseteq StageOf(c)[k]
    BY <1>3, <1>5, <1>7, StagesAre, StageIs
  <2>2. \A x \in X, y \in mid[3] : Before(x, y)
    BY <1>3, <1>4, <1>5, <1>7
  <2>3. /\ 3 \in Stages /\ 4 \in Stages /\ 3 < 4
        /\ \A m \in Stages : 3 < m /\ m < 4 => mid[m] = {}
    BY DEF Stages
  <2>. QED
    BY <2>1, <2>2, <2>3, ChainTypes, Advances
<1>9. InOrder(StageOf(c)', lastLeft[c], clock)
  <2>0. UNCHANGED <<batch, buffer>> /\ Incoming' = Incoming
    BY <1>1, OtherWorkers
  <2>1. /\ StageOf(c)'[4] \subseteq mid[4] \cup mid[5] /\ StageOf(c)'[5] = {}
        /\ \A k \in Stages : k # 4 => StageOf(c)'[k] \subseteq mid[k]
    <3>1. heap'[c] \subseteq mid[4] \cup mid[5]
      BY <1>1, <1>2, <1>5, <1>7
    <3>2. /\ Incoming' = mid[1] /\ SetOf(batch') = mid[2]
          /\ SetOf(highIn'[c]) \cup SetOf(ownIn'[c]) = mid[3]
          /\ {task'[c]} \ {NoTask} = {}
          /\ SetOf(emitted'[c]) = mid[6] /\ {buffer'[c]} \ {NoTask} = mid[7]
      BY <1>1, <1>5, <1>7, <2>0
    <3>. QED
      BY <3>1, <3>2, StagesAre, StageBecomes
  <2>2. 4 \in Stages /\ 5 \in Stages /\ 5 = 4 + 1
    BY DEF Stages
  <2>. QED
    BY <1>8, <2>1, <2>2, Retreats
<1>10. Sorted(ownIn'[c]) /\ Sorted(emitted'[c])
  BY <1>1 DEF ChainInv
<1>11. InOrder(StageOf(c)', lastLeft'[c], clock')
  BY <1>1, <1>9, OtherWorkers
<1>. QED
  BY <1>1, <1>3, <1>10, <1>11, WorkerChain

LEMMA FinishKeepsChain ==
  ASSUME BalanceInv, FlowInv, ChainInv, NEW c \in Channel, Finish(c)
  PROVE  ChainInv'
<1>1. /\ Worker(c) /\ UNCHANGED <<ownIn, highIn, heap>>
      /\ emitted'[c] = Append(emitted[c], task[c]) /\ task[c] \in Packet
      /\ emitted[c] \in Seq(Packet) /\ task'[c] = NoTask
  BY DEF Finish, Worker, FlowInv, WorkerTypes
<1>2. task[c] # NoTask
  BY <1>1, NoTaskIsNone
<1>3. PICK X : X = {task[c]}
  OBVIOUS
<1>4. ASSUME NEW t \in SetOf(emitted[c]) PROVE Before(t, task[c])
  <2>1. t \in StageOf(c)[6] /\ task[c] \in StageOf(c)[5] /\ 5 < 6
    BY <1>2, StageIs
  <2>. QED
    BY <2>1, StagesAre, ChainTypes DEF InOrder
<1>5. Sorted(emitted'[c]) /\ SetOf(emitted'[c]) = SetOf(emitted[c]) \cup X
  BY <1>1, <1>3, <1>4, AppendSorted DEF ChainInv
<1>6. InOrder(StageOf(c)', lastLeft[c], clock)
  <2>0. UNCHANGED <<batch, buffer>> /\ Incoming' = Incoming
    BY <1>1, OtherWorkers
  <2>1. /\ X \subseteq StageOf(c)[5] /\ StageOf(c)'[6] \subseteq StageOf(c)[6] \cup X
        /\ StageOf(c)'[5] = {}
        /\ \A k \in Stages : k # 6 => StageOf(c)'[k] \subseteq StageOf(c)[k]
    <3>1. /\ X \subseteq {task[c]} \ {NoTask} /\ {task'[c]} \ {NoTask} = {}
          /\ SetOf(emitted'[c]) \subseteq SetOf(emitted[c]) \cup X
      BY <1>1, <1>2, <1>3, <1>5
    <3>2. UNCHANGED <<ownIn, highIn, heap>>
      BY <1>1
    <3>. QED
      BY <2>0, <3>1, <3>2, StagesAre, StageIs, StageBecomes
  <2>2. /\ 5 \in Stages /\ 6 \in Stages /\ 5 < 6
        /\ \A m \in Stages : 5 < m /\ m < 6 => StageOf(c)'[m] = {}
    BY DEF Stages
  <2>3. \A x \in X, y \in StageOf(c)'[5] : Before(x, y)
    BY <2>1
  <2>. QED
    BY <2>1, <2>2, <2>3, ChainTypes, Advances
<1>7. InOrder(StageOf(c)', lastLeft'[c], clock')
  BY <1>1, <1>6, OtherWorkers
<1>8. Sorted(highIn'[c]) /\ Sorted(ownIn'[c])
  BY <1>1 DEF ChainInv
<1>. QED
  BY <1>1, <1>5, <1>7, <1>8, WorkerChain

LEMMA FillKeepsChain ==
  ASSUME BalanceInv, FlowInv, ChainInv, NEW c \in Channel, FillBuffer(c)
  PROVE  ChainInv'
<1>1. /\ UNCHANGED <<clock, inQueue, batch, highIn, ownIn, heap, task, lastLeft>>
      /\ emitted[c] # <<>> /\ buffer[c] = NoTask
      /\ buffer' = [buffer EXCEPT ![c] = Head(emitted[c])]
      /\ emitted' = [emitted EXCEPT ![c] = Tail(@)]
  BY DEF FillBuffer, MayFill, dispatchVars, workerVars
<1>2. PICK h : h = Head(emitted[c])
  OBVIOUS
<1>3. /\ emitted[c] \in Seq(Packet) /\ emitted'[c] = Tail(emitted[c]) /\ buffer'[c] = h
      /\ \A d \in Channel : d # c => emitted'[d] = emitted[d] /\ buffer'[d] = buffer[d]
  BY <1>1, <1>2 DEF FlowInv, WorkerTypes
<1>4. /\ Sorted(emitted'[c]) /\ SetOf(emitted'[c]) \subseteq SetOf(emitted[c])
      /\ h \in SetOf(emitted[c]) /\ \A y \in SetOf(emitted'[c]) : Before(h, y)
  BY <1>1, <1>2, <1>3, TailSorted DEF ChainInv
<1>5. Incoming' = Incoming
  BY <1>1 DEF Incoming
<1>6. PICK X : X = {h}
  OBVIOUS
<1>7. InOrder(StageOf(c)', lastLeft[c], clock)
  <2>1. /\ X \subseteq StageOf(c)[6] /\ StageOf(c)'[7] \subseteq StageOf(c)[7] \cup X
        /\ \A k \in Stages : k # 7 => StageOf(c)'[k] \subseteq StageOf(c)[k]
    <3>1. X \subseteq SetOf(emitted[c]) /\ {buffer'[c]} \ {NoTask} \subseteq X
      BY <1>3, <1>4, <1>6
    <3>2. UNCHANGED <<batch, highIn, ownIn, heap, task>>
      BY <1>1
    <3>. QED
      BY <1>4, <1>5, <3>1, <3>2, StagesAre, StageIs, StageBecomes
  <2>2. \A x \in X, y \in StageOf(c)'[6] : Before(x, y)
    BY <1>4, <1>6, StageBecomes
  <2>3. /\ 6 \in Stages /\ 7 \in Stages /\ 6 < 7
        /\ \A m \in Stages : 6 < m /\ m < 7 => StageOf(c)'[m] = {}
    BY DEF Stages
  <2>. QED
    BY <2>1, <2>2, <2>3, ChainTypes, Advances
<1>8. ASSUME NEW d \in Channel, d # c PROVE InOrder(StageOf(d)', lastLeft[d], clock)
  <2>1. StageOf(d)' = StageOf(d)
    BY <1>1, <1>3, <1>5, <1>8 DEF StageOf
  <2>. QED
    BY <2>1, ChainTypes
<1>9. \A d \in Channel : InOrder(StageOf(d)', lastLeft'[d], clock')
  BY <1>1, <1>7, <1>8
<1>. QED
  BY <1>1, <1>3, <1>4, <1>9 DEF ChainInv

\* What leaves is no older than what left before.
LEMMA EmitKeepsChain ==
  ASSUME BalanceInv, FlowInv, ChainInv, Emit
  PROVE  /\ ChainInv'
         /\ \A c \in Channel, p \in Priority : lastLeft[c][p] <= lastLeft'[c][p]
<1>1. PICK c \in Channel :
        /\ buffer[c] # NoTask
        /\ lastLeft' = [lastLeft EXCEPT ![c][buffer[c].of] = buffer[c].ts]
        /\ buffer' = [buffer EXCEPT ![c] = NoTask]
  BY DEF Emit, Earliest, Buffered
<1>2. /\ UNCHANGED <<clock, inQueue, batch, highIn, ownIn, heap, task, emitted>>
      /\ Incoming' = Incoming
  BY DEF Emit, Incoming, dispatchVars, workerVars
<1>3. PICK x \in Packet : x = buffer[c]
  BY <1>1 DEF FlowInv, WorkerTypes
<1>4. x # NoTask /\ x.of \in Priority /\ x.ts \in Nat
  BY <1>1, <1>3 DEF Packet
<1>5. /\ buffer'[c] = NoTask /\ lastLeft'[c] = [lastLeft[c] EXCEPT ![x.of] = x.ts]
      /\ lastLeft[c] \in [Priority -> Nat]
      /\ \A d \in Channel : d # c => buffer'[d] = buffer[d] /\ lastLeft'[d] = lastLeft[d]
      /\ \A d \in Channel : lastLeft[d] \in [Priority -> Nat]
  BY <1>1, <1>3 DEF FlowInv, WorkerTypes
<1>6. /\ InOrder(StageOf(c)', [lastLeft[c] EXCEPT ![x.of] = x.ts], clock)
      /\ lastLeft[c][x.of] <= x.ts
  <2>1. StageOf(c)[7] = {x}
    BY <1>3, <1>4, StageIs
  <2>2. StageOf(c)'[7] = {}
    BY <1>5, StageBecomes
  <2>3. \A k \in Stages : StageOf(c)'[k] \subseteq StageOf(c)[k]
    BY <1>2, <2>2, StagesAre, StageIs, StageBecomes
  <2>. QED
    BY <1>4, <2>1, <2>2, <2>3, ChainTypes, Leaves
<1>7. ASSUME NEW d \in Channel, d # c PROVE InOrder(StageOf(d)', lastLeft'[d], clock')
  <2>1. StageOf(d)' = StageOf(d) /\ lastLeft'[d] = lastLeft[d]
    BY <1>2, <1>5, <1>7 DEF StageOf
  <2>. QED
    BY <1>2, <2>1, ChainTypes
<1>8. \A d \in Channel : InOrder(StageOf(d)', lastLeft'[d], clock')
  <2>1. InOrder(StageOf(c)', lastLeft'[c], clock')
    BY <1>2, <1>5, <1>6
  <2>. QED
    BY <1>7, <2>1
<1>9. ASSUME NEW d \in Channel, NEW p \in Priority PROVE lastLeft[d][p] <= lastLeft'[d][p]
  <2>1. CASE d = c
    <3>1. lastLeft'[c][p] = IF p = x.of THEN x.ts ELSE lastLeft[c][p]
      BY <1>4, <1>5
    <3>2. lastLeft[c][p] \in Nat
      BY <1>5
    <3>. QED
      BY <1>6, <2>1, <3>1, <3>2
  <2>2. CASE d # c
    <3>1. lastLeft'[d] = lastLeft[d] /\ lastLeft[d][p] \in Nat
      BY <1>5, <2>2
    <3>. QED
      BY <3>1
  <2>. QED
    BY <2>1, <2>2
<1>. QED
  BY <1>2, <1>8, <1>9 DEF ChainInv

LEMMA WorkerKeepsChain ==
  ASSUME BalanceInv, FlowInv, ChainInv, NEW c \in Channel, Worker(c)
  PROVE  ChainInv'
<1>1. CASE NoHigh(c) \/ WorkerExit(c) \/ TimeoutExpires(c)
  <2>1. /\ UNCHANGED <<clock, inQueue, batch, highIn, ownIn, heap, task, emitted, buffer, lastLeft>>
        /\ clock \in Nat
    BY <1>1
    DEF NoHigh, WorkerExit, TimeoutExpires, dispatchVars, reorderVars, BalanceInv, BalanceTypes
  <2>2. clock' \in Nat /\ clock <= clock'
    BY <2>1
  <2>. QED
    BY <2>1, <2>2, StillChain
<1>. QED
  BY <1>1, ReceiveHighKeepsChain, ReceiveOwnKeepsChain, HighArrivesKeepsChain, FinishKeepsChain
  DEF Worker

LEMMA StepKeepsChain == BalanceInv /\ FlowInv /\ ChainInv /\ [Next]_vars => ChainInv'
<1>. SUFFICES ASSUME BalanceInv, FlowInv, ChainInv, [Next]_vars PROVE ChainInv'
  OBVIOUS
<1>0. clock \in Nat
  BY DEF BalanceInv, BalanceTypes
<1>1. CASE \E p \in Priority : Arrive(p)
  BY <1>1, ArriveKeepsChain
<1>2. CASE Stop \/ ReorderExit \/ DispatchExit \/ NothingElse \/ UNCHANGED vars
  <2>1. UNCHANGED <<clock, inQueue, batch, highIn, ownIn, heap, task, emitted, buffer, lastLeft>>
    BY <1>2
    DEF Stop, ReorderExit, DispatchExit, NothingElse, vars, dispatchVars, workerVars, reorderVars
  <2>2. clock' \in Nat /\ clock <= clock'
    BY <1>0, <2>1
  <2>. QED
    BY <2>1, <2>2, StillChain
<1>3. CASE DispatchTop
  <2>1. UNCHANGED <<inQueue, batch, highIn, ownIn, heap, task, emitted, buffer, lastLeft>>
    BY <1>3 DEF DispatchTop, workerVars, reorderVars
  <2>2. clock' \in Nat /\ clock <= clock'
    BY <1>0, <1>3, ElasticAssumption DEF DispatchTop, ReadClock
  <2>. QED
    BY <2>1, <2>2, StillChain
<1>4. CASE \E i, j \in 1 .. 3 : DispatchOne(i, j)
  BY <1>4, OneKeepsChain
<1>5. CASE Collect \/ SendHigh
  BY <1>5, CollectKeepsChain, SendKeepsChain
<1>6. CASE Emit \/ \E c \in Channel : FillBuffer(c)
  BY <1>6, EmitKeepsChain, FillKeepsChain
<1>7. CASE \E c \in Channel : Worker(c)
  BY <1>7, WorkerKeepsChain
<1>. QED
  BY <1>1, <1>2, <1>3, <1>4, <1>5, <1>6, <1>7 DEF Next, Dispatcher, Reorder

(***************************************************************************)
(* In each channel of mc_edf_elastic.rs the packets of a class leave the   *)
(* reorder thread in the order in which they arrived: neither a batch, nor *)
(* the task put back when a High packet comes in its wait                  *)
(* (edf_worker_loop), nor the heap changes it.                             *)
(***************************************************************************)
THEOREM ChannelOrderHolds == Spec => ChannelOrder
<1>. DEFINE Kept == \A c \in Channel, p \in Priority : lastLeft[c][p] <= lastLeft'[c][p]
<1>1. Init => BalanceInv /\ FlowInv /\ ChainInv
  BY BalanceInit, FlowInitially, ChainInitially
<1>2. BalanceInv /\ FlowInv /\ ChainInv /\ [Next]_vars => (BalanceInv /\ FlowInv /\ ChainInv)'
  BY BalanceStep, StepKeepsFlow, StepKeepsChain
<1>3. BalanceInv /\ FlowInv /\ ChainInv /\ [Next]_vars => [Kept]_lastLeft
  <2>. SUFFICES ASSUME BalanceInv, FlowInv, ChainInv, [Next]_vars, lastLeft' # lastLeft PROVE Kept
    OBVIOUS
  <2>1. Emit
    BY DEF Next, Arrive, Stop, Dispatcher, DispatchTop, DispatchExit, Collect, SendHigh,
           NothingElse, DispatchOne, Worker, ReceiveHigh, NoHigh, ReceiveOwn, WorkerExit,
           HighArrives, TimeoutExpires, Finish, Reorder, FillBuffer, ReorderExit, vars,
           reorderVars
  <2>. QED
    BY <2>1, EmitKeepsChain
<1>. QED
  BY <1>1, <1>2, <1>3, PTL DEF Spec, ChannelOrder

-----------------------------------------------------------------------------
(* Conservation: a step moves packets from a place to one or two others. *)

At(kind, x) == <<kind, x>>

LEMMA AtDiffer == \A k, x, j, y : At(k, x) = At(j, y) => k = j /\ x = y
BY DEF At

LEMMA SpotsAre ==
  /\ \A p \in Priority : At("input", p) \in Spot
  /\ \A c \in Channel : /\ At("high", c) \in Spot /\ At("own", c) \in Spot
                        /\ At("heap", c) \in Spot /\ At("hand", c) \in Spot
                        /\ At("emitted", c) \in Spot /\ At("buffer", c) \in Spot
  /\ At("batch", 0) \in Spot /\ At("fifo", 0) \in Spot /\ At("decided", 0) \in Spot
  /\ \A l \in Spot : \/ \E p \in Priority : l = At("input", p)
                     \/ \E c \in Channel : \/ l = At("high", c) \/ l = At("own", c)
                                           \/ l = At("heap", c) \/ l = At("hand", c)
                                           \/ l = At("emitted", c) \/ l = At("buffer", c)
                     \/ l = At("batch", 0) \/ l = At("fifo", 0) \/ l = At("decided", 0)
BY DEF Spot, At

\* The id of the packet that is in hand or in a buffer, if any.
IdOf(t) == IdsOf({t})

\* The ids at each place, now and after a step.
LEMMA IdsAre ==
  /\ \A p : IdsAt(At("input", p)) = IdsOf(SetOf(inQueue[p]))
  /\ \A c : /\ IdsAt(At("high", c)) = IdsOf(SetOf(highIn[c]))
            /\ IdsAt(At("own", c)) = IdsOf(SetOf(ownIn[c]))
            /\ IdsAt(At("heap", c)) = IdsOf(heap[c])
            /\ IdsAt(At("hand", c)) = IdOf(task[c])
            /\ IdsAt(At("emitted", c)) = IdsOf(SetOf(emitted[c]))
            /\ IdsAt(At("buffer", c)) = IdOf(buffer[c])
  /\ IdsAt(At("batch", 0)) = IdsOf(SetOf(batch))
  /\ IdsAt(At("fifo", 0)) = IdsOf(SetOf(fifo))
  /\ IdsAt(At("decided", 0)) = decided
BY DEF IdsAt, IdOf, At

LEMMA IdsBecome ==
  /\ \A p : IdsAt(At("input", p))' = IdsOf(SetOf(inQueue'[p]))
  /\ \A c : /\ IdsAt(At("high", c))' = IdsOf(SetOf(highIn'[c]))
            /\ IdsAt(At("own", c))' = IdsOf(SetOf(ownIn'[c]))
            /\ IdsAt(At("heap", c))' = IdsOf(heap'[c])
            /\ IdsAt(At("hand", c))' = IdOf(task'[c])
            /\ IdsAt(At("emitted", c))' = IdsOf(SetOf(emitted'[c]))
            /\ IdsAt(At("buffer", c))' = IdOf(buffer'[c])
  /\ IdsAt(At("batch", 0))' = IdsOf(SetOf(batch'))
  /\ IdsAt(At("fifo", 0))' = IdsOf(SetOf(fifo'))
  /\ IdsAt(At("decided", 0))' = decided'
BY DEF IdsAt, IdOf, At

\* Each of the ids below n is in one place, and there are no others.
Apart(at, n) ==
  /\ \A l \in Spot : \A i \in at[l] : i \in 0 .. n - 1
  /\ \A i \in 0 .. n - 1 : \E l \in Spot : i \in at[l]
  /\ \A l, m \in Spot : \A i \in at[l] : i \in at[m] => l = m

\* The packets of X go from place a to place b.
Moved(at, at2, a, b, X) ==
  /\ a # b /\ X \subseteq at[a]
  /\ at2[a] = at[a] \ X /\ at2[b] = at[b] \cup X
  /\ \A l \in Spot : l # a /\ l # b => at2[l] = at[l]

LEMMA Moves ==
  ASSUME NEW at, NEW at2, NEW n, NEW a \in Spot, NEW b \in Spot, NEW X,
         Apart(at, n), Moved(at, at2, a, b, X)
  PROVE  Apart(at2, n)
<1>. USE DEF Moved
<1>1. ASSUME NEW x \in X PROVE x \in 0 .. n - 1 /\ \A l \in Spot : x \in at[l] => l = a
  BY DEF Apart
<1>2. ASSUME NEW l \in Spot, NEW i \in at2[l]
      PROVE  i \in 0 .. n - 1 /\ (i \in X => l = b) /\ (i \notin X => i \in at[l])
  <2>1. CASE l = a
    BY <1>1, <1>2, <2>1 DEF Apart
  <2>2. CASE l = b
    BY <1>1, <1>2, <2>2 DEF Apart
  <2>3. CASE l # a /\ l # b
    BY <1>1, <1>2, <2>3 DEF Apart
  <2>. QED
    BY <2>1, <2>2, <2>3
<1>3. ASSUME NEW i \in 0 .. n - 1
      PROVE  \E l \in Spot : i \in at2[l]
  <2>1. CASE i \in X
    BY <2>1
  <2>2. CASE i \notin X
    <3>1. PICK l \in Spot : i \in at[l]
      BY DEF Apart
    <3>. QED
      BY <2>2, <3>1
  <2>. QED
    BY <2>1, <2>2
<1>4. ASSUME NEW l \in Spot, NEW m \in Spot, NEW i \in at2[l], i \in at2[m]
      PROVE  l = m
  <2>1. CASE i \in X
    BY <1>2, <1>4, <2>1
  <2>2. CASE i \notin X
    BY <1>2, <1>4, <2>2 DEF Apart
  <2>. QED
    BY <2>1, <2>2
<1>. QED
  BY <1>2, <1>3, <1>4 DEF Apart

\* A packet that was nowhere comes.
LEMMA Comes ==
  ASSUME NEW at, NEW at2, NEW n \in Nat, NEW a \in Spot, Apart(at, n),
         at2[a] = at[a] \cup {n}, \A l \in Spot : l # a => at2[l] = at[l]
  PROVE  Apart(at2, n + 1)
<1>1. \A i : i \in 0 .. (n + 1) - 1 <=> i \in 0 .. n - 1 \/ i = n
  OBVIOUS
<1>2. n \notin 0 .. n - 1
  OBVIOUS
<1>3. ASSUME NEW l \in Spot, NEW i \in at2[l]
      PROVE  (i = n /\ l = a) \/ (i # n /\ i \in at[l] /\ i \in 0 .. n - 1)
  BY <1>2, <1>3 DEF Apart
<1>4. \A i \in 0 .. (n + 1) - 1 : \E l \in Spot : i \in at2[l]
  <2>. SUFFICES ASSUME NEW i \in 0 .. (n + 1) - 1 PROVE \E l \in Spot : i \in at2[l]
    OBVIOUS
  <2>1. CASE i = n
    BY <2>1
  <2>2. CASE i \in 0 .. n - 1
    <3>1. PICK l \in Spot : i \in at[l]
      BY <2>2 DEF Apart
    <3>. QED
      BY <3>1
  <2>. QED
    BY <1>1, <2>1, <2>2
<1>5. ASSUME NEW l \in Spot, NEW m \in Spot, NEW i \in at2[l], i \in at2[m]
      PROVE  l = m
  BY <1>3, <1>5 DEF Apart
<1>. QED
  BY <1>1, <1>3, <1>4, <1>5 DEF Apart

\* The ids at every place.
Where == [l \in Spot |-> IdsAt(l)]

LEMMA WhereIs ==
  /\ \A l \in Spot : Where[l] = IdsAt(l)
  /\ \A l \in Spot : Where'[l] = IdsAt(l)'
BY DEF Where

\* A step that moves the packets X from a to b.
LEMMA StepMoves ==
  ASSUME NEW a \in Spot, NEW b \in Spot, NEW X, a # b, Apart(Where, arrived),
         X \subseteq IdsAt(a), IdsAt(a)' = IdsAt(a) \ X, IdsAt(b)' = IdsAt(b) \cup X,
         \A l \in Spot : l # a /\ l # b => IdsAt(l)' = IdsAt(l),
         arrived' = arrived
  PROVE  Apart(Where', arrived')
<1>1. Moved(Where, Where', a, b, X)
  BY WhereIs DEF Moved
<1>. QED
  BY <1>1, Moves

\* The first of two moves.
LEMMA Midway ==
  ASSUME NEW a \in Spot, NEW b \in Spot, NEW X, a # b, X \subseteq IdsAt(a)
  PROVE  \E mid : Moved(Where, mid, a, b, X)
<1>1. PICK mid : mid = [l \in Spot |-> IF l = a THEN IdsAt(a) \ X
                                      ELSE IF l = b THEN IdsAt(b) \cup X ELSE IdsAt(l)]
  OBVIOUS
<1>2. /\ mid[a] = IdsAt(a) \ X /\ mid[b] = IdsAt(b) \cup X
      /\ \A l \in Spot : l # a /\ l # b => mid[l] = IdsAt(l)
  BY <1>1
<1>3. Moved(Where, mid, a, b, X)
  BY <1>2, WhereIs DEF Moved
<1>. QED
  BY <1>3

\* One that moves X from a to b, and then Y from b to c.
LEMMA StepMovesOn ==
  ASSUME NEW a \in Spot, NEW b \in Spot, NEW c \in Spot, a # b, b # c, a # c, NEW X, NEW Y,
         Apart(Where, arrived), X \subseteq IdsAt(a), Y \subseteq IdsAt(b) \cup X,
         IdsAt(a)' = IdsAt(a) \ X, IdsAt(b)' = (IdsAt(b) \cup X) \ Y,
         IdsAt(c)' = IdsAt(c) \cup Y,
         \A l \in Spot : l # a /\ l # b /\ l # c => IdsAt(l)' = IdsAt(l),
         arrived' = arrived
  PROVE  Apart(Where', arrived')
<1>1. PICK mid : Moved(Where, mid, a, b, X)
  BY Midway
<1>2. /\ mid[a] = IdsAt(a) \ X /\ mid[b] = IdsAt(b) \cup X
      /\ \A l \in Spot : l # a /\ l # b => mid[l] = IdsAt(l)
  BY <1>1, WhereIs DEF Moved
<1>3. Moved(mid, Where', b, c, Y)
  <2>1. Y \subseteq mid[b] /\ Where'[b] = mid[b] \ Y /\ Where'[c] = mid[c] \cup Y
    BY <1>2, WhereIs
  <2>2. \A l \in Spot : l # b /\ l # c => Where'[l] = mid[l]
    BY <1>2, WhereIs
  <2>. QED
    BY <2>1, <2>2 DEF Moved
<1>4. Apart(mid, arrived)
  BY <1>1, Moves
<1>. QED
  BY <1>3, <1>4, Moves

\* One that moves X from a and Y from c to b.
LEMMA StepGathers ==
  ASSUME NEW a \in Spot, NEW b \in Spot, NEW c \in Spot, a # b, b # c, a # c, NEW X, NEW Y,
         Apart(Where, arrived), X \subseteq IdsAt(a), Y \subseteq IdsAt(c),
         IdsAt(a)' = IdsAt(a) \ X, IdsAt(b)' = (IdsAt(b) \cup X) \cup Y,
         IdsAt(c)' = IdsAt(c) \ Y,
         \A l \in Spot : l # a /\ l # b /\ l # c => IdsAt(l)' = IdsAt(l),
         arrived' = arrived
  PROVE  Apart(Where', arrived')
<1>1. PICK mid : Moved(Where, mid, a, b, X)
  BY Midway
<1>2. /\ mid[a] = IdsAt(a) \ X /\ mid[b] = IdsAt(b) \cup X
      /\ \A l \in Spot : l # a /\ l # b => mid[l] = IdsAt(l)
  BY <1>1, WhereIs DEF Moved
<1>3. Moved(mid, Where', c, b, Y)
  <2>1. Y \subseteq mid[c] /\ Where'[c] = mid[c] \ Y /\ Where'[b] = mid[b] \cup Y
    BY <1>2, WhereIs
  <2>2. \A l \in Spot : l # b /\ l # c => Where'[l] = mid[l]
    BY <1>2, WhereIs
  <2>. QED
    BY <2>1, <2>2 DEF Moved
<1>4. Apart(mid, arrived)
  BY <1>1, Moves
<1>. QED
  BY <1>3, <1>4, Moves

LEMMA IdOfIs == IdOf(NoTask) = {} /\ \A t \in Packet : IdOf(t) = {t.id} /\ t.id \in Nat
<1>1. ASSUME NEW t \in Packet PROVE IdOf(t) = {t.id} /\ t.id \in Nat
  <2>1. t.id \in Nat /\ t.id # NoTask.id
    BY NoTaskIsNone DEF Packet
  <2>. QED
    BY <2>1 DEF IdsOf, IdOf
<1>2. IdOf(NoTask) = {}
  BY DEF IdsOf, IdOf
<1>. QED
  BY <1>1, <1>2

LEMMA SetIds ==
  ASSUME NEW g \in SUBSET Packet, NEW h \in SUBSET Packet
  PROVE  /\ \A t \in g : t.id \in IdsOf(g)
         /\ \A x \in IdsOf(g) : \E t \in g : x = t.id
         /\ IdsOf(g \cup h) = IdsOf(g) \cup IdsOf(h)
         /\ OneEach(g) /\ OneEach(h) /\ IdsOf(g) \cap IdsOf(h) = {} => OneEach(g \cup h)
<1>1. \A t \in g \cup h : t.id # NoTask.id
  BY NoTaskIsNone DEF Packet
<1>2. (\A t \in g : t.id \in IdsOf(g)) /\ (\A t \in h : t.id \in IdsOf(h))
  BY <1>1 DEF IdsOf
<1>3. \A x \in IdsOf(g) : \E t \in g : x = t.id
  BY DEF IdsOf
<1>4. IdsOf(g \cup h) = IdsOf(g) \cup IdsOf(h)
  BY <1>1 DEF IdsOf
<1>5. OneEach(g) /\ OneEach(h) /\ IdsOf(g) \cap IdsOf(h) = {} => OneEach(g \cup h)
  BY <1>2 DEF OneEach
<1>. QED
  BY <1>2, <1>3, <1>4, <1>5

\* One task leaves a heap.
LEMMA RemoveId ==
  ASSUME NEW h \in SUBSET Packet, OneEach(h), NEW t \in h
  PROVE  /\ t.id \in IdsOf(h) /\ IdsOf(h \ {t}) = IdsOf(h) \ {t.id} /\ OneEach(h \ {t})
<1>1. t.id \in IdsOf(h) /\ \A x \in IdsOf(h) : \E u \in h : x = u.id
  BY SetIds
<1>2. ASSUME NEW x \in IdsOf(h \ {t}) PROVE x \in IdsOf(h) \ {t.id}
  <2>1. PICK u \in h \ {t} : x = u.id
    BY SetIds
  <2>2. x \in IdsOf(h)
    BY <2>1, SetIds
  <2>. QED
    BY <2>1, <2>2 DEF OneEach
<1>3. ASSUME NEW x \in IdsOf(h) \ {t.id} PROVE x \in IdsOf(h \ {t})
  <2>1. PICK u \in h : x = u.id
    BY <1>1
  <2>2. u \in h \ {t} /\ h \ {t} \in SUBSET Packet
    BY <2>1, <1>3
  <2>. QED
    BY <2>1, <2>2, SetIds
<1>4. OneEach(h \ {t})
  BY DEF OneEach
<1>. QED
  BY <1>1, <1>2, <1>3, <1>4

LEMMA QueueIds ==
  ASSUME NEW s \in Seq(Packet)
  PROVE  /\ \A i \in 1 .. Len(s) : s[i].id \in IdsOf(SetOf(s))
         /\ \A x \in IdsOf(SetOf(s)) : \E i \in 1 .. Len(s) : s[i].id = x
         /\ Distinct(s) => OneEach(SetOf(s))
<1>1. DOMAIN s = 1 .. Len(s) /\ SetOf(s) \in SUBSET Packet
  BY SetOfIs
<1>2. \A i \in 1 .. Len(s) : s[i].id \in IdsOf(SetOf(s))
  BY <1>1, SetOfIs, SetIds
<1>3. ASSUME NEW x \in IdsOf(SetOf(s)) PROVE \E i \in 1 .. Len(s) : s[i].id = x
  <2>1. PICK t \in SetOf(s) : x = t.id
    BY <1>1, SetIds
  <2>. QED
    BY <1>1, <2>1, SetOfIs
<1>4. ASSUME Distinct(s) PROVE OneEach(SetOf(s))
  <2>. SUFFICES ASSUME NEW t \in SetOf(s), NEW u \in SetOf(s), t.id = u.id PROVE t = u
    BY DEF OneEach
  <2>1. PICK i \in 1 .. Len(s), j \in 1 .. Len(s) : t = s[i] /\ u = s[j]
    BY <1>1, SetOfIs
  <2>. QED
    BY <1>1, <1>4, <2>1 DEF Distinct
<1>. QED
  BY <1>2, <1>3, <1>4

LEMMA AppendIds ==
  ASSUME NEW s \in Seq(Packet), NEW e \in Packet, Distinct(s), e.id \notin IdsOf(SetOf(s))
  PROVE  /\ IdsOf(SetOf(Append(s, e))) = IdsOf(SetOf(s)) \cup {e.id}
         /\ Distinct(Append(s, e))
<1>. DEFINE g == Append(s, e)
<1>1. /\ g \in Seq(Packet) /\ Len(g) = Len(s) + 1 /\ g[Len(g)] = e /\ Len(s) \in Nat
      /\ \A i \in 1 .. Len(s) : g[i] = s[i]
      /\ DOMAIN g = 1 .. Len(g) /\ DOMAIN s = 1 .. Len(s)
  OBVIOUS
<1>. HIDE DEF g
<1>2. \A i \in 1 .. Len(g) : i \in 1 .. Len(s) \/ i = Len(g)
  BY <1>1
<1>3. Len(g) \in 1 .. Len(g) /\ \A i \in 1 .. Len(s) : i \in 1 .. Len(g)
  BY <1>1
<1>4. \A x \in IdsOf(SetOf(g)) : x \in IdsOf(SetOf(s)) \cup {e.id}
  <2>. SUFFICES ASSUME NEW x \in IdsOf(SetOf(g)) PROVE x \in IdsOf(SetOf(s)) \cup {e.id}
    OBVIOUS
  <2>1. PICK i \in 1 .. Len(g) : g[i].id = x
    BY <1>1, QueueIds
  <2>2. CASE i \in 1 .. Len(s)
    BY <1>1, <2>1, <2>2, QueueIds
  <2>3. CASE i = Len(g)
    BY <1>1, <2>1, <2>3
  <2>. QED
    BY <1>2, <2>2, <2>3
<1>5. \A x \in IdsOf(SetOf(s)) : x \in IdsOf(SetOf(g))
  <2>. SUFFICES ASSUME NEW x \in IdsOf(SetOf(s)) PROVE x \in IdsOf(SetOf(g))
    OBVIOUS
  <2>1. PICK i \in 1 .. Len(s) : s[i].id = x
    BY QueueIds
  <2>2. g[i].id = x /\ i \in 1 .. Len(g)
    BY <1>1, <1>3, <2>1
  <2>. QED
    BY <1>1, <2>2, QueueIds
<1>6. e.id \in IdsOf(SetOf(g))
  <2>1. g[Len(g)].id \in IdsOf(SetOf(g))
    BY <1>1, <1>3, QueueIds
  <2>. QED
    BY <1>1, <2>1
<1>7. ASSUME NEW j \in 1 .. Len(g), NEW k \in 1 .. Len(g), g[j].id = g[k].id
      PROVE  j = k
  <2>1. CASE j \in 1 .. Len(s) /\ k \in 1 .. Len(s)
    BY <1>1, <1>7, <2>1 DEF Distinct
  <2>2. ASSUME NEW i \in 1 .. Len(s) PROVE g[i].id # g[Len(g)].id
    BY <1>1, QueueIds
  <2>. QED
    BY <1>2, <1>7, <2>1, <2>2
<1>8. Distinct(g)
  BY <1>1, <1>7 DEF Distinct
<1>9. IdsOf(SetOf(g)) = IdsOf(SetOf(s)) \cup {e.id}
  BY <1>4, <1>5, <1>6
<1>. QED
  BY <1>8, <1>9 DEF g

LEMMA SplitIds ==
  ASSUME NEW s \in Seq(Packet), Distinct(s), NEW n \in 0 .. Len(s)
  PROVE  /\ Distinct(SubSeq(s, 1, n)) /\ Distinct(SubSeq(s, n + 1, Len(s)))
         /\ IdsOf(SetOf(SubSeq(s, 1, n))) \subseteq IdsOf(SetOf(s))
         /\ IdsOf(SetOf(SubSeq(s, n + 1, Len(s)))) =
              IdsOf(SetOf(s)) \ IdsOf(SetOf(SubSeq(s, 1, n)))
<1>. DEFINE a == SubSeq(s, 1, n)
            b == SubSeq(s, n + 1, Len(s))
<1>1. /\ a \in Seq(Packet) /\ b \in Seq(Packet) /\ Len(a) = n /\ Len(b) = Len(s) - n
      /\ DOMAIN a = 1 .. n /\ DOMAIN b = 1 .. Len(s) - n /\ DOMAIN s = 1 .. Len(s)
      /\ \A i \in 1 .. n : a[i] = s[i] /\ i \in 1 .. Len(s)
      /\ \A i \in 1 .. Len(s) - n : b[i] = s[n + i] /\ n + i \in 1 .. Len(s)
      /\ Len(s) \in Nat /\ n \in Nat
  OBVIOUS
<1>. HIDE DEF a, b
<1>2. Distinct(a)
  BY <1>1 DEF Distinct
<1>3. Distinct(b)
  <2>. SUFFICES ASSUME NEW j \in 1 .. Len(s) - n, NEW k \in 1 .. Len(s) - n, b[j].id = b[k].id
                PROVE  j = k
    BY <1>1 DEF Distinct
  <2>0. /\ s[n + j].id = s[n + k].id /\ n + j \in DOMAIN s /\ n + k \in DOMAIN s
    BY <1>1
  <2>1. n + j = n + k
    BY <2>0 DEF Distinct
  <2>. QED
    BY <1>1, <2>1
<1>4. ASSUME NEW x \in IdsOf(SetOf(a)) PROVE x \in IdsOf(SetOf(s))
  <2>1. PICK i \in 1 .. n : a[i].id = x
    BY <1>1, QueueIds
  <2>. QED
    BY <1>1, <2>1, QueueIds
<1>5. ASSUME NEW x \in IdsOf(SetOf(b)) PROVE x \in IdsOf(SetOf(s)) \ IdsOf(SetOf(a))
  <2>1. PICK i \in 1 .. Len(s) - n : b[i].id = x
    BY <1>1, QueueIds
  <2>2. s[n + i].id = x /\ n + i \in 1 .. Len(s)
    BY <1>1, <2>1
  <2>3. x \in IdsOf(SetOf(s))
    BY <2>2, QueueIds
  <2>4. ASSUME x \in IdsOf(SetOf(a)) PROVE FALSE
    <3>1. PICK j \in 1 .. n : a[j].id = x
      BY <1>1, <2>4, QueueIds
    <3>2. j = n + i
      BY <1>1, <2>2, <3>1 DEF Distinct
    <3>. QED
      BY <1>1, <3>2
  <2>. QED
    BY <2>3, <2>4
<1>6. ASSUME NEW x \in IdsOf(SetOf(s)), x \notin IdsOf(SetOf(a)) PROVE x \in IdsOf(SetOf(b))
  <2>1. PICK i \in 1 .. Len(s) : s[i].id = x
    BY QueueIds
  <2>2. i \notin 1 .. n
    BY <1>1, <1>6, <2>1, QueueIds
  <2>3. i - n \in 1 .. Len(s) - n /\ n + (i - n) = i
    BY <1>1, <2>2
  <2>4. b[i - n].id = x
    BY <1>1, <2>1, <2>3
  <2>. QED
    BY <1>1, <2>3, <2>4, QueueIds
<1>7. IdsOf(SetOf(b)) = IdsOf(SetOf(s)) \ IdsOf(SetOf(a)) /\ IdsOf(SetOf(a)) \subseteq IdsOf(SetOf(s))
  BY <1>4, <1>5, <1>6
<1>. QED
  BY <1>2, <1>3, <1>7 DEF a, b

LEMMA TailIds ==
  ASSUME NEW s \in Seq(Packet), s # <<>>, Distinct(s)
  PROVE  /\ Head(s).id \in IdsOf(SetOf(s)) /\ Head(s) \in Packet
         /\ IdsOf(SetOf(Tail(s))) = IdsOf(SetOf(s)) \ {Head(s).id}
         /\ Distinct(Tail(s))
<1>. DEFINE g == Tail(s)
<1>1. /\ g \in Seq(Packet) /\ Len(g) = Len(s) - 1 /\ Len(s) \in Nat /\ Len(s) >= 1
      /\ Head(s) = s[1] /\ Head(s) \in Packet
      /\ \A i \in 1 .. Len(g) : g[i] = s[i + 1] /\ i + 1 \in 1 .. Len(s)
      /\ DOMAIN g = 1 .. Len(g) /\ DOMAIN s = 1 .. Len(s)
  OBVIOUS
<1>. HIDE DEF g
<1>2. 1 \in 1 .. Len(s) /\ \A i \in 1 .. Len(s) : i = 1 \/ i - 1 \in 1 .. Len(g)
  BY <1>1
<1>3. Head(s).id \in IdsOf(SetOf(s))
  BY <1>1, <1>2, QueueIds
<1>4. ASSUME NEW x \in IdsOf(SetOf(g))
      PROVE  x \in IdsOf(SetOf(s)) /\ x # Head(s).id
  <2>1. PICK i \in 1 .. Len(g) : g[i].id = x
    BY <1>1, QueueIds
  <2>2. i + 1 \in 1 .. Len(s) /\ s[i + 1].id = x /\ i + 1 # 1
    BY <1>1, <2>1
  <2>3. x \in IdsOf(SetOf(s))
    BY <2>2, QueueIds
  <2>4. s[1].id # x
    BY <1>1, <1>2, <2>2 DEF Distinct
  <2>. QED
    BY <1>1, <2>3, <2>4
<1>5. ASSUME NEW x \in IdsOf(SetOf(s)), x # Head(s).id
      PROVE  x \in IdsOf(SetOf(g))
  <2>1. PICK i \in 1 .. Len(s) : s[i].id = x
    BY QueueIds
  <2>2. i # 1
    BY <1>1, <1>5, <2>1
  <2>3. i - 1 \in 1 .. Len(g) /\ (i - 1) + 1 = i
    BY <1>1, <1>2, <2>2
  <2>4. g[i - 1].id = x
    BY <1>1, <2>1, <2>3
  <2>. QED
    BY <1>1, <2>3, <2>4, QueueIds
<1>6. Distinct(g)
  <2>. SUFFICES ASSUME NEW j \in 1 .. Len(g), NEW k \in 1 .. Len(g), g[j].id = g[k].id
                PROVE  j = k
    BY <1>1 DEF Distinct
  <2>0. /\ s[j + 1].id = s[k + 1].id /\ j + 1 \in DOMAIN s /\ k + 1 \in DOMAIN s
    BY <1>1
  <2>1. j + 1 = k + 1
    BY <2>0 DEF Distinct
  <2>. QED
    BY <2>1
<1>7. IdsOf(SetOf(g)) = IdsOf(SetOf(s)) \ {Head(s).id}
  BY <1>4, <1>5
<1>. QED
  BY <1>1, <1>3, <1>6, <1>7 DEF g

\* Each packet that arrived is in one place, and in a channel or a heap it is once.
ConserveInv ==
  /\ Apart(Where, arrived)
  /\ \A p \in Priority : Distinct(inQueue[p])
  /\ Distinct(batch)
  /\ \A c \in Channel :
       Distinct(highIn[c]) /\ Distinct(ownIn[c]) /\ Distinct(emitted[c]) /\ OneEach(heap[c])

LEMMA ConserveInitially == Init => ConserveInv
<1>. SUFFICES ASSUME Init PROVE ConserveInv
  OBVIOUS
<1>1. /\ arrived = 0 /\ inQueue = [p \in Priority |-> <<>>] /\ batch = <<>> /\ fifo = <<>>
      /\ highIn = [c \in Channel |-> <<>>] /\ ownIn = [c \in Channel |-> <<>>]
      /\ heap = [c \in Channel |-> {}] /\ task = [c \in Channel |-> NoTask]
      /\ emitted = [c \in Channel |-> <<>>] /\ buffer = [c \in Channel |-> NoTask]
      /\ decided = {}
  BY DEF Init
<1>2. IdsOf(SetOf(<<>>)) = {} /\ IdsOf({}) = {}
  BY SetOfIs DEF IdsOf
<1>3. ASSUME NEW l \in Spot PROVE Where[l] = {}
  BY <1>1, <1>2, IdOfIs, SpotsAre, IdsAre, WhereIs
<1>4. Apart(Where, 0)
  BY <1>3 DEF Apart
<1>5. Distinct(<<>>) /\ OneEach({})
  BY DEF Distinct, OneEach
<1>. QED
  BY <1>1, <1>4, <1>5 DEF ConserveInv

\* A step that leaves all places alone.
LEMMA StillConserved ==
  ASSUME ConserveInv,
         UNCHANGED <<inQueue, batch, highIn, ownIn, fifo, heap, task, emitted, buffer, decided,
                     arrived>>
  PROVE  ConserveInv'
<1>1. Where' = Where
  BY DEF Where, IdsAt
<1>. QED
  BY <1>1 DEF ConserveInv

\* What the queues hold is typed, and queues and heaps have one of each id.
LEMMA QueueTypes ==
  ASSUME BalanceInv, FlowInv
  PROVE  /\ inQueue \in [Priority -> Seq(Packet)] /\ batch \in Seq(Packet)
         /\ \A c \in Channel : /\ highIn[c] \in Seq(Packet) /\ ownIn[c] \in Seq(Packet)
                               /\ emitted[c] \in Seq(Packet) /\ heap[c] \in SUBSET Packet
BY SeqsOf DEF BalanceInv, BalanceTypes, FlowInv, DispatchTypes, WorkerTypes

\* A packet at one place is at no other.
LEMMA Elsewhere ==
  ASSUME ConserveInv, NEW l \in Spot, NEW m \in Spot, l # m, NEW i \in IdsAt(l)
  PROVE  i \notin IdsAt(m) /\ i \in 0 .. arrived - 1
<1>1. \A k \in Spot : Where[k] = IdsAt(k)
  BY WhereIs
<1>2. Apart(Where, arrived)
  BY DEF ConserveInv
<1>. QED
  BY <1>1, <1>2 DEF Apart

LEMMA ArriveConserves ==
  ASSUME BalanceInv, FlowInv, ConserveInv, NEW p \in Priority, Arrive(p)
  PROVE  ConserveInv'
<1>1. /\ inQueue' = [inQueue EXCEPT ![p] = Append(@, [id |-> arrived, of |-> p, ts |-> clock'])]
      /\ arrived' = arrived + 1 /\ clock' \in Nat /\ arrived \in Nat
  BY ElasticAssumption DEF Arrive, ReadClock, BalanceInv, BalanceTypes
<1>2. UNCHANGED <<batch, highIn, ownIn, fifo, heap, task, emitted, buffer, decided>>
  BY DEF Arrive, dispatchVars, workerVars, reorderVars
<1>3. PICK e \in Packet : e = [id |-> arrived, of |-> p, ts |-> clock']
  <2>1. clock' \in Nat /\ arrived \in Nat
    BY <1>1
  <2>2. [id |-> arrived, of |-> p, ts |-> clock'] \in Packet
    BY <2>1 DEF Packet
  <2>. QED
    BY <2>2
<1>4. e.id = arrived
  BY <1>3
<1>5. /\ inQueue'[p] = Append(inQueue[p], e) /\ inQueue[p] \in Seq(Packet)
      /\ \A r \in Priority : r # p => inQueue'[r] = inQueue[r]
  BY <1>1, <1>3, QueueTypes
<1>6. e.id \notin IdsOf(SetOf(inQueue[p]))
  <2>1. Where[At("input", p)] = IdsOf(SetOf(inQueue[p])) /\ At("input", p) \in Spot
    BY SpotsAre, IdsAre, WhereIs
  <2>2. arrived \notin 0 .. arrived - 1
    BY <1>1
  <2>. QED
    BY <1>4, <2>1, <2>2 DEF ConserveInv, Apart
<1>7. /\ IdsOf(SetOf(inQueue'[p])) = IdsOf(SetOf(inQueue[p])) \cup {e.id}
      /\ Distinct(inQueue'[p])
  BY <1>5, <1>6, AppendIds DEF ConserveInv
<1>8. IdsAt(At("input", p))' = IdsAt(At("input", p)) \cup {arrived}
  BY <1>4, <1>7, IdsAre, IdsBecome
<1>9. ASSUME NEW l \in Spot, l # At("input", p) PROVE IdsAt(l)' = IdsAt(l)
  BY <1>2, <1>5, <1>9, SpotsAre, IdsAre, IdsBecome
<1>10. Apart(Where', arrived + 1)
  <2>1. /\ Where'[At("input", p)] = Where[At("input", p)] \cup {arrived}
        /\ At("input", p) \in Spot
    BY <1>8, SpotsAre, WhereIs
  <2>2. \A l \in Spot : l # At("input", p) => Where'[l] = Where[l]
    BY <1>9, WhereIs
  <2>3. Apart(Where, arrived) /\ arrived \in Nat
    BY <1>1 DEF ConserveInv
  <2>. QED
    BY <2>1, <2>2, <2>3, Comes
<1>. QED
  BY <1>1, <1>2, <1>5, <1>7, <1>10 DEF ConserveInv

LEMMA CollectConserves ==
  ASSUME BalanceInv, FlowInv, ConserveInv, Collect
  PROVE  ConserveInv'
<1>. DEFINE q == inQueue["High"]
            n == Batched
<1>1. n \in 0 .. Len(q) /\ inQueue \in [Priority -> Seq(Packet)] /\ "High" \in Priority
  BY CollectTakes, PacketsOf
<1>2. /\ batch' = SubSeq(q, 1, n) /\ batch = <<>>
      /\ inQueue' = [inQueue EXCEPT !["High"] = SubSeq(q, n + 1, Len(q))]
  BY CollectTakes
<1>3. UNCHANGED <<highIn, ownIn, fifo, heap, task, emitted, buffer, decided, arrived>>
  BY DEF Collect, workerVars, reorderVars
<1>. HIDE DEF n
<1>4. /\ inQueue'["High"] = SubSeq(q, n + 1, Len(q)) /\ q \in Seq(Packet)
      /\ \A p \in Priority : p # "High" => inQueue'[p] = inQueue[p]
  BY <1>1, <1>2
<1>5. Distinct(q)
  BY <1>1 DEF ConserveInv
<1>6. PICK X : X = IdsOf(SetOf(batch'))
  OBVIOUS
<1>7. /\ Distinct(batch') /\ Distinct(inQueue'["High"]) /\ X \subseteq IdsOf(SetOf(q))
      /\ IdsOf(SetOf(inQueue'["High"])) = IdsOf(SetOf(q)) \ X
  BY <1>1, <1>2, <1>4, <1>5, <1>6, SplitIds
<1>8. IdsOf(SetOf(batch)) = {}
  BY <1>2, SetOfIs DEF IdsOf
<1>9. /\ X \subseteq IdsAt(At("input", "High"))
      /\ IdsAt(At("input", "High"))' = IdsAt(At("input", "High")) \ X
      /\ IdsAt(At("batch", 0))' = IdsAt(At("batch", 0)) \cup X
  BY <1>6, <1>7, <1>8, IdsAre, IdsBecome
<1>10. ASSUME NEW l \in Spot, l # At("input", "High"), l # At("batch", 0) PROVE IdsAt(l)' = IdsAt(l)
  BY <1>3, <1>4, <1>10, SpotsAre, IdsAre, IdsBecome
<1>11. /\ At("input", "High") \in Spot /\ At("batch", 0) \in Spot
       /\ At("input", "High") # At("batch", 0)
  BY <1>1, SpotsAre, AtDiffer
<1>12. Apart(Where, arrived) /\ arrived' = arrived
  BY <1>3 DEF ConserveInv
<1>13. Apart(Where', arrived')
  BY <1>9, <1>10, <1>11, <1>12, StepMoves
<1>. QED
  BY <1>3, <1>4, <1>7, <1>13 DEF ConserveInv

LEMMA SendConserves ==
  ASSUME BalanceInv, FlowInv, ConserveInv, SendHigh
  PROVE  ConserveInv'
<1>1. UNCHANGED <<inQueue, ownIn, fifo, heap, task, emitted, buffer, decided, arrived>>
  BY DEF SendHigh, workerVars, reorderVars
<1>2. PICK d \in Channel : d = target
  BY SendTakes
<1>3. PICK h : h = Head(batch)
  OBVIOUS
<1>4. /\ batch # <<>> /\ batch \in Seq(Packet) /\ batch' = Tail(batch)
      /\ highIn'[d] = Append(highIn[d], h) /\ highIn[d] \in Seq(Packet)
      /\ \A c \in Channel : c # d => highIn'[c] = highIn[c]
  BY <1>2, <1>3, SendTakes, QueueTypes DEF FlowInv, DispatchTypes
<1>5. /\ h \in Packet /\ h.id \in IdsOf(SetOf(batch)) /\ Distinct(batch')
      /\ IdsOf(SetOf(batch')) = IdsOf(SetOf(batch)) \ {h.id}
  BY <1>3, <1>4, TailIds DEF ConserveInv
<1>6. /\ At("batch", 0) \in Spot /\ At("high", d) \in Spot /\ At("batch", 0) # At("high", d)
  BY SpotsAre, AtDiffer
<1>7. h.id \notin IdsOf(SetOf(highIn[d]))
  BY <1>5, <1>6, Elsewhere, IdsAre
<1>8. /\ Distinct(highIn'[d])
      /\ IdsOf(SetOf(highIn'[d])) = IdsOf(SetOf(highIn[d])) \cup {h.id}
  BY <1>4, <1>5, <1>7, AppendIds DEF ConserveInv
<1>9. PICK X : X = {h.id}
  OBVIOUS
<1>10. /\ X \subseteq IdsAt(At("batch", 0))
       /\ IdsAt(At("batch", 0))' = IdsAt(At("batch", 0)) \ X
       /\ IdsAt(At("high", d))' = IdsAt(At("high", d)) \cup X
  BY <1>5, <1>8, <1>9, IdsAre, IdsBecome
<1>11. ASSUME NEW l \in Spot, l # At("batch", 0), l # At("high", d) PROVE IdsAt(l)' = IdsAt(l)
  BY <1>1, <1>4, <1>11, SpotsAre, IdsAre, IdsBecome
<1>12. Apart(Where, arrived) /\ arrived' = arrived
  BY <1>1 DEF ConserveInv
<1>13. Apart(Where', arrived')
  BY <1>6, <1>10, <1>11, <1>12, StepMoves
<1>. QED
  BY <1>1, <1>4, <1>5, <1>8, <1>13 DEF ConserveInv

LEMMA OneConserves ==
  ASSUME BalanceInv, FlowInv, ConserveInv, NEW i \in 1 .. 3, NEW j \in 1 .. 3, DispatchOne(i, j)
  PROVE  ConserveInv'
<1>1. UNCHANGED <<batch, highIn, fifo, heap, task, emitted, buffer, decided, arrived>>
  BY DEF DispatchOne, workerVars, reorderVars
<1>2. PICK p \in Priority :
        /\ inQueue[p] # <<>> /\ Home(p) \in Channel
        /\ ownIn' = [ownIn EXCEPT ![Home(p)] = Append(@, Head(inQueue[p]))]
        /\ inQueue' = [inQueue EXCEPT ![p] = Tail(@)]
  BY OneTakes
<1>3. PICK d \in Channel : d = Home(p)
  BY <1>2
<1>4. PICK h : h = Head(inQueue[p])
  OBVIOUS
<1>5. /\ ownIn'[d] = Append(ownIn[d], h) /\ ownIn[d] \in Seq(Packet)
      /\ \A c \in Channel : c # d => ownIn'[c] = ownIn[c]
  BY <1>2, <1>3, <1>4, QueueTypes DEF FlowInv, DispatchTypes
<1>6. /\ inQueue'[p] = Tail(inQueue[p]) /\ inQueue[p] # <<>> /\ inQueue[p] \in Seq(Packet)
      /\ \A q \in Priority : q # p => inQueue'[q] = inQueue[q]
  BY <1>2, QueueTypes
<1>7. /\ h \in Packet /\ h.id \in IdsOf(SetOf(inQueue[p])) /\ Distinct(inQueue'[p])
      /\ IdsOf(SetOf(inQueue'[p])) = IdsOf(SetOf(inQueue[p])) \ {h.id}
  BY <1>4, <1>6, TailIds DEF ConserveInv
<1>8. At("input", p) \in Spot /\ At("own", d) \in Spot /\ At("input", p) # At("own", d)
  BY SpotsAre, AtDiffer
<1>9. h.id \notin IdsOf(SetOf(ownIn[d]))
  BY <1>7, <1>8, Elsewhere, IdsAre
<1>10. /\ Distinct(ownIn'[d])
       /\ IdsOf(SetOf(ownIn'[d])) = IdsOf(SetOf(ownIn[d])) \cup {h.id}
  BY <1>5, <1>7, <1>9, AppendIds DEF ConserveInv
<1>11. PICK X : X = {h.id}
  OBVIOUS
<1>12. /\ X \subseteq IdsAt(At("input", p))
       /\ IdsAt(At("input", p))' = IdsAt(At("input", p)) \ X
       /\ IdsAt(At("own", d))' = IdsAt(At("own", d)) \cup X
  BY <1>7, <1>10, <1>11, IdsAre, IdsBecome
<1>13. ASSUME NEW l \in Spot, l # At("input", p), l # At("own", d) PROVE IdsAt(l)' = IdsAt(l)
  <2>1. ASSUME NEW q \in Priority, l = At("input", q) PROVE IdsAt(l)' = IdsAt(l)
    BY <1>6, <1>13, <2>1, IdsAre, IdsBecome
  <2>2. ASSUME NEW c \in Channel, l = At("own", c) PROVE IdsAt(l)' = IdsAt(l)
    BY <1>5, <1>13, <2>2, IdsAre, IdsBecome
  <2>3. CASE l = At("batch", 0) \/ l = At("fifo", 0) \/ l = At("decided", 0)
    BY <1>1, <2>3, IdsAre, IdsBecome
  <2>4. ASSUME NEW c \in Channel,
               \/ l = At("high", c) \/ l = At("heap", c) \/ l = At("hand", c)
               \/ l = At("emitted", c) \/ l = At("buffer", c)
        PROVE  IdsAt(l)' = IdsAt(l)
    BY <1>1, <2>4, IdsAre, IdsBecome
  <2>. QED
    BY <2>1, <2>2, <2>3, <2>4, SpotsAre
<1>14. Apart(Where, arrived) /\ arrived' = arrived
  BY <1>1 DEF ConserveInv
<1>15. Apart(Where', arrived')
  BY <1>8, <1>12, <1>13, <1>14, StepMoves
<1>. QED
  BY <1>1, <1>5, <1>6, <1>7, <1>10, <1>15 DEF ConserveInv

\* What a worker does moves packets only between the places at its channel.
LEMMA WorkerElsewhere ==
  ASSUME FlowInv, NEW c \in Channel, Worker(c), NEW l \in Spot,
         l # At("high", c), l # At("own", c), l # At("heap", c), l # At("hand", c),
         l # At("emitted", c)
  PROVE  IdsAt(l)' = IdsAt(l)
<1>1. /\ UNCHANGED <<inQueue, batch, buffer, decided>>
      /\ \A d \in Channel : d # c =>
           /\ highIn'[d] = highIn[d] /\ ownIn'[d] = ownIn[d] /\ heap'[d] = heap[d]
           /\ task'[d] = task[d] /\ emitted'[d] = emitted[d]
  BY OtherWorkers
<1>2. fifo = fifo'
  BY WorkerKeepsFlow DEF FlowInv, HighChannel
<1>3. ASSUME NEW d \in Channel, d # c, \/ l = At("high", d) \/ l = At("own", d)
                                       \/ l = At("heap", d) \/ l = At("hand", d)
                                       \/ l = At("emitted", d)
      PROVE  IdsAt(l)' = IdsAt(l)
  BY <1>1, <1>3, IdsAre, IdsBecome
<1>4. ASSUME NEW d \in Channel, l = At("buffer", d) PROVE IdsAt(l)' = IdsAt(l)
  BY <1>1, <1>4, IdsAre, IdsBecome
<1>5. ASSUME NEW p \in Priority, l = At("input", p) PROVE IdsAt(l)' = IdsAt(l)
  BY <1>1, <1>5, IdsAre, IdsBecome
<1>6. CASE l = At("batch", 0) \/ l = At("fifo", 0) \/ l = At("decided", 0)
  BY <1>1, <1>2, <1>6, IdsAre, IdsBecome
<1>. QED
  BY <1>3, <1>4, <1>5, <1>6, SpotsAre

\* So its own channel is all there is to show.
LEMMA WorkerMoves ==
  ASSUME FlowInv, ConserveInv, NEW c \in Channel, Worker(c), Apart(Where', arrived'),
         Distinct(highIn'[c]), Distinct(ownIn'[c]), Distinct(emitted'[c]), OneEach(heap'[c])
  PROVE  ConserveInv'
<1>1. /\ UNCHANGED <<inQueue, batch>>
      /\ \A d \in Channel : d # c =>
           /\ highIn'[d] = highIn[d] /\ ownIn'[d] = ownIn[d] /\ heap'[d] = heap[d]
           /\ emitted'[d] = emitted[d]
  BY OtherWorkers
<1>2. \A d \in Channel :
        Distinct(highIn'[d]) /\ Distinct(ownIn'[d]) /\ Distinct(emitted'[d]) /\ OneEach(heap'[d])
  BY <1>1 DEF ConserveInv
<1>. QED
  BY <1>1, <1>2 DEF ConserveInv

\* What is received comes from place a, and the other channel of the worker is left alone.
ReceivesFrom(c, a, received) ==
  /\ \/ a = At("high", c) /\ ownIn'[c] = ownIn[c]
     \/ a = At("own", c) /\ highIn'[c] = highIn[c]
  /\ IdsOf(SetOf(received)) \subseteq IdsAt(a)
  /\ IdsAt(a)' = IdsAt(a) \ IdsOf(SetOf(received))

(***************************************************************************)
(* What is received from a joins the heap, and one task goes to the hand.  *)
(***************************************************************************)
LEMMA TakingConserves ==
  ASSUME BalanceInv, FlowInv, ConserveInv, NEW c \in Channel, Worker(c),
         NEW received \in Seq(Packet), NEW t, Takes(c, received, t), Distinct(received),
         task[c] = NoTask, emitted' = emitted, NEW a \in Spot, ReceivesFrom(c, a, received)
  PROVE  Apart(Where', arrived') /\ OneEach(heap'[c]) /\ emitted'[c] = emitted[c]
<1>1. PICK g : g = heap[c] \cup SetOf(received)
  OBVIOUS
<1>2. heap[c] \in SUBSET Packet /\ SetOf(received) \in SUBSET Packet /\ g \in SUBSET Packet
  BY <1>1, QueueTypes, SetOfIs
<1>3. t \in g /\ heap'[c] = g \ {t} /\ task'[c] = t
  BY <1>1 DEF Takes, FlowInv, WorkerTypes
<1>4. /\ At("heap", c) \in Spot /\ At("hand", c) \in Spot /\ At("heap", c) # At("hand", c)
      /\ a # At("heap", c) /\ a # At("hand", c)
  BY SpotsAre, AtDiffer DEF ReceivesFrom
<1>5. PICK X, Y : X = IdsOf(SetOf(received)) /\ Y = {t.id}
  OBVIOUS
<1>6. OneEach(g) /\ IdsOf(g) = IdsOf(heap[c]) \cup X
  <2>1. OneEach(heap[c]) /\ OneEach(SetOf(received))
    BY QueueIds DEF ConserveInv
  <2>2. IdsOf(heap[c]) \cap IdsOf(SetOf(received)) = {}
    BY <1>4, Elsewhere, IdsAre DEF ReceivesFrom
  <2>3. OneEach(heap[c] \cup SetOf(received))
    BY <1>2, <2>1, <2>2, SetIds
  <2>4. IdsOf(heap[c] \cup SetOf(received)) = IdsOf(heap[c]) \cup IdsOf(SetOf(received))
    BY <1>2, SetIds
  <2>. QED
    BY <1>1, <1>5, <2>3, <2>4
<1>7. t.id \in IdsOf(g) /\ IdsOf(g \ {t}) = IdsOf(g) \ {t.id} /\ OneEach(g \ {t})
  BY <1>2, <1>3, <1>6, RemoveId
<1>8. /\ X \subseteq IdsAt(a) /\ Y \subseteq IdsAt(At("heap", c)) \cup X
      /\ IdsAt(a)' = IdsAt(a) \ X
      /\ IdsAt(At("heap", c))' = (IdsAt(At("heap", c)) \cup X) \ Y
  <2>1. /\ IdsAt(At("heap", c)) = IdsOf(heap[c])
        /\ IdsAt(At("heap", c))' = IdsOf(heap'[c])
    BY IdsAre, IdsBecome
  <2>2. IdsOf(heap'[c]) = (IdsOf(heap[c]) \cup X) \ Y
    BY <1>3, <1>5, <1>6, <1>7
  <2>3. Y \subseteq IdsOf(heap[c]) \cup X
    BY <1>5, <1>6, <1>7
  <2>. QED
    BY <1>5, <2>1, <2>2, <2>3 DEF ReceivesFrom
<1>9. IdsAt(At("hand", c))' = IdsAt(At("hand", c)) \cup Y
  <2>1. IdOf(task[c]) = {} /\ IdOf(task'[c]) = Y
    BY <1>2, <1>3, <1>5, IdOfIs
  <2>. QED
    BY <2>1, IdsAre, IdsBecome
<1>10. ASSUME NEW l \in Spot, l # a, l # At("heap", c), l # At("hand", c)
       PROVE  IdsAt(l)' = IdsAt(l)
  <2>1. CASE l = At("high", c) \/ l = At("own", c) \/ l = At("emitted", c)
    BY <1>10, <2>1, IdsAre, IdsBecome DEF ReceivesFrom
  <2>2. CASE l # At("high", c) /\ l # At("own", c) /\ l # At("emitted", c)
    BY <1>10, <2>2, WorkerElsewhere
  <2>. QED
    BY <2>1, <2>2
<1>11. Apart(Where, arrived) /\ arrived' = arrived
  BY OtherWorkers DEF ConserveInv
<1>12. Apart(Where', arrived')
  <2>1. \A l \in Spot : l # a /\ l # At("heap", c) /\ l # At("hand", c) => IdsAt(l)' = IdsAt(l)
    BY <1>10
  <2>. QED
    BY <1>4, <1>8, <1>9, <1>11, <2>1, StepMovesOn
<1>. QED
  BY <1>3, <1>7, <1>12

LEMMA ReceiveHighConserves ==
  ASSUME BalanceInv, FlowInv, ConserveInv, NEW c \in Channel, ReceiveHigh(c)
  PROVE  ConserveInv'
<1>1. Worker(c) /\ task[c] = NoTask /\ UNCHANGED <<ownIn, emitted>>
  BY DEF ReceiveHigh, Worker, FlowInv, WorkerTypes
<1>2. PICK h \in Packet : h = Head(highIn[c])
  BY ReceiveHighTakes, PacketsOf
<1>3. PICK t : Takes(c, <<h>>, t)
  BY <1>2, ReceiveHighTakes
<1>4. PICK r \in Seq(Packet) : r = <<h>> /\ SetOf(r) = {h} /\ Distinct(r)
  <2>1. <<h>> \in Seq(Packet) /\ SetOf(<<h>>) = {h} /\ Distinct(<<h>>)
    BY DEF SetOf, Distinct
  <2>. QED
    BY <2>1
<1>5. highIn'[c] = Tail(highIn[c]) /\ highIn[c] # <<>> /\ highIn[c] \in Seq(Packet)
  BY ReceiveHighTakes, QueueTypes DEF FlowInv, DispatchTypes
<1>6. /\ h.id \in IdsOf(SetOf(highIn[c])) /\ Distinct(highIn'[c])
      /\ IdsOf(SetOf(highIn'[c])) = IdsOf(SetOf(highIn[c])) \ {h.id}
  BY <1>2, <1>5, TailIds DEF ConserveInv
<1>7. IdsOf(SetOf(r)) = {h.id}
  BY <1>2, <1>4, IdOfIs DEF IdOf
<1>8. At("high", c) \in Spot
  BY SpotsAre
<1>9. Takes(c, r, t)
  BY <1>3, <1>4
<1>10. /\ IdsOf(SetOf(r)) \subseteq IdsAt(At("high", c))
       /\ IdsAt(At("high", c))' = IdsAt(At("high", c)) \ IdsOf(SetOf(r))
  BY <1>6, <1>7, IdsAre, IdsBecome
<1>11. Apart(Where', arrived') /\ OneEach(heap'[c])
  <2>1. /\ ownIn'[c] = ownIn[c] /\ emitted' = emitted /\ Distinct(r) /\ task[c] = NoTask
        /\ r \in Seq(Packet) /\ Worker(c)
    BY <1>1, <1>4
  <2>2. ReceivesFrom(c, At("high", c), r)
    BY <1>10, <2>1 DEF ReceivesFrom
  <2>. QED
    BY <1>8, <1>9, <2>1, <2>2, TakingConserves
<1>12. Distinct(ownIn'[c]) /\ Distinct(emitted'[c])
  BY <1>1 DEF ConserveInv
<1>. QED
  BY <1>1, <1>6, <1>11, <1>12, WorkerMoves

LEMMA ReceiveOwnConserves ==
  ASSUME BalanceInv, FlowInv, ConserveInv, NEW c \in Channel, ReceiveOwn(c)
  PROVE  ConserveInv'
<1>1. Worker(c) /\ task[c] = NoTask /\ UNCHANGED <<highIn, emitted>>
  BY DEF ReceiveOwn, Worker, FlowInv, WorkerTypes
<1>2. PICK r : r = ownIn[c]
  OBVIOUS
<1>3. r \in Seq(Packet) /\ ownIn'[c] = <<>> /\ Distinct(r)
  BY <1>2, QueueTypes DEF ReceiveOwn, ConserveInv, FlowInv, DispatchTypes
<1>4. PICK t : Takes(c, r, t)
  BY <1>2, ReceiveOwnTakes
<1>5. IdsOf(SetOf(<<>>)) = {} /\ Distinct(<<>>)
  BY SetOfIs DEF IdsOf, Distinct
<1>6. /\ IdsOf(SetOf(r)) \subseteq IdsAt(At("own", c))
      /\ IdsAt(At("own", c))' = IdsAt(At("own", c)) \ IdsOf(SetOf(r))
  BY <1>2, <1>3, <1>5, IdsAre, IdsBecome
<1>7. At("own", c) \in Spot
  BY SpotsAre
<1>8. Apart(Where', arrived') /\ OneEach(heap'[c])
  <2>1. ReceivesFrom(c, At("own", c), r)
    BY <1>1, <1>6 DEF ReceivesFrom
  <2>2. emitted' = emitted
    BY <1>1
  <2>. QED
    BY <1>1, <1>3, <1>4, <1>7, <2>1, <2>2, TakingConserves
<1>9. Distinct(ownIn'[c])
  BY <1>3, <1>5
<1>10. Distinct(highIn'[c]) /\ Distinct(emitted'[c])
  BY <1>1 DEF ConserveInv
<1>. QED
  BY <1>1, <1>8, <1>9, <1>10, WorkerMoves

\* A High packet and the task that was waiting both go to the heap.
LEMMA HighArrivesConserves ==
  ASSUME BalanceInv, FlowInv, ConserveInv, NEW c \in Channel, HighArrives(c)
  PROVE  ConserveInv'
<1>1. /\ Worker(c) /\ UNCHANGED <<ownIn, emitted>>
      /\ highIn'[c] = Tail(highIn[c]) /\ highIn[c] # <<>>
      /\ task'[c] = NoTask /\ task[c] \in Packet /\ heap[c] \in SUBSET Packet
      /\ heap'[c] = heap[c] \cup {Head(highIn[c]), task[c]}
  BY DEF HighArrives, PutBack, Worker, FlowInv, DispatchTypes, WorkerTypes
<1>2. PICK h, t : h = Head(highIn[c]) /\ t = task[c]
  OBVIOUS
<1>3. highIn[c] \in Seq(Packet)
  BY QueueTypes
<1>4. /\ h.id \in IdsOf(SetOf(highIn[c])) /\ h \in Packet /\ Distinct(highIn'[c])
      /\ IdsOf(SetOf(highIn'[c])) = IdsOf(SetOf(highIn[c])) \ {h.id}
  BY <1>1, <1>2, <1>3, TailIds DEF ConserveInv
<1>5. IdOf(h) = {h.id} /\ IdOf(t) = {t.id} /\ IdOf(NoTask) = {} /\ t \in Packet
  BY <1>1, <1>2, <1>4, IdOfIs
<1>6. /\ At("high", c) \in Spot /\ At("heap", c) \in Spot /\ At("hand", c) \in Spot
      /\ At("high", c) # At("heap", c) /\ At("heap", c) # At("hand", c)
      /\ At("high", c) # At("hand", c)
  BY SpotsAre, AtDiffer
<1>7. h.id \in IdsAt(At("high", c)) /\ t.id \in IdsAt(At("hand", c))
  BY <1>2, <1>4, <1>5, IdsAre
<1>8. h.id \notin IdsOf(heap[c]) /\ t.id \notin IdsOf(heap[c]) /\ h.id # t.id
  BY <1>6, <1>7, Elsewhere, IdsAre
<1>9. PICK g : g = heap[c] \cup {h}
  OBVIOUS
<1>10. g \in SUBSET Packet /\ {h} \in SUBSET Packet /\ {t} \in SUBSET Packet
  BY <1>1, <1>4, <1>5, <1>9
<1>11. OneEach(g) /\ IdsOf(g) = IdsOf(heap[c]) \cup {h.id}
  <2>0. PICK k : k = {h}
    OBVIOUS
  <2>1. OneEach(heap[c]) /\ OneEach(k) /\ IdsOf(k) = {h.id}
    BY <1>5, <2>0 DEF ConserveInv, OneEach, IdOf
  <2>2. IdsOf(heap[c]) \cap IdsOf(k) = {} /\ k \in SUBSET Packet /\ g = heap[c] \cup k
    BY <1>8, <1>9, <1>10, <2>0, <2>1
  <2>3. heap[c] \in SUBSET Packet
    BY <1>1
  <2>. QED
    BY <2>1, <2>2, <2>3, SetIds
<1>12. OneEach(g \cup {t}) /\ IdsOf(g \cup {t}) = IdsOf(g) \cup {t.id}
  <2>1. OneEach({t}) /\ IdsOf({t}) = {t.id}
    BY <1>5 DEF OneEach, IdOf
  <2>2. IdsOf(g) \cap IdsOf({t}) = {}
    BY <1>8, <1>11, <2>1
  <2>. QED
    BY <1>10, <1>11, <2>1, <2>2, SetIds
<1>13. heap'[c] = g \cup {t}
  BY <1>1, <1>2, <1>9
<1>14. PICK X, Y : X = {h.id} /\ Y = {t.id}
  OBVIOUS
<1>15. /\ X \subseteq IdsAt(At("high", c)) /\ Y \subseteq IdsAt(At("hand", c))
       /\ IdsAt(At("high", c))' = IdsAt(At("high", c)) \ X
       /\ IdsAt(At("heap", c))' = (IdsAt(At("heap", c)) \cup X) \cup Y
  <2>1. /\ IdsAt(At("heap", c)) = IdsOf(heap[c])
        /\ IdsAt(At("heap", c))' = IdsOf(heap'[c])
    BY IdsAre, IdsBecome
  <2>2. IdsOf(heap'[c]) = (IdsOf(heap[c]) \cup X) \cup Y
    BY <1>11, <1>12, <1>13, <1>14
  <2>3. IdsAt(At("high", c))' = IdsAt(At("high", c)) \ X
    BY <1>4, <1>14, IdsAre, IdsBecome
  <2>4. X \subseteq IdsAt(At("high", c)) /\ Y \subseteq IdsAt(At("hand", c))
    BY <1>7, <1>14
  <2>. QED
    BY <2>1, <2>2, <2>3, <2>4
<1>16. IdsAt(At("hand", c))' = IdsAt(At("hand", c)) \ Y
  BY <1>1, <1>2, <1>5, <1>14, IdsAre, IdsBecome
<1>17. ASSUME NEW l \in Spot, l # At("high", c), l # At("heap", c), l # At("hand", c)
       PROVE  IdsAt(l)' = IdsAt(l)
  <2>1. CASE l = At("own", c) \/ l = At("emitted", c)
    BY <1>1, <2>1, IdsAre, IdsBecome
  <2>2. CASE l # At("own", c) /\ l # At("emitted", c)
    BY <1>1, <1>17, <2>2, WorkerElsewhere
  <2>. QED
    BY <2>1, <2>2
<1>18. Apart(Where, arrived) /\ arrived' = arrived
  BY <1>1, OtherWorkers DEF ConserveInv
<1>19. Apart(Where', arrived')
  BY <1>6, <1>15, <1>16, <1>17, <1>18, StepGathers
<1>20. Distinct(ownIn'[c]) /\ Distinct(emitted'[c])
  BY <1>1 DEF ConserveInv
<1>. QED
  BY <1>1, <1>4, <1>12, <1>13, <1>19, <1>20, WorkerMoves

LEMMA FinishConserves ==
  ASSUME BalanceInv, FlowInv, ConserveInv, NEW c \in Channel, Finish(c)
  PROVE  ConserveInv'
<1>1. /\ Worker(c) /\ UNCHANGED <<ownIn, highIn, heap>>
      /\ emitted'[c] = Append(emitted[c], task[c]) /\ task[c] \in Packet
      /\ emitted[c] \in Seq(Packet) /\ task'[c] = NoTask
  BY DEF Finish, Worker, FlowInv, WorkerTypes
<1>2. PICK t \in Packet : t = task[c]
  BY <1>1
<1>3. IdOf(t) = {t.id} /\ IdOf(NoTask) = {}
  BY IdOfIs
<1>4. /\ At("hand", c) \in Spot /\ At("emitted", c) \in Spot
      /\ At("hand", c) # At("emitted", c)
  BY SpotsAre, AtDiffer
<1>5. t.id \in IdsAt(At("hand", c))
  BY <1>2, <1>3, IdsAre
<1>6. t.id \notin IdsOf(SetOf(emitted[c]))
  BY <1>4, <1>5, Elsewhere, IdsAre
<1>7. /\ Distinct(emitted'[c])
      /\ IdsOf(SetOf(emitted'[c])) = IdsOf(SetOf(emitted[c])) \cup {t.id}
  BY <1>1, <1>2, <1>6, AppendIds DEF ConserveInv
<1>8. PICK X : X = {t.id}
  OBVIOUS
<1>9. /\ X \subseteq IdsAt(At("hand", c))
      /\ IdsAt(At("emitted", c))' = IdsAt(At("emitted", c)) \cup X
  BY <1>5, <1>7, <1>8, IdsAre, IdsBecome
<1>10. IdsAt(At("hand", c))' = IdsAt(At("hand", c)) \ X
  BY <1>1, <1>2, <1>3, <1>8, IdsAre, IdsBecome
<1>11. ASSUME NEW l \in Spot, l # At("hand", c), l # At("emitted", c)
       PROVE  IdsAt(l)' = IdsAt(l)
  <2>1. CASE l = At("high", c) \/ l = At("own", c) \/ l = At("heap", c)
    BY <1>1, <2>1, IdsAre, IdsBecome
  <2>2. CASE l # At("high", c) /\ l # At("own", c) /\ l # At("heap", c)
    BY <1>1, <1>11, <2>2, WorkerElsewhere
  <2>. QED
    BY <2>1, <2>2
<1>12. Apart(Where, arrived) /\ arrived' = arrived
  BY <1>1, OtherWorkers DEF ConserveInv
<1>13. Apart(Where', arrived')
  BY <1>4, <1>9, <1>10, <1>11, <1>12, StepMoves
<1>14. Distinct(highIn'[c]) /\ Distinct(ownIn'[c]) /\ OneEach(heap'[c])
  BY <1>1 DEF ConserveInv
<1>. QED
  BY <1>1, <1>7, <1>13, <1>14, WorkerMoves

LEMMA FillConserves ==
  ASSUME BalanceInv, FlowInv, ConserveInv, NEW c \in Channel, FillBuffer(c)
  PROVE  ConserveInv'
<1>1. /\ UNCHANGED <<inQueue, batch, highIn, ownIn, fifo, heap, task, decided, arrived>>
      /\ emitted[c] # <<>> /\ buffer[c] = NoTask
      /\ buffer' = [buffer EXCEPT ![c] = Head(emitted[c])]
      /\ emitted' = [emitted EXCEPT ![c] = Tail(@)]
  BY DEF FillBuffer, MayFill, dispatchVars, workerVars
<1>2. PICK h : h = Head(emitted[c])
  OBVIOUS
<1>3. /\ emitted[c] \in Seq(Packet) /\ emitted'[c] = Tail(emitted[c]) /\ buffer'[c] = h
      /\ \A d \in Channel : d # c => emitted'[d] = emitted[d] /\ buffer'[d] = buffer[d]
  BY <1>1, <1>2 DEF FlowInv, WorkerTypes
<1>4. /\ h.id \in IdsOf(SetOf(emitted[c])) /\ h \in Packet /\ Distinct(emitted'[c])
      /\ IdsOf(SetOf(emitted'[c])) = IdsOf(SetOf(emitted[c])) \ {h.id}
  BY <1>1, <1>2, <1>3, TailIds DEF ConserveInv
<1>5. IdOf(buffer[c]) = {} /\ IdOf(buffer'[c]) = {h.id}
  BY <1>1, <1>3, <1>4, IdOfIs
<1>6. /\ At("emitted", c) \in Spot /\ At("buffer", c) \in Spot
      /\ At("emitted", c) # At("buffer", c)
  BY SpotsAre, AtDiffer
<1>7. PICK X : X = {h.id}
  OBVIOUS
<1>8. /\ X \subseteq IdsAt(At("emitted", c))
      /\ IdsAt(At("emitted", c))' = IdsAt(At("emitted", c)) \ X
      /\ IdsAt(At("buffer", c))' = IdsAt(At("buffer", c)) \cup X
  BY <1>4, <1>5, <1>7, IdsAre, IdsBecome
<1>9. ASSUME NEW l \in Spot, l # At("emitted", c), l # At("buffer", c) PROVE IdsAt(l)' = IdsAt(l)
  <2>1. ASSUME NEW d \in Channel, l = At("emitted", d) \/ l = At("buffer", d)
        PROVE  IdsAt(l)' = IdsAt(l)
    BY <1>3, <1>9, <2>1, IdsAre, IdsBecome
  <2>2. ASSUME NEW d \in Channel, \/ l = At("high", d) \/ l = At("own", d)
                                  \/ l = At("heap", d) \/ l = At("hand", d)
        PROVE  IdsAt(l)' = IdsAt(l)
    BY <1>1, <2>2, IdsAre, IdsBecome
  <2>3. ASSUME NEW p \in Priority, l = At("input", p) PROVE IdsAt(l)' = IdsAt(l)
    BY <1>1, <2>3, IdsAre, IdsBecome
  <2>4. CASE l = At("batch", 0) \/ l = At("fifo", 0) \/ l = At("decided", 0)
    BY <1>1, <2>4, IdsAre, IdsBecome
  <2>. QED
    BY <2>1, <2>2, <2>3, <2>4, SpotsAre
<1>10. Apart(Where, arrived) /\ arrived' = arrived
  BY <1>1 DEF ConserveInv
<1>11. Apart(Where', arrived')
  BY <1>6, <1>8, <1>9, <1>10, StepMoves
<1>12. \A d \in Channel : Distinct(emitted'[d])
  BY <1>3, <1>4 DEF ConserveInv
<1>. QED
  BY <1>1, <1>11, <1>12 DEF ConserveInv

LEMMA EmitConserves ==
  ASSUME BalanceInv, FlowInv, ConserveInv, Emit
  PROVE  ConserveInv'
<1>1. PICK c \in Channel :
        /\ buffer[c] # NoTask
        /\ buffer' = [buffer EXCEPT ![c] = NoTask]
        /\ decided' = decided \cup {buffer[c].id}
  BY DEF Emit, Earliest, Buffered
<1>2. UNCHANGED <<inQueue, batch, highIn, ownIn, fifo, heap, task, emitted, arrived>>
  BY DEF Emit, dispatchVars, workerVars
<1>3. PICK x \in Packet : x = buffer[c]
  BY <1>1 DEF FlowInv, WorkerTypes
<1>4. buffer'[c] = NoTask /\ \A d \in Channel : d # c => buffer'[d] = buffer[d]
  BY <1>1 DEF FlowInv, WorkerTypes
<1>5. IdOf(buffer[c]) = {x.id} /\ IdOf(buffer'[c]) = {}
  BY <1>3, <1>4, IdOfIs
<1>6. /\ At("buffer", c) \in Spot /\ At("decided", 0) \in Spot
      /\ At("buffer", c) # At("decided", 0)
  BY SpotsAre, AtDiffer
<1>7. PICK X : X = {x.id}
  OBVIOUS
<1>8. /\ X \subseteq IdsAt(At("buffer", c))
      /\ IdsAt(At("buffer", c))' = IdsAt(At("buffer", c)) \ X
      /\ IdsAt(At("decided", 0))' = IdsAt(At("decided", 0)) \cup X
  BY <1>1, <1>3, <1>5, <1>7, IdsAre, IdsBecome
<1>9. ASSUME NEW l \in Spot, l # At("buffer", c), l # At("decided", 0) PROVE IdsAt(l)' = IdsAt(l)
  <2>1. ASSUME NEW d \in Channel, l = At("buffer", d) PROVE IdsAt(l)' = IdsAt(l)
    BY <1>4, <1>9, <2>1, IdsAre, IdsBecome
  <2>2. ASSUME NEW d \in Channel, \/ l = At("high", d) \/ l = At("own", d)
                                  \/ l = At("heap", d) \/ l = At("hand", d)
                                  \/ l = At("emitted", d)
        PROVE  IdsAt(l)' = IdsAt(l)
    BY <1>2, <2>2, IdsAre, IdsBecome
  <2>3. ASSUME NEW p \in Priority, l = At("input", p) PROVE IdsAt(l)' = IdsAt(l)
    BY <1>2, <2>3, IdsAre, IdsBecome
  <2>4. CASE l = At("batch", 0) \/ l = At("fifo", 0)
    BY <1>2, <2>4, IdsAre, IdsBecome
  <2>. QED
    BY <1>9, <2>1, <2>2, <2>3, <2>4, SpotsAre
<1>10. Apart(Where, arrived) /\ arrived' = arrived
  BY <1>2 DEF ConserveInv
<1>11. Apart(Where', arrived')
  BY <1>6, <1>8, <1>9, <1>10, StepMoves
<1>. QED
  BY <1>2, <1>11 DEF ConserveInv

LEMMA StepConserves == BalanceInv /\ FlowInv /\ ConserveInv /\ [Next]_vars => ConserveInv'
<1>. SUFFICES ASSUME BalanceInv, FlowInv, ConserveInv, [Next]_vars PROVE ConserveInv'
  OBVIOUS
<1>1. CASE \E p \in Priority : Arrive(p)
  BY <1>1, ArriveConserves
<1>2. CASE \/ Stop \/ ReorderExit \/ DispatchTop \/ DispatchExit \/ NothingElse
           \/ UNCHANGED vars
  <2>1. UNCHANGED <<inQueue, batch, highIn, ownIn, fifo, heap, task, emitted, buffer, decided,
                    arrived>>
    BY <1>2
    DEF Stop, ReorderExit, DispatchTop, DispatchExit, NothingElse, vars, dispatchVars,
        workerVars, reorderVars
  <2>. QED
    BY <2>1, StillConserved
<1>3. CASE \E i, j \in 1 .. 3 : DispatchOne(i, j)
  BY <1>3, OneConserves
<1>4. CASE Collect \/ SendHigh
  BY <1>4, CollectConserves, SendConserves
<1>5. CASE Emit \/ \E c \in Channel : FillBuffer(c)
  BY <1>5, EmitConserves, FillConserves
<1>6. ASSUME NEW c \in Channel, Worker(c) PROVE ConserveInv'
  <2>1. CASE NoHigh(c) \/ WorkerExit(c) \/ TimeoutExpires(c)
    <3>1. UNCHANGED <<inQueue, batch, highIn, ownIn, fifo, heap, task, emitted, buffer, decided,
                      arrived>>
      BY <2>1 DEF NoHigh, WorkerExit, TimeoutExpires, dispatchVars, reorderVars
    <3>. QED
      BY <3>1, StillConserved
  <2>. QED
    BY <1>6, <2>1, ReceiveHighConserves, ReceiveOwnConserves, HighArrivesConserves,
       FinishConserves
    DEF Worker
<1>. QED
  BY <1>1, <1>2, <1>3, <1>4, <1>5, <1>6 DEF Next, Dispatcher, Reorder

\* Where a packet is, as the property puts it.
LEMMA ApartAreLocated ==
  ASSUME Apart(Where, arrived)
  PROVE  Places(Located, 0 .. arrived - 1)
<1>1. PICK at : at = Where
  OBVIOUS
<1>2. Apart(at, arrived)
  BY <1>1
<1>3. \A x : x \in Located <=> \E l \in Spot : \E i \in at[l] : x = <<i, l>>
  BY <1>1, WhereIs DEF Located
<1>4. \A x \in Located : x[2] \in Spot /\ x[1] \in at[x[2]] /\ x = <<x[1], x[2]>>
  BY <1>3
<1>5. ASSUME NEW x \in Located, NEW y \in Located, x[1] = y[1] PROVE x = y
  <2>1. /\ x[2] \in Spot /\ x[1] \in at[x[2]] /\ x = <<x[1], x[2]>>
        /\ y[2] \in Spot /\ y[1] \in at[y[2]] /\ y = <<y[1], y[2]>>
    BY <1>4
  <2>2. x[2] = y[2]
    BY <1>2, <1>5, <2>1 DEF Apart
  <2>. QED
    BY <1>5, <2>1, <2>2
<1>6. \A x \in Located : x[1] \in 0 .. arrived - 1
  BY <1>2, <1>4 DEF Apart
<1>7. ASSUME NEW i \in 0 .. arrived - 1 PROVE \E x \in Located : x[1] = i
  <2>1. PICK l \in Spot : i \in at[l]
    BY <1>2 DEF Apart
  <2>2. <<i, l>> \in Located /\ <<i, l>>[1] = i
    BY <1>3, <2>1
  <2>. QED
    BY <2>2
<1>. QED
  BY <1>5, <1>6, <1>7 DEF Places

(***************************************************************************)
(* Between the input channels, the batch, the EDF channels and the reorder *)
(* thread of mc_edf_elastic.rs no packet is lost and none is processed     *)
(* twice, although a worker puts the task in its hands back when a High    *)
(* packet comes: each packet is in one place, and there once.              *)
(***************************************************************************)
THEOREM TasksAreConserved == Spec => []TasksConserved
<1>1. FlowInv /\ ConserveInv => TasksConserved
  <2>. SUFFICES ASSUME FlowInv, ConserveInv PROVE TasksConserved
    OBVIOUS
  <2>1. Distinct(fifo)
    BY DEF FlowInv, HighChannel, Distinct
  <2>. QED
    BY <2>1, ApartAreLocated DEF ConserveInv, TasksConserved
<1>2. Init => BalanceInv /\ FlowInv /\ ConserveInv
  BY BalanceInit, FlowInitially, ConserveInitially
<1>3. BalanceInv /\ FlowInv /\ ConserveInv /\ [Next]_vars =>
        (BalanceInv /\ FlowInv /\ ConserveInv)'
  BY BalanceStep, StepKeepsFlow, StepConserves
<1>. QED
  BY <1>1, <1>2, <1>3, PTL DEF Spec

=============================================================================
