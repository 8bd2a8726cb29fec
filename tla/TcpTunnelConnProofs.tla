------------------------- MODULE TcpTunnelConnProofs -------------------------
(***************************************************************************)
(* The send queue of a TCP tunnel connection, for any set of packets and   *)
(* any settings: writeLoop never misses a wake-up, every reference is held *)
(* and released once, the byte count and the limit are right, and no-drop  *)
(* packets are never dropped.                                              *)
(***************************************************************************)
EXTENDS TcpTunnelConn, SumLemmas

\* WriterAwake is inductive once the domains of two functions are known.
Awake ==
  /\ DOMAIN pusher = Packets /\ DOMAIN lane = Lanes
  /\ WriterAwake

\* The queue starts empty.
LEMMA AwakeInit == Init => Awake
  BY DEF Init, Awake, WriterAwake

\* Dropping the oldest bulk packets (push's overflow loop) fills no lane.
LEMMA DroppingFillsNothing ==
  ASSUME DOMAIN lane = Lanes, NEW p \in Packets, NEW l \in Lanes,
         lane[l] = <<>>
  PROVE  WithoutOldest(DropCount(p))[l] = <<>>
<1>1. CASE l # "bulk"
  BY <1>1 DEF WithoutOldest
<1>2. CASE l = "bulk"
  <2>1. DropCount(p) = 0
    <3>1. CASE ~Droppable(p)
      BY <3>1 DEF DropCount
    <3>2. CASE Droppable(p)
      <4> DEFINE S == {k \in 0 .. Len(lane["bulk"]) :
                        k = Len(lane["bulk"]) \/ ~Overflows(WithoutOldest(k), p)}
      <4>1. Len(lane["bulk"]) = 0
        BY <1>2
      <4>2. S = {0}
        BY <4>1
      <4>3. DropCount(p) = Min({0})
        BY <3>2, <4>2 DEF DropCount
      <4>4. QED
        BY <4>3 DEF Min
    <3>3. QED
      BY <3>1, <3>2
  <2>2. WithoutOldest(0)["bulk"] = SubSeq(<<>>, 0 + 1, Len(<<>>))
    BY <1>2 DEF WithoutOldest, Lanes
  <2>3. SubSeq(<<>>, 0 + 1, Len(<<>>)) = <<>>
    OBVIOUS
  <2>4. QED
    BY <1>2, <2>1, <2>2, <2>3
<1>3. QED
  BY <1>1, <1>2

\* A producer puts its token after its packet, and its step is between the two.
LEMMA AwakeProducer ==
  ASSUME Awake, NEW p \in Packets, Enqueue(p) \/ Producer(p)
  PROVE  Awake'
<1>1. CASE Enqueue(p)
  BY <1>1 DEF Enqueue, Awake, WriterAwake, writer
<1>2. CASE PushClosed(p)
  BY <1>2 DEF PushClosed, Awake, WriterAwake, writer
<1>3. CASE Push(p)
  <2>1. DOMAIN pusher' = Packets /\ ready' = ready /\ wr' = wr
    BY <1>3 DEF Push, Awake, writer
  <2>2. DOMAIN lane' = Lanes
    BY <1>3 DEF Push, Awake, WithoutOldest
  <2>3. CASE ~Refused(p)
    <3>1. pusher'[p] = "signal"
      BY <1>3, <2>3 DEF Push, Awake
    <3>2. QED
      BY <2>1, <2>2, <3>1 DEF Awake, WriterAwake
  <2>4. CASE Refused(p)
    <3>1. lane' = WithoutOldest(DropCount(p)) /\ pusher' = [pusher EXCEPT ![p] = "idle"]
      BY <1>3, <2>4 DEF Push
    <3>2. pusher[p] = "push"
      BY <1>3 DEF Push
    <3>3. ASSUME NEW l \in Lanes, lane'[l] # <<>>
          PROVE  lane[l] # <<>>
      BY <3>1, <3>3, DroppingFillsNothing DEF Awake
    <3>4. \A q \in Packets : pusher[q] = "signal" => pusher'[q] = "signal"
      BY <3>1, <3>2 DEF Awake
    <3>5. QED
      BY <2>1, <2>2, <3>3, <3>4 DEF Awake, WriterAwake
  <2>5. QED
    BY <2>3, <2>4
<1>4. CASE Signal(p)
  BY <1>4 DEF Signal, Awake, WriterAwake, writer, queue
<1>5. QED
  BY <1>1, <1>2, <1>3, <1>4 DEF Producer

\* pop leaves writeLoop waiting only after it found every lane empty.
LEMMA AwakePop ==
  ASSUME Awake, Pop
  PROVE  Awake'
<1>1. ASSUME NEW l \in Lanes, Take(l)
      PROVE  Awake'
  BY <1>1 DEF Take, Dequeue, Awake, WriterAwake
<1>2. CASE DropBulk
  BY <1>2 DEF DropBulk, Dequeue, Awake, WriterAwake, writer
<1>3. CASE PopEnd
  <2>1. CASE batch = <<>>
    <3>1. Len(batch) = 0 /\ 0 # WriteBatch
      BY <2>1, SettingsAssumption
    <3>2. \A l \in Lanes : lane[l] = <<>>
      BY <1>3, <3>1 DEF PopEnd
    <3>3. QED
      BY <1>3, <3>2 DEF PopEnd, Awake, WriterAwake
  <2>2. CASE batch # <<>>
    BY <1>3, <2>2 DEF PopEnd, Awake, WriterAwake
  <2>3. QED
    BY <2>1, <2>2
<1>4. QED
  BY <1>1, <1>2, <1>3
  DEF Pop, PopControl, PopPriority, PopReliable, PopBulk, Lanes

\* The other steps of writeLoop, and Close, empty lanes or leave them alone.
LEMMA AwakeRest ==
  ASSUME Awake,
         Write \/ Wake \/ WaitEnd \/ CloseBegin \/ QueueClose \/ DisconnectDone \/ Stop
  PROVE  Awake'
<1>1. CASE Write
  <2>1. CASE \E n \in 1 .. unsent : WriteSome(n)
    BY <2>1 DEF WriteSome, Awake, WriterAwake, queue
  <2>2. CASE WriteAll \/ WriteFail \/ DeadlineFail
    BY <2>2 DEF WriteAll, WriteFail, DeadlineFail, ReleaseBatch, Awake, WriterAwake,
             queue
  <2>3. QED
    BY <1>1, <2>1, <2>2 DEF Write
<1>2. CASE Wake \/ WaitEnd \/ DisconnectDone
  BY <1>2 DEF Wake, WaitEnd, DisconnectDone, Awake, WriterAwake, queue
<1>3. CASE CloseBegin \/ Stop
  BY <1>3 DEF CloseBegin, Stop, Awake, WriterAwake, queue, writer
<1>4. CASE QueueClose
  BY <1>4 DEF QueueClose, Awake, WriterAwake, writer
<1>5. QED
  BY <1>1, <1>2, <1>3, <1>4

\* writeLoop never sleeps on a queue that holds packets without a token in ready
\* or a producer about to put one (tcp_tunnel_queue.go, push and pop; tcp_tunnel.go,
\* writeLoop), for any packets, limits, batch size and failures.
THEOREM QueueWakesWriter == Spec => []WriterAwake
<1>1. Init => Awake
  BY AwakeInit
<1>2. Awake /\ [Next]_vars => Awake'
  <2>1. CASE Next
    BY <2>1, AwakeProducer, AwakePop, AwakeRest DEF Next
  <2>2. CASE UNCHANGED vars
    BY <2>2 DEF vars, queue, writer, Awake, WriterAwake
  <2>3. QED
    BY <2>1, <2>2
<1>3. Awake => WriterAwake
  BY DEF Awake
<1>4. QED
  BY <1>1, <1>2, <1>3, PTL DEF Spec

-----------------------------------------------------------------------------
(* References.                                                             *)

\* Some hand holds the reference to p.
Held(p) == pusher[p] = "push" \/ Queued(p) \/ p \in ToSet(batch)

\* What the variables of the queue are.
QueueTyped ==
  /\ lane \in [Lanes -> Seq(Packets)] /\ batch \in Seq(Packets)
  /\ pusher \in [Packets -> {"idle", "push", "signal"}] /\ refs \in [Packets -> Int]

\* No packet is queued, or to be written, twice.
NoDuplicates == Distinct(batch) /\ \A l \in Lanes : Distinct(lane[l])

\* A packet is only in the lane that push puts it in.
InOwnLane == \A l \in Lanes : \A p \in ToSet(lane[l]) : LaneOf(p) = l

\* Producer, lanes and batch do not share a packet.
OneHand ==
  \A p \in Packets :
    /\ pusher[p] = "push" => ~Queued(p) /\ p \notin ToSet(batch)
    /\ Queued(p) => p \notin ToSet(batch)

\* The count of references is what the hands hold.
RefsAreHeld == \A p \in Packets : refs[p] = IF Held(p) THEN 1 ELSE 0

HandsInv == QueueTyped /\ NoDuplicates /\ InOwnLane /\ OneHand /\ RefsAreHeld

\* Nothing is referenced at first.
LEMMA HandsInit ==
  ASSUME Init PROVE HandsInv
<1>1. \A l \in Lanes : ToSet(lane[l]) = {} /\ Distinct(lane[l])
  BY DEF Init, ToSet, Distinct
<1>2. ToSet(batch) = {} /\ Distinct(batch)
  BY DEF Init, ToSet, Distinct
<1>3. QueueTyped
  BY DEF Init, QueueTyped
<1> QED
  BY <1>1, <1>2, <1>3 DEF Init, HandsInv, NoDuplicates, InOwnLane, OneHand,
           RefsAreHeld, Held, Queued

\* The producer takes the reference.
LEMMA HandsEnqueue ==
  ASSUME HandsInv, NEW p \in Packets, Enqueue(p)
  PROVE  HandsInv'
<1> USE DEF HandsInv
<1>1. UNCHANGED <<lane, batch>>
  BY DEF Enqueue, writer
<1>2. ~Held(p) /\ pusher[p] = "idle" /\ refs[p] = 0
  BY DEF Enqueue, RefsAreHeld
<1>3. /\ pusher' = [pusher EXCEPT ![p] = "push"]
      /\ refs' = [refs EXCEPT ![p] = @ + 1]
  BY DEF Enqueue
<1>4. QueueTyped'
  BY <1>1, <1>3 DEF QueueTyped
<1>5. NoDuplicates' /\ InOwnLane'
  BY <1>1 DEF NoDuplicates, InOwnLane
<1>6. OneHand'
  BY <1>1, <1>2, <1>3 DEF OneHand, Held, Queued, QueueTyped
<1>7. RefsAreHeld'
  BY <1>1, <1>2, <1>3 DEF RefsAreHeld, Held, Queued, QueueTyped
<1> QED
  BY <1>4, <1>5, <1>6, <1>7

\* A closed queue lets go of it.
LEMMA HandsPushClosed ==
  ASSUME HandsInv, NEW p \in Packets, PushClosed(p)
  PROVE  HandsInv'
<1> USE DEF HandsInv
<1>1. UNCHANGED <<lane, batch>>
  BY DEF PushClosed, writer
<1>2. pusher[p] = "push"
  BY DEF PushClosed
<1>3. /\ pusher' = [pusher EXCEPT ![p] = "idle"]
      /\ refs' = Released(refs, {p})
  BY DEF PushClosed
<1>4. QueueTyped'
  BY <1>1, <1>3 DEF QueueTyped, Released
<1>5. NoDuplicates' /\ InOwnLane'
  BY <1>1 DEF NoDuplicates, InOwnLane
<1>6. OneHand'
  BY <1>1, <1>2, <1>3 DEF OneHand, Held, Queued, QueueTyped
<1>7. RefsAreHeld'
  BY <1>1, <1>2, <1>3 DEF RefsAreHeld, OneHand, Held, Queued, QueueTyped, Released
<1> QED
  BY <1>4, <1>5, <1>6, <1>7

\* What is left of the lanes when push has made room: lanes with fewer bulk packets.
LEMMA RoomMade ==
  ASSUME QueueTyped, NoDuplicates, NEW p \in Packets
  PROVE  LET ln == WithoutOldest(DropCount(p))
         IN  /\ ln \in [Lanes -> Seq(Packets)]
             /\ \A l \in Lanes : Distinct(ln[l]) /\ ToSet(ln[l]) \subseteq ToSet(lane[l])
             /\ \A l \in Lanes : l # "bulk" => ln[l] = lane[l]
<1> DEFINE B == lane["bulk"]
           K == {k \in 0 .. Len(B) : k = Len(B) \/ ~Overflows(WithoutOldest(k), p)}
<1>1. B \in Seq(Packets) /\ Distinct(B) /\ "bulk" \in Lanes
  BY DEF QueueTyped, NoDuplicates, Lanes
<1>2. DropCount(p) \in 0 .. Len(B)
  <2>1. CASE ~Droppable(p)
    BY <1>1, <2>1 DEF DropCount
  <2>2. CASE Droppable(p)
    <3>1. DropCount(p) = Min(K)
      BY <2>2 DEF DropCount
    <3>2. K \in SUBSET Nat /\ K # {} /\ K \subseteq 0 .. Len(B)
      BY <1>1
    <3> HIDE DEF K
    <3> QED
      BY <3>1, <3>2, LeastNatural
  <2> QED
    BY <2>1, <2>2
<1> DEFINE d == DropCount(p)
<1>3. /\ SubSeq(B, d + 1, Len(B)) \in Seq(Packets) /\ Distinct(SubSeq(B, d + 1, Len(B)))
      /\ ToSet(SubSeq(B, d + 1, Len(B))) \subseteq ToSet(B)
  <2> HIDE DEF B, d
  <2> QED
    BY <1>1, <1>2, SplitDistinct DEF d
<1>4. WithoutOldest(d) = [lane EXCEPT !["bulk"] = SubSeq(B, d + 1, Len(B))]
  BY DEF WithoutOldest, QueueTyped
<1> HIDE DEF d, B
<1>5. WithoutOldest(d) \in [Lanes -> Seq(Packets)]
  BY <1>3, <1>4 DEF QueueTyped
<1>6. \A l \in Lanes :
        WithoutOldest(d)[l] = IF l = "bulk" THEN SubSeq(B, d + 1, Len(B)) ELSE lane[l]
  BY <1>4 DEF QueueTyped
<1>7. \A l \in Lanes :
        Distinct(WithoutOldest(d)[l]) /\ ToSet(WithoutOldest(d)[l]) \subseteq ToSet(lane[l])
  BY <1>3, <1>6 DEF NoDuplicates, B
<1> QED
  BY <1>5, <1>6, <1>7 DEF d

\* Only droppable packets are in the bulk lane.
LEMMA LaneOfIsLane ==
  ASSUME NEW p
  PROVE  LaneOf(p) \in Lanes /\ (LaneOf(p) = "bulk" => Droppable(p))
BY DEF LaneOf, Lanes, Droppable

\* The bulk packets that push drops to make room for p.
Dropped(p) == ToSet(lane["bulk"]) \ ToSet(WithoutOldest(DropCount(p))["bulk"])

\* push adds its packet to the queue, if it has room, and drops only bulk packets.
LEMMA PushMoves ==
  ASSUME HandsInv, NEW p \in Packets, Push(p)
  PROVE  /\ QueueTyped' /\ NoDuplicates' /\ InOwnLane'
         /\ \A q \in Packets :
              Queued(q)' <=> (Queued(q) /\ q \notin Dropped(p)) \/ (~Refused(p) /\ q = p)
         /\ \A q \in Dropped(p) : q \in Packets /\ Queued(q) /\ q # p /\ Droppable(q)
         /\ ~Queued(p)
<1> USE DEF HandsInv
<1> DEFINE ln == WithoutOldest(DropCount(p))
           l0 == LaneOf(p)
<1>1. /\ pusher[p] = "push" /\ batch' = batch
      /\ pusher' = [pusher EXCEPT ![p] = IF Refused(p) THEN "idle" ELSE "signal"]
      /\ \E S : refs' = Released(refs, S)
      /\ lane' = IF Refused(p) THEN ln ELSE [ln EXCEPT ![l0] = Append(@, p)]
  BY DEF Push, writer
<1>2. /\ ln \in [Lanes -> Seq(Packets)]
      /\ \A l \in Lanes : Distinct(ln[l]) /\ ToSet(ln[l]) \subseteq ToSet(lane[l])
      /\ \A l \in Lanes : l # "bulk" => ln[l] = lane[l]
  BY RoomMade
<1>3. l0 \in Lanes /\ "bulk" \in Lanes
  BY LaneOfIsLane DEF Lanes
<1> HIDE DEF ln, l0
<1>4. ~Queued(p) /\ \A l \in Lanes : p \notin ToSet(lane[l]) /\ p \notin ToSet(ln[l])
  BY <1>1, <1>2 DEF OneHand, Queued
<1>5. /\ Append(ln[l0], p) \in Seq(Packets) /\ Distinct(Append(ln[l0], p))
      /\ ToSet(Append(ln[l0], p)) = ToSet(ln[l0]) \cup {p}
  BY <1>2, <1>3, <1>4, AppendDistinct
<1>6. \A l \in Lanes : lane'[l] = IF ~Refused(p) /\ l = l0 THEN Append(ln[l], p) ELSE ln[l]
  BY <1>1, <1>2, <1>3
<1>7. \A l \in Lanes :
        ToSet(lane'[l]) = IF ~Refused(p) /\ l = l0 THEN ToSet(ln[l]) \cup {p} ELSE ToSet(ln[l])
  BY <1>5, <1>6
<1>8. QueueTyped'
  BY <1>1, <1>2, <1>3, <1>5 DEF QueueTyped, Released
<1>9. NoDuplicates'
  BY <1>1, <1>2, <1>5, <1>6 DEF NoDuplicates
<1>10. InOwnLane'
  BY <1>2, <1>7 DEF InOwnLane, l0
<1>11. Dropped(p) = ToSet(lane["bulk"]) \ ToSet(ln["bulk"])
  BY DEF Dropped, ln
<1>12. ASSUME NEW q \in Packets
       PROVE  Queued(q)' <=> (Queued(q) /\ q \notin Dropped(p)) \/ (~Refused(p) /\ q = p)
  <2>1. CASE q = p
    BY <1>3, <1>4, <1>7, <2>1 DEF Queued
  <2>2. CASE q # p
    <3>1. Queued(q)' <=> \E l \in Lanes : q \in ToSet(ln[l])
      BY <1>7, <2>2 DEF Queued
    <3>2. ASSUME q \in Dropped(p), NEW l \in Lanes, q \in ToSet(ln[l])
          PROVE  FALSE
      <4>1. LaneOf(q) = "bulk" /\ LaneOf(q) = l
        BY <1>2, <1>3, <1>11, <3>2 DEF InOwnLane
      <4> QED
        BY <1>11, <3>2, <4>1
    <3>3. q \notin Dropped(p) /\ Queued(q) => \E l \in Lanes : q \in ToSet(ln[l])
      BY <1>2, <1>11 DEF Queued
    <3> QED
      BY <1>2, <2>2, <3>1, <3>2, <3>3 DEF Queued
  <2> QED
    BY <2>1, <2>2
<1>13. ASSUME NEW q \in Dropped(p)
       PROVE  q \in Packets /\ Queued(q) /\ q # p /\ Droppable(q)
  <2>1. q \in ToSet(lane["bulk"])
    BY <1>11
  <2>2. q \in Packets
    BY <1>3, <2>1 DEF QueueTyped, ToSet
  <2> QED
    BY <1>3, <1>4, <2>1, <2>2, LaneOfIsLane DEF Queued, InOwnLane
<1> QED
  BY <1>4, <1>8, <1>9, <1>10, <1>12, <1>13

\* push takes the producer's reference into a lane, or lets go of it, and lets go of
\* those of the bulk packets it drops.
LEMMA HandsPush ==
  ASSUME HandsInv, NEW p \in Packets, Push(p)
  PROVE  HandsInv'
<1> USE DEF HandsInv
<1> DEFINE gone == IF Refused(p) THEN Dropped(p) \cup {p} ELSE Dropped(p)
<1>1. /\ pusher[p] = "push" /\ batch' = batch
      /\ pusher' = [pusher EXCEPT ![p] = IF Refused(p) THEN "idle" ELSE "signal"]
      /\ refs' = Released(refs, gone)
  BY DEF Push, writer, Dropped
<1>2. /\ QueueTyped' /\ NoDuplicates' /\ InOwnLane'
      /\ \A q \in Packets :
           Queued(q)' <=> (Queued(q) /\ q \notin Dropped(p)) \/ (~Refused(p) /\ q = p)
      /\ \A q \in Dropped(p) : q \in Packets /\ Queued(q) /\ q # p
  BY PushMoves
<1>3. OneHand'
  BY <1>1, <1>2 DEF OneHand, QueueTyped
<1>4. RefsAreHeld'
  <2> SUFFICES ASSUME NEW q \in Packets
               PROVE  refs'[q] = IF Held(q)' THEN 1 ELSE 0
    BY DEF RefsAreHeld
  <2>1. refs'[q] = IF q \in gone THEN refs[q] - 1 ELSE refs[q]
    BY <1>1 DEF Released
  <2>2. CASE q = p
    BY <1>1, <1>2, <2>1, <2>2 DEF RefsAreHeld, Held, OneHand, QueueTyped
  <2>3. CASE q # p
    BY <1>1, <1>2, <2>1, <2>3 DEF RefsAreHeld, Held, OneHand, QueueTyped
  <2> QED
    BY <2>2, <2>3
<1> QED
  BY <1>2, <1>3, <1>4

\* What the head of a lane leaves behind.
LEMMA LaneTail ==
  ASSUME HandsInv, NEW l \in Lanes, lane[l] # <<>>, lane' = [lane EXCEPT ![l] = Tail(@)]
  PROVE  /\ lane' \in [Lanes -> Seq(Packets)]
         /\ \A m \in Lanes : Distinct(lane'[m]) /\ ToSet(lane'[m]) \subseteq ToSet(lane[m])
         /\ Head(lane[l]) \in Packets /\ Queued(Head(lane[l]))
         /\ \A q \in Packets : Queued(q)' <=> Queued(q) /\ q # Head(lane[l])
<1> USE DEF HandsInv
<1> DEFINE h == Head(lane[l])
<1>1. /\ Tail(lane[l]) \in Seq(Packets) /\ Distinct(Tail(lane[l]))
      /\ h \in ToSet(lane[l]) /\ ToSet(Tail(lane[l])) = ToSet(lane[l]) \ {h}
  BY TailDistinct DEF QueueTyped, NoDuplicates
<1>2. h \in Packets
  BY <1>1 DEF QueueTyped, ToSet
<1> HIDE DEF h
<1>3. \A m \in Lanes : lane'[m] = IF m = l THEN Tail(lane[l]) ELSE lane[m]
  BY DEF QueueTyped
<1>4. \A m \in Lanes : ToSet(lane'[m]) = ToSet(lane[m]) \ {h}
  <2> SUFFICES ASSUME NEW m \in Lanes, m # l
               PROVE  h \notin ToSet(lane[m])
    BY <1>1, <1>3
  <2> QED
    BY <1>1 DEF InOwnLane
<1>5. lane' \in [Lanes -> Seq(Packets)]
  BY <1>1 DEF QueueTyped
<1>6. \A m \in Lanes : Distinct(lane'[m])
  BY <1>1, <1>3 DEF NoDuplicates
<1>7. \A q \in Packets : Queued(q)' <=> Queued(q) /\ q # h
  BY <1>4 DEF Queued
<1>8. Queued(h)
  BY <1>1 DEF Queued
<1> QED
  BY <1>2, <1>4, <1>5, <1>6, <1>7, <1>8 DEF h

\* pop moves the head of a lane, with its reference, into the batch.
LEMMA HandsTake ==
  ASSUME HandsInv, NEW l \in Lanes, lane[l] # <<>>, Take(l)
  PROVE  HandsInv'
<1> USE DEF HandsInv
<1> DEFINE h == Head(lane[l])
<1>1. lane' = [lane EXCEPT ![l] = Tail(@)] /\ batch' = Append(batch, h) /\ UNCHANGED <<pusher, refs>>
  BY DEF Take, Dequeue
<1>2. /\ lane' \in [Lanes -> Seq(Packets)]
      /\ \A m \in Lanes : Distinct(lane'[m]) /\ ToSet(lane'[m]) \subseteq ToSet(lane[m])
      /\ h \in Packets /\ Queued(h)
      /\ \A q \in Packets : Queued(q)' <=> Queued(q) /\ q # h
  BY <1>1, LaneTail
<1> HIDE DEF h
<1>3. batch' \in Seq(Packets) /\ Distinct(batch') /\ ToSet(batch') = ToSet(batch) \cup {h}
  BY <1>1, <1>2, AppendDistinct DEF OneHand, QueueTyped, NoDuplicates
<1>4. QueueTyped' /\ NoDuplicates'
  BY <1>1, <1>2, <1>3 DEF QueueTyped, NoDuplicates
<1>5. InOwnLane'
  BY <1>2 DEF InOwnLane
<1>6. OneHand'
  BY <1>1, <1>2, <1>3 DEF OneHand
<1>7. RefsAreHeld'
  BY <1>1, <1>2, <1>3 DEF RefsAreHeld, Held
<1> QED
  BY <1>4, <1>5, <1>6, <1>7

\* CoDel lets go of the packet it drops.
LEMMA HandsDropBulk ==
  ASSUME HandsInv, DropBulk
  PROVE  HandsInv'
<1> USE DEF HandsInv
<1> DEFINE h == Head(lane["bulk"])
<1>1. /\ lane' = [lane EXCEPT !["bulk"] = Tail(@)] /\ refs' = Released(refs, {h})
      /\ UNCHANGED <<pusher, batch>> /\ lane["bulk"] # <<>> /\ "bulk" \in Lanes
  BY DEF DropBulk, Dequeue, BulkGoes, writer, Lanes
<1>2. /\ lane' \in [Lanes -> Seq(Packets)]
      /\ \A m \in Lanes : Distinct(lane'[m]) /\ ToSet(lane'[m]) \subseteq ToSet(lane[m])
      /\ h \in Packets /\ Queued(h)
      /\ \A q \in Packets : Queued(q)' <=> Queued(q) /\ q # h
  BY <1>1, LaneTail
<1> HIDE DEF h
<1>3. QueueTyped' /\ NoDuplicates'
  BY <1>1, <1>2 DEF QueueTyped, NoDuplicates, Released
<1>4. InOwnLane'
  BY <1>2 DEF InOwnLane
<1>5. OneHand'
  BY <1>1, <1>2 DEF OneHand
<1>6. RefsAreHeld'
  <2> SUFFICES ASSUME NEW q \in Packets
               PROVE  refs'[q] = IF Held(q)' THEN 1 ELSE 0
    BY DEF RefsAreHeld
  <2>1. refs'[q] = IF q = h THEN refs[q] - 1 ELSE refs[q]
    BY <1>1 DEF Released
  <2> QED
    BY <1>1, <1>2, <2>1 DEF RefsAreHeld, Held, OneHand, QueueTyped
<1> QED
  BY <1>3, <1>4, <1>5, <1>6

\* Some of the batch is written: the packets that are complete are let go of.
LEMMA HandsRelease ==
  ASSUME HandsInv, NEW k \in 0 .. Len(batch),
         batch' = SubSeq(batch, k + 1, Len(batch)),
         refs' = Released(refs, ToSet(SubSeq(batch, 1, k))),
         UNCHANGED <<lane, pusher>>
  PROVE  HandsInv'
<1> USE DEF HandsInv
<1> DEFINE f == ToSet(SubSeq(batch, 1, k))
<1>1. /\ batch' \in Seq(Packets) /\ Distinct(batch')
      /\ f \subseteq ToSet(batch) /\ ToSet(batch') = ToSet(batch) \ f
  BY SplitDistinct DEF QueueTyped, NoDuplicates
<1> HIDE DEF f
<1>2. \A q \in Packets : Queued(q)' <=> Queued(q)
  BY DEF Queued
<1>3. \A q \in Packets : refs'[q] = IF q \in f THEN refs[q] - 1 ELSE refs[q]
  BY DEF Released, f
<1>4. QueueTyped' /\ NoDuplicates' /\ InOwnLane'
  BY <1>1 DEF QueueTyped, NoDuplicates, InOwnLane, Released
<1>5. OneHand'
  BY <1>1, <1>2 DEF OneHand
<1>6. RefsAreHeld'
  BY <1>1, <1>2, <1>3 DEF RefsAreHeld, Held, OneHand, QueueTyped
<1> QED
  BY <1>4, <1>5, <1>6


\* Sums of wire bytes over finite sets of packets.
LEMMA BytesLaws ==
  /\ Bytes({}) = 0
  /\ \A S \in SUBSET Packets : IsFiniteSet(S) => Bytes(S) \in Nat
  /\ \A S \in SUBSET Packets : IsFiniteSet(S) =>
       /\ \A T \in SUBSET S : Bytes(T) <= Bytes(S) /\ Bytes(S \ T) = Bytes(S) - Bytes(T)
       /\ \A p \in S : Bytes(S \ {p}) = Bytes(S) - Wire[p]
       /\ \A p \in Packets : p \notin S => Bytes(S \cup {p}) = Bytes(S) + Wire[p]
<1>1. Wire \in [Packets -> Nat]
  BY PacketsAssumption
<1>2. Bytes({}) = 0
  BY <1>1, SumEmpty DEF Bytes
<1>3. ASSUME NEW S \in SUBSET Packets, IsFiniteSet(S)
      PROVE  Bytes(S) \in Nat
  BY <1>1, <1>3, SumType DEF Bytes
<1>4. ASSUME NEW S \in SUBSET Packets, IsFiniteSet(S)
      PROVE  /\ \A T \in SUBSET S : Bytes(T) <= Bytes(S) /\ Bytes(S \ T) = Bytes(S) - Bytes(T)
             /\ \A p \in S : Bytes(S \ {p}) = Bytes(S) - Wire[p]
             /\ \A p \in Packets : p \notin S => Bytes(S \cup {p}) = Bytes(S) + Wire[p]
  <2>1. ASSUME NEW T \in SUBSET S
        PROVE  Bytes(T) <= Bytes(S) /\ Bytes(S \ T) = Bytes(S) - Bytes(T)
    <3> DEFINE R == S \ T
    <3>1. /\ IsFiniteSet(T) /\ IsFiniteSet(R) /\ T \in SUBSET Packets /\ R \in SUBSET Packets
          /\ T \cap R = {} /\ T \cup R = S
      BY <1>4, FS_Subset
    <3> HIDE DEF R
    <3>2. Bytes(T \cup R) = Bytes(T) + Bytes(R)
      BY <1>1, <3>1, SumUnion DEF Bytes
    <3>3. Bytes(S) = Bytes(T) + Bytes(R) /\ Bytes(T) \in Nat /\ Bytes(R) \in Nat
      BY <1>3, <3>1, <3>2
    <3>4. Bytes(T) <= Bytes(S) /\ Bytes(R) = Bytes(S) - Bytes(T)
      BY <3>3
    <3> QED
      BY <3>4 DEF R
  <2>2. ASSUME NEW p \in S
        PROVE  Bytes(S \ {p}) = Bytes(S) - Wire[p]
    <3>1. Bytes(S) = Wire[p] + Bytes(S \ {p})
      BY <1>1, <1>4, SumRemove DEF Bytes
    <3>2. IsFiniteSet(S \ {p}) /\ S \ {p} \in SUBSET Packets
      BY <1>4, FS_RemoveElement
    <3>3. Bytes(S \ {p}) \in Nat /\ Wire[p] \in Nat
      BY <1>1, <1>3, <3>2
    <3> QED
      BY <3>1, <3>3
  <2>3. ASSUME NEW p \in Packets, p \notin S
        PROVE  Bytes(S \cup {p}) = Bytes(S) + Wire[p]
    <3>1. Bytes(S \cup {p}) = Wire[p] + Bytes(S)
      BY <1>1, <1>4, <2>3, SumAdd DEF Bytes
    <3>2. Bytes(S) \in Nat /\ Wire[p] \in Nat
      BY <1>1, <1>3, <1>4
    <3> QED
      BY <3>1, <3>2
  <2> QED
    BY <2>1, <2>2, <2>3
<1> QED
  BY <1>2, <1>3, <1>4

\* The packets that n bytes complete are a prefix of the batch, of at most n bytes.
LEMMA CompleteIsPrefix ==
  ASSUME batch \in Seq(Packets), NEW n \in Nat
  PROVE  Complete(n) \in 0 .. Len(batch) /\ Bytes(ToSet(SubSeq(batch, 1, Complete(n)))) <= n
<1> DEFINE K == {k \in 0 .. Len(batch) : Bytes(ToSet(SubSeq(batch, 1, k))) <= n}
<1>1. 0 \in 0 .. Len(batch) /\ Len(batch) \in Nat
  OBVIOUS
<1>2. ToSet(SubSeq(batch, 1, 0)) = {}
  BY DEF ToSet
<1>3. Bytes(ToSet(SubSeq(batch, 1, 0))) = 0
  BY <1>2, BytesLaws, Zenon
<1>4. 0 \in K
  BY <1>1, <1>3
<1>5. K \subseteq 0 .. Len(batch) /\ Complete(n) = Max(K)
  BY DEF Complete
<1> HIDE DEF K
<1>6. Complete(n) \in K
  BY <1>1, <1>4, <1>5, GreatestUpTo
<1> QED
  BY <1>6 DEF K

-----------------------------------------------------------------------------
(* Bytes.                                                                  *)

QueuedSet == {p \in Packets : Queued(p)}
DroppableSet == {p \in Packets : Queued(p) /\ Droppable(p)}

\* The byte count, the limit, and the bytes written and still to be written.
CountInv == done \in Nat /\ unsent \in Nat /\ BacklogIsQueued /\ DroppableWithinLimit

QueueInv == HandsInv /\ CountInv

\* Only finitely many packets are queued.
LEMMA QueuedFinite ==
  ASSUME QueueTyped
  PROVE  /\ IsFiniteSet(QueuedSet) /\ QueuedSet \in SUBSET Packets
         /\ DroppableSet \in SUBSET QueuedSet
         /\ QueuedSet = UNION {ToSet(lane[l]) : l \in Lanes}
<1>1. \A l \in Lanes : IsFiniteSet(ToSet(lane[l])) /\ ToSet(lane[l]) \subseteq Packets
  BY ToSetFinite DEF QueueTyped
<1>2. QueuedSet = UNION {ToSet(lane[l]) : l \in Lanes}
  BY <1>1 DEF QueuedSet, Queued
<1>3. QueuedSet = (ToSet(lane["control"]) \cup ToSet(lane["priority"]))
                  \cup (ToSet(lane["bulk"]) \cup ToSet(lane["reliable"]))
  BY <1>2 DEF Lanes
<1>4. /\ IsFiniteSet(ToSet(lane["control"])) /\ IsFiniteSet(ToSet(lane["priority"]))
      /\ IsFiniteSet(ToSet(lane["bulk"])) /\ IsFiniteSet(ToSet(lane["reliable"]))
  BY <1>1 DEF Lanes
<1>5. /\ IsFiniteSet(ToSet(lane["control"]) \cup ToSet(lane["priority"]))
      /\ IsFiniteSet(ToSet(lane["bulk"]) \cup ToSet(lane["reliable"]))
  BY <1>4, FS_Union
<1>6. IsFiniteSet(QueuedSet)
  BY <1>3, <1>5, FS_Union
<1> QED
  BY <1>2, <1>6 DEF QueuedSet, DroppableSet

\* A step that takes the packets of S, and their bytes, off the queue.
LEMMA CountShrinks ==
  ASSUME QueueInv, NEW S \in SUBSET QueuedSet,
         \A q \in Packets : Queued(q)' <=> Queued(q) /\ q \notin S,
         queued' = queued - Bytes(S)
  PROVE  BacklogIsQueued' /\ DroppableWithinLimit'
<1>1. IsFiniteSet(QueuedSet) /\ QueuedSet \in SUBSET Packets /\ DroppableSet \in SUBSET QueuedSet
  BY QueuedFinite DEF QueueInv, HandsInv
<1>2. queued = Bytes(QueuedSet) /\ Bytes(DroppableSet) <= Limit
  BY DEF QueueInv, CountInv, BacklogIsQueued, DroppableWithinLimit, QueuedSet,
           DroppableSet
<1>3. QueuedSet' = QueuedSet \ S /\ DroppableSet' \in SUBSET DroppableSet
  BY DEF QueuedSet, DroppableSet, Droppable
<1>4. Bytes(QueuedSet \ S) = Bytes(QueuedSet) - Bytes(S)
  BY <1>1, BytesLaws
<1>5. IsFiniteSet(DroppableSet) /\ DroppableSet \in SUBSET Packets
      /\ IsFiniteSet(DroppableSet') /\ DroppableSet' \in SUBSET Packets
  BY <1>1, <1>3, FS_Subset
<1>6. /\ Bytes(DroppableSet') <= Bytes(DroppableSet)
      /\ Bytes(DroppableSet') \in Nat /\ Bytes(DroppableSet) \in Nat
  BY <1>3, <1>5, BytesLaws
<1>7. Bytes(DroppableSet') <= Limit
  BY <1>2, <1>6, SettingsAssumption
<1>8. queued' = Bytes(QueuedSet')
  BY <1>2, <1>3, <1>4
<1> QED
  BY <1>7, <1>8 DEF BacklogIsQueued, DroppableWithinLimit, QueuedSet, DroppableSet,
           Bytes

\* What the limit bounds holds every droppable packet that is queued once push has
\* made room.
LEMMA RoomForDroppable ==
  ASSUME HandsInv, NEW p \in Packets, Push(p), Droppable(p), ~Refused(p)
  PROVE  /\ DroppableSet' \ {p} \in SUBSET Packets /\ IsFiniteSet(DroppableSet' \ {p})
         /\ Bytes(DroppableSet' \ {p}) + Wire[p] <= Limit
<1> USE DEF HandsInv
<1> DEFINE ln == WithoutOldest(DropCount(p))
           data == ToSet(ln["priority"]) \cup (ToSet(ln["bulk"]) \cup ToSet(ln["reliable"]))
<1>1. /\ ln \in [Lanes -> Seq(Packets)]
      /\ \A l \in Lanes : ToSet(ln[l]) \subseteq ToSet(lane[l])
  BY RoomMade
<1>2. lane' = [ln EXCEPT ![LaneOf(p)] = Append(@, p)]
  BY DEF Push
<1>3. ~(DataBytes(ln) + Wire[p] > Limit)
  BY DEF Refused, Overflows
<1> HIDE DEF ln
<1>4. /\ IsFiniteSet(ToSet(ln["priority"])) /\ ToSet(ln["priority"]) \subseteq Packets
      /\ IsFiniteSet(ToSet(ln["bulk"])) /\ ToSet(ln["bulk"]) \subseteq Packets
      /\ IsFiniteSet(ToSet(ln["reliable"])) /\ ToSet(ln["reliable"]) \subseteq Packets
  BY <1>1, ToSetFinite DEF Lanes
<1>5. IsFiniteSet(ToSet(ln["bulk"]) \cup ToSet(ln["reliable"]))
  BY <1>4, FS_Union
<1>6. IsFiniteSet(data) /\ data \in SUBSET Packets
  BY <1>4, <1>5, FS_Union
<1>7. DataBytes(ln) = Bytes(data)
  <2>1. data = ToSet(ln["priority"]) \cup ToSet(ln["bulk"]) \cup ToSet(ln["reliable"])
    OBVIOUS
  <2> QED
    BY <2>1 DEF DataBytes
<1>8. ASSUME NEW q \in DroppableSet', q # p
      PROVE  q \in data
  <2>1. q \in Packets /\ Droppable(q) /\ Queued(q)'
    BY DEF DroppableSet, Droppable
  <2>2. PICK l \in Lanes : q \in ToSet(lane'[l])
    BY <2>1 DEF Queued
  <2>3. q \in ToSet(ln[l])
    <3>1. CASE l # LaneOf(p)
      BY <1>1, <1>2, <2>2, <3>1
    <3>2. CASE l = LaneOf(p)
      <4>1. lane'[l] = Append(ln[l], p) /\ ln[l] \in Seq(Packets)
        BY <1>1, <1>2, <3>2
      <4> QED
        BY <1>8, <2>2, <4>1 DEF ToSet
    <3> QED
      BY <3>1, <3>2
  <2>4. l # "control"
    BY <1>1, <2>1, <2>3 DEF InOwnLane, LaneOf, Droppable, Small
  <2> QED
    BY <2>3, <2>4 DEF Lanes
<1> HIDE DEF data
<1>9. DroppableSet' \ {p} \in SUBSET data
  BY <1>8
<1>10. IsFiniteSet(DroppableSet' \ {p}) /\ DroppableSet' \ {p} \in SUBSET Packets
  BY <1>6, <1>9, FS_Subset
<1>11. /\ Bytes(DroppableSet' \ {p}) <= Bytes(data)
       /\ Bytes(DroppableSet' \ {p}) \in Nat /\ Bytes(data) \in Nat
  BY <1>6, <1>9, <1>10, BytesLaws
<1> QED
  BY <1>3, <1>7, <1>10, <1>11, PacketsAssumption, SettingsAssumption

\* push counts what it adds and what it drops.
LEMMA CountPush ==
  ASSUME QueueInv, NEW p \in Packets, Push(p)
  PROVE  BacklogIsQueued' /\ DroppableWithinLimit'
<1> USE DEF QueueInv
<1>1. /\ \A q \in Packets :
           Queued(q)' <=> (Queued(q) /\ q \notin Dropped(p)) \/ (~Refused(p) /\ q = p)
      /\ \A q \in Dropped(p) : q \in Packets /\ Queued(q) /\ q # p /\ Droppable(q)
      /\ ~Queued(p)
  BY PushMoves
<1>2. queued' = queued - Bytes(Dropped(p)) + (IF Refused(p) THEN 0 ELSE Wire[p])
  BY DEF Push, Dropped
<1>3. IsFiniteSet(QueuedSet) /\ QueuedSet \in SUBSET Packets /\ DroppableSet \in SUBSET QueuedSet
  BY QueuedFinite DEF HandsInv
<1>4. Dropped(p) \in SUBSET QueuedSet
  BY <1>1 DEF QueuedSet
<1>5. queued = Bytes(QueuedSet) /\ Bytes(QueuedSet) \in Nat
  BY <1>3, BytesLaws DEF CountInv, BacklogIsQueued, QueuedSet
<1>6. Bytes(Dropped(p)) \in Nat
  BY <1>3, <1>4, BytesLaws, FS_Subset
<1>7. CASE Refused(p)
  <2>1. queued' = queued - Bytes(Dropped(p))
    BY <1>2, <1>5, <1>6, <1>7
  <2>2. \A q \in Packets : Queued(q)' <=> Queued(q) /\ q \notin Dropped(p)
    BY <1>1, <1>7
  <2> QED
    BY <1>4, <2>1, <2>2, CountShrinks
<1>8. CASE ~Refused(p)
  <2> DEFINE kept == QueuedSet \ Dropped(p)
  <2>1. QueuedSet' = kept \cup {p} /\ p \notin kept
    BY <1>1, <1>8 DEF QueuedSet
  <2>2. IsFiniteSet(kept) /\ kept \in SUBSET Packets
    BY <1>3, FS_Subset
  <2>3. Bytes(kept) = Bytes(QueuedSet) - Bytes(Dropped(p)) /\ Bytes(kept) \in Nat
    BY <1>3, <1>4, <2>2, BytesLaws
  <2> HIDE DEF kept
  <2>4. Bytes(kept \cup {p}) = Bytes(kept) + Wire[p] /\ Wire[p] \in Nat
    BY <2>1, <2>2, BytesLaws, PacketsAssumption
  <2>5. queued' = Bytes(kept) + Wire[p]
    BY <1>2, <1>5, <1>6, <1>8, <2>3, <2>4
  <2>6. BacklogIsQueued'
    <3>1. queued' = Bytes(QueuedSet')
      BY <2>1, <2>4, <2>5
    <3> QED
      BY <3>1 DEF BacklogIsQueued, QueuedSet, Bytes
  <2>7. Bytes(DroppableSet') <= Limit
    <3>1. CASE Droppable(p)
      <4> DEFINE S == DroppableSet' \ {p}
      <4>1. S \in SUBSET Packets /\ IsFiniteSet(S) /\ Bytes(S) + Wire[p] <= Limit
        BY <1>8, <3>1, RoomForDroppable
      <4>2. p \notin S /\ DroppableSet' = S \cup {p}
        BY <1>1, <1>8, <3>1 DEF DroppableSet, Droppable
      <4> HIDE DEF S
      <4>3. Bytes(S \cup {p}) = Bytes(S) + Wire[p]
        BY <4>1, <4>2, BytesLaws
      <4> QED
        BY <4>1, <4>2, <4>3
    <3>2. CASE ~Droppable(p)
      <4>1. DroppableSet' \in SUBSET DroppableSet
        BY <1>1, <3>2 DEF DroppableSet, Droppable
      <4>2. IsFiniteSet(DroppableSet) /\ DroppableSet \in SUBSET Packets
        BY <1>3, FS_Subset
      <4>3. Bytes(DroppableSet') <= Bytes(DroppableSet) /\ Bytes(DroppableSet) <= Limit
        BY <4>1, <4>2, BytesLaws DEF CountInv, DroppableWithinLimit, DroppableSet
      <4>4. Bytes(DroppableSet) \in Nat /\ Bytes(DroppableSet') \in Nat
        BY <4>1, <4>2, BytesLaws, FS_Subset
      <4> QED
        BY <4>3, <4>4, SettingsAssumption
    <3> QED
      BY <3>1, <3>2
  <2>8. DroppableWithinLimit'
    BY <2>7 DEF DroppableWithinLimit, DroppableSet, Bytes
  <2> QED
    BY <2>6, <2>8
<1> QED
  BY <1>7, <1>8

-----------------------------------------------------------------------------
(* The invariant.                                                          *)

\* Steps that move no packet; a producer's signal is none of its references.
LEMMA QueueUnmoved ==
  ASSUME QueueInv, UNCHANGED <<lane, batch, refs, queued, done>>, unsent' \in Nat,
         \/ pusher' = pusher
         \/ \E p \in Packets : pusher[p] = "signal" /\ pusher' = [pusher EXCEPT ![p] = "idle"]
  PROVE  QueueInv'
<1> USE DEF QueueInv, HandsInv
<1>1. /\ pusher' \in [Packets -> {"idle", "push", "signal"}]
      /\ \A q \in Packets : pusher'[q] = "push" <=> pusher[q] = "push"
  BY DEF QueueTyped
<1>2. QueueTyped' /\ NoDuplicates' /\ InOwnLane'
  BY <1>1 DEF QueueTyped, NoDuplicates, InOwnLane
<1>3. OneHand' /\ RefsAreHeld'
  BY <1>1 DEF OneHand, RefsAreHeld, Held, Queued
<1>4. CountInv'
  BY DEF CountInv, BacklogIsQueued, DroppableWithinLimit, Queued, Droppable, Bytes
<1> QED
  BY <1>2, <1>3, <1>4

LEMMA QueueProducer ==
  ASSUME QueueInv, NEW p \in Packets, Enqueue(p) \/ Producer(p)
  PROVE  QueueInv'
<1> USE DEF QueueInv
<1>1. ASSUME UNCHANGED <<lane, queued, done, unsent>>
      PROVE  CountInv'
  BY <1>1 DEF CountInv, BacklogIsQueued, DroppableWithinLimit, Queued, Droppable, Bytes
<1>2. CASE Enqueue(p)
  BY <1>1, <1>2, HandsEnqueue DEF Enqueue, writer
<1>3. CASE PushClosed(p)
  BY <1>1, <1>3, HandsPushClosed DEF PushClosed, writer
<1>4. CASE Push(p)
  <2>1. done' = done /\ unsent' = unsent
    BY <1>4 DEF Push, writer
  <2> QED
    BY <1>4, <2>1, HandsPush, CountPush DEF CountInv
<1>5. CASE Signal(p)
  BY <1>5, QueueUnmoved DEF Signal, queue, writer, CountInv
<1> QED
  BY <1>2, <1>3, <1>4, <1>5 DEF Producer

\* A packet taken off the queue takes its bytes along.
LEMMA CountDequeue ==
  ASSUME QueueInv, NEW l \in Lanes, lane[l] # <<>>, Dequeue(l), UNCHANGED <<done, unsent>>
  PROVE  CountInv'
<1> USE DEF QueueInv
<1> DEFINE h == Head(lane[l])
<1>1. lane' = [lane EXCEPT ![l] = Tail(@)] /\ queued' = queued - Wire[h]
  BY DEF Dequeue
<1>2. h \in Packets /\ Queued(h) /\ \A q \in Packets : Queued(q)' <=> Queued(q) /\ q # h
  BY <1>1, LaneTail
<1> HIDE DEF h
<1>3. Bytes({h}) = Wire[h]
  <2>1. IsFiniteSet({}) /\ {} \in SUBSET Packets /\ h \notin {} /\ {} \cup {h} = {h}
    BY FS_EmptySet
  <2>2. Bytes({} \cup {h}) = Bytes({}) + Wire[h] /\ Bytes({}) = 0 /\ Wire[h] \in Nat
    BY <1>2, <2>1, BytesLaws, PacketsAssumption
  <2>3. Bytes({h}) = Bytes({}) + Wire[h]
    BY <2>1, <2>2
  <2> QED
    BY <2>2, <2>3
<1>4. {h} \in SUBSET QueuedSet
  BY <1>2 DEF QueuedSet
<1>5. queued' = queued - Bytes({h})
  BY <1>1, <1>3
<1>6. BacklogIsQueued' /\ DroppableWithinLimit'
  BY <1>2, <1>4, <1>5, CountShrinks
<1> QED
  BY <1>6 DEF CountInv

LEMMA QueuePop ==
  ASSUME QueueInv, Pop
  PROVE  QueueInv'
<1> USE DEF QueueInv
<1>1. ASSUME NEW l \in Lanes, lane[l] # <<>>, Take(l)
      PROVE  QueueInv'
  BY <1>1, HandsTake, CountDequeue DEF Take
<1>2. CASE DropBulk
  <2>1. lane["bulk"] # <<>> /\ "bulk" \in Lanes /\ Dequeue("bulk") /\ UNCHANGED <<done, unsent>>
    BY <1>2 DEF DropBulk, BulkGoes, Lanes, writer
  <2> QED
    BY <1>2, <2>1, HandsDropBulk, CountDequeue
<1>3. CASE PopEnd
  <2>1. unsent' = Bytes(ToSet(batch)) /\ batch \in Seq(Packets)
    BY <1>3 DEF PopEnd, HandsInv, QueueTyped
  <2>2. unsent' \in Nat
    BY <2>1, ToSetFinite, BytesLaws
  <2> QED
    BY <1>3, <2>2, QueueUnmoved DEF PopEnd
<1>4. CASE PopControl
  BY <1>1, <1>4 DEF PopControl, ControlGoes, Lanes
<1>5. CASE PopPriority
  BY <1>1, <1>5 DEF PopPriority, PriorityGoes, Lanes
<1>6. CASE PopReliable
  BY <1>1, <1>6 DEF PopReliable, ReliableGoes, Lanes
<1>7. CASE PopBulk
  BY <1>1, <1>7 DEF PopBulk, BulkGoes, Lanes
<1> QED
  BY <1>2, <1>3, <1>4, <1>5, <1>6, <1>7 DEF Pop

\* Writing releases the packets that are complete, or the whole batch.
LEMMA QueueWrite ==
  ASSUME QueueInv, Write
  PROVE  QueueInv'
<1> USE DEF QueueInv
<1>1. batch \in Seq(Packets) /\ Distinct(batch) /\ done \in Nat /\ unsent \in Nat
  BY DEF HandsInv, QueueTyped, NoDuplicates, CountInv
<1>2. ASSUME UNCHANGED <<lane, queued>>, done' \in Nat, unsent' \in Nat
      PROVE  CountInv'
  BY <1>2 DEF CountInv, BacklogIsQueued, DroppableWithinLimit, Queued, Droppable, Bytes
<1>3. ASSUME NEW n \in 1 .. unsent, WriteSome(n)
      PROVE  QueueInv'
  <2> DEFINE k == Complete(done + n)
             first == SubSeq(batch, 1, k)
  <2>1. done + n \in Nat
    BY <1>1
  <2>2. k \in 0 .. Len(batch) /\ Bytes(ToSet(first)) <= done + n
    BY <1>1, <2>1, CompleteIsPrefix
  <2>3. /\ batch' = SubSeq(batch, Len(first) + 1, Len(batch))
        /\ done' = done + n - Bytes(ToSet(first))
        /\ refs' = Released(refs, ToSet(first))
        /\ UNCHANGED <<lane, pusher, queued>>
    BY <1>3 DEF WriteSome, queue
  <2> HIDE DEF k
  <2>4. first \in Seq(Packets) /\ Len(first) = k
    BY <1>1, <2>2, SplitDistinct
  <2>5. Bytes(ToSet(first)) \in Nat
    BY <2>4, ToSetFinite, BytesLaws
  <2>6. done' \in Nat /\ unsent' \in Nat
    BY <1>1, <1>3, <2>1, <2>2, <2>3, <2>5 DEF WriteSome
  <2>7. HandsInv'
    BY <2>2, <2>3, <2>4, HandsRelease
  <2> QED
    BY <1>2, <2>3, <2>6, <2>7
<1>4. ASSUME NEW next, ReleaseBatch(next), unsent' \in Nat
      PROVE  QueueInv'
  <2>1. /\ refs' = Released(refs, ToSet(batch)) /\ batch' = <<>> /\ done' = 0
        /\ UNCHANGED <<lane, pusher, queued>>
    BY <1>4 DEF ReleaseBatch, queue
  <2>2. /\ Len(batch) \in 0 .. Len(batch) /\ SubSeq(batch, 1, Len(batch)) = batch
        /\ SubSeq(batch, Len(batch) + 1, Len(batch)) = <<>>
    BY <1>1
  <2>3. HandsInv'
    BY <2>1, <2>2, HandsRelease
  <2> QED
    BY <1>2, <1>4, <2>1, <2>3
<1> QED
  BY <1>1, <1>3, <1>4 DEF Write, WriteAll, WriteFail, DeadlineFail

\* Close lets go of everything that is queued.
LEMMA QueueCloses ==
  ASSUME QueueInv, QueueClose
  PROVE  QueueInv'
<1> USE DEF QueueInv, HandsInv
<1> DEFINE all == UNION {ToSet(lane[l]) : l \in Lanes}
<1>1. /\ queued' = queued - Bytes(all) /\ refs' = Released(refs, all)
      /\ lane' = [l \in Lanes |-> <<>>] /\ UNCHANGED <<pusher, batch, done, unsent>>
  BY DEF QueueClose, writer
<1>2. all = QueuedSet
  BY QueuedFinite
<1> HIDE DEF all
<1>3. \A l \in Lanes : ToSet(lane'[l]) = {} /\ Distinct(lane'[l]) /\ lane'[l] \in Seq(Packets)
  BY <1>1 DEF ToSet, Distinct
<1>4. \A q \in Packets : ~Queued(q)'
  BY <1>3 DEF Queued
<1>5. QueueTyped' /\ NoDuplicates' /\ InOwnLane' /\ OneHand'
  BY <1>1, <1>3, <1>4 DEF QueueTyped, NoDuplicates, InOwnLane, OneHand, Released
<1>6. RefsAreHeld'
  <2> SUFFICES ASSUME NEW q \in Packets
               PROVE  refs'[q] = IF Held(q)' THEN 1 ELSE 0
    BY DEF RefsAreHeld
  <2>1. refs'[q] = IF Queued(q) THEN refs[q] - 1 ELSE refs[q]
    BY <1>1, <1>2 DEF Released, QueuedSet
  <2> QED
    BY <1>1, <1>4, <2>1 DEF RefsAreHeld, Held, OneHand, QueueTyped
<1>7. CountInv'
  BY <1>1, <1>2, <1>4, CountShrinks DEF CountInv, QueuedSet
<1> QED
  BY <1>5, <1>6, <1>7

LEMMA QueueInvariant == Spec => []QueueInv
<1>1. Init => QueueInv
  <2> SUFFICES ASSUME Init
               PROVE  QueueInv
    OBVIOUS
  <2>1. HandsInv
    BY HandsInit
  <2>2. \A p \in Packets : ~Queued(p)
    BY DEF Init, Queued, ToSet
  <2>3. {p \in Packets : Queued(p)} = {} /\ {p \in Packets : Queued(p) /\ Droppable(p)} = {}
    BY <2>2
  <2>4. CountInv
    <3>1. Bytes({p \in Packets : Queued(p)}) = 0
      BY <2>3, BytesLaws, Zenon
    <3>2. Bytes({p \in Packets : Queued(p) /\ Droppable(p)}) = 0
      BY <2>3, BytesLaws, Zenon
    <3> QED
      BY <3>1, <3>2, SettingsAssumption
      DEF Init, CountInv, BacklogIsQueued, DroppableWithinLimit
  <2> QED
    BY <2>1, <2>4 DEF QueueInv
<1>2. QueueInv /\ [Next]_vars => QueueInv'
  <2> SUFFICES ASSUME QueueInv, [Next]_vars
               PROVE  QueueInv'
    OBVIOUS
  <2>1. CASE Wake \/ WaitEnd \/ DisconnectDone \/ CloseBegin \/ Stop \/ UNCHANGED vars
    BY <2>1, QueueUnmoved
    DEF Wake, WaitEnd, DisconnectDone, CloseBegin, Stop, vars, queue, writer, QueueInv,
        CountInv
  <2> QED
    BY <2>1, QueueProducer, QueuePop, QueueWrite, QueueCloses DEF Next
<1> QED
  BY <1>1, <1>2, PTL DEF Spec

-----------------------------------------------------------------------------

\* Every reference that enqueue takes is held by exactly one of the producer, a lane
\* and the batch, and let go of once (push, pop, releaseBatch, close): no buffer
\* leaks and none is released early, for any packets, settings and failures.
THEOREM ReferencesHeldOnce == Spec => []RefsHeldOnce
<1>1. QueueInv => RefsHeldOnce
  <2> SUFFICES ASSUME QueueInv, NEW p \in Packets
               PROVE  LET hands == {h \in Lanes \cup {"producer", "batch"} :
                                      CASE h = "producer" -> pusher[p] = "push"
                                        [] h = "batch" -> p \in ToSet(batch)
                                        [] OTHER -> p \in ToSet(lane[h])}
                      IN  refs[p] = Cardinality(hands) /\ refs[p] <= 1
    BY DEF RefsHeldOnce
  <2> USE DEF QueueInv, HandsInv
  <2> DEFINE hands == {h \in Lanes \cup {"producer", "batch"} :
                         CASE h = "producer" -> pusher[p] = "push"
                           [] h = "batch" -> p \in ToSet(batch)
                           [] OTHER -> p \in ToSet(lane[h])}
  <2>1. "producer" \notin Lanes /\ "batch" \notin Lanes
    BY DEF Lanes
  <2>2. \A h : h \in hands <=> \/ h = "producer" /\ pusher[p] = "push"
                               \/ h = "batch" /\ p \in ToSet(batch)
                               \/ h \in Lanes /\ p \in ToSet(lane[h])
    BY <2>1
  <2> HIDE DEF hands
  <2>3. CASE ~Held(p)
    <3>1. hands = {}
      BY <2>2, <2>3 DEF Held, Queued
    <3> QED
      BY <2>3, <3>1, FS_EmptySet DEF RefsAreHeld, hands
  <2>4. CASE Held(p)
    <3>1. \E h : hands = {h}
      <4>1. CASE pusher[p] = "push"
        <5>1. hands = {"producer"}
          BY <2>2, <4>1 DEF OneHand, Queued
        <5> QED
          BY <5>1
      <4>2. CASE p \in ToSet(batch)
        <5>1. hands = {"batch"}
          BY <2>2, <4>2 DEF OneHand, Queued
        <5> QED
          BY <5>1
      <4>3. CASE Queued(p)
        <5>1. PICK l \in Lanes : p \in ToSet(lane[l])
          BY <4>3 DEF Queued
        <5>2. \A m \in Lanes : p \in ToSet(lane[m]) => m = l
          BY <5>1 DEF InOwnLane
        <5>3. hands = {l}
          BY <2>2, <4>3, <5>1, <5>2 DEF OneHand
        <5> QED
          BY <5>3
      <4> QED
        BY <2>4, <4>1, <4>2, <4>3 DEF Held
    <3>2. Cardinality(hands) = 1
      BY <3>1, FS_Singleton
    <3> QED
      BY <2>4, <3>2 DEF RefsAreHeld, hands
  <2> QED
    BY <2>3, <2>4
<1> QED
  BY <1>1, QueueInvariant, PTL

\* The atomic byte count by which PickConn compares connections is what the lanes
\* hold, although push, pop, CoDel and close each change it (tcp_tunnel_queue.go).
THEOREM BacklogIsExact == Spec => []BacklogIsQueued
BY QueueInvariant, PTL DEF QueueInv, CountInv

\* What may be dropped never exceeds queue_limit, however much no-drop and control
\* data is pushed between (tcp_tunnel_queue.go, push).
THEOREM LimitHolds == Spec => []DroppableWithinLimit
BY QueueInvariant, PTL DEF QueueInv, CountInv

\* What the socket has not taken is what the batch still holds.
SentInv ==
  /\ wr = "write" => unsent + done = Bytes(ToSet(batch))
  /\ wr # "write" => done = 0

\* A partial write takes a prefix of the batch, and counts it right.
LEMMA PrefixWritten ==
  ASSUME QueueInv, SentInv, NEW n \in 1 .. unsent, WriteSome(n)
  PROVE  \E k \in 0 .. Len(batch) :
           /\ batch' = SubSeq(batch, k + 1, Len(batch))
           /\ unsent' + done' = Bytes(ToSet(batch'))
           /\ unsent' \in Nat /\ done' \in Nat
<1> DEFINE k == Complete(done + n)
           first == SubSeq(batch, 1, k)
<1>1. batch \in Seq(Packets) /\ Distinct(batch) /\ done \in Nat /\ unsent \in Nat
  BY DEF QueueInv, HandsInv, QueueTyped, NoDuplicates, CountInv
<1>2. done + n \in Nat
  BY <1>1
<1>3. k \in 0 .. Len(batch) /\ Bytes(ToSet(first)) <= done + n
  BY <1>1, <1>2, CompleteIsPrefix
<1>4. /\ batch' = SubSeq(batch, Len(first) + 1, Len(batch))
      /\ done' = done + n - Bytes(ToSet(first)) /\ unsent' = unsent - n
      /\ unsent + done = Bytes(ToSet(batch))
      /\ n < unsent
  BY DEF WriteSome, SentInv
<1> HIDE DEF k
<1>5. /\ Len(first) = k /\ ToSet(first) \in SUBSET ToSet(batch)
      /\ ToSet(SubSeq(batch, k + 1, Len(batch))) = ToSet(batch) \ ToSet(first)
      /\ first \in Seq(Packets)
  BY <1>1, <1>3, SplitDistinct
<1>6. IsFiniteSet(ToSet(batch)) /\ ToSet(batch) \in SUBSET Packets
      /\ IsFiniteSet(ToSet(first)) /\ ToSet(first) \in SUBSET Packets
  BY <1>1, <1>5, ToSetFinite
<1>7. Bytes(ToSet(batch) \ ToSet(first)) = Bytes(ToSet(batch)) - Bytes(ToSet(first))
      /\ Bytes(ToSet(first)) \in Nat
  BY <1>5, <1>6, BytesLaws
<1>8. batch' = SubSeq(batch, k + 1, Len(batch))
  BY <1>4, <1>5
<1>9. Bytes(ToSet(batch')) = Bytes(ToSet(batch)) - Bytes(ToSet(first))
  BY <1>5, <1>7, <1>8
<1>10. unsent' + done' = Bytes(ToSet(batch')) /\ unsent' \in Nat /\ done' \in Nat
  BY <1>1, <1>3, <1>4, <1>7, <1>9
<1> QED
  BY <1>3, <1>8, <1>10

LEMMA SentStep ==
  ASSUME QueueInv, SentInv, [Next]_vars
  PROVE  SentInv'
<1>1. ASSUME NEW n \in 1 .. unsent, WriteSome(n)
      PROVE  SentInv'
  BY <1>1, PrefixWritten DEF SentInv, WriteSome
<1>2. ASSUME UNCHANGED writer
      PROVE  SentInv'
  BY <1>2 DEF SentInv, writer, Bytes
<1>3. ASSUME NEW p \in Packets, Enqueue(p) \/ Producer(p)
      PROVE  UNCHANGED writer
  BY <1>3 DEF Enqueue, Producer, Push, PushClosed, Signal, writer
<1>4. ASSUME NEW l \in Lanes, Take(l)
      PROVE  SentInv'
  BY <1>4 DEF Take, SentInv
<1>5. CASE PopControl \/ PopPriority \/ PopReliable \/ PopBulk
  BY <1>4, <1>5 DEF PopControl, PopPriority, PopReliable, PopBulk, Lanes
<1>6. CASE DropBulk
  BY <1>2, <1>6 DEF DropBulk
<1>7. CASE PopEnd
  <2>1. batch' = batch /\ done' = 0 /\ unsent' = Bytes(ToSet(batch)) /\ unsent' \in Nat
    <3>1. batch \in Seq(Packets)
      BY DEF QueueInv, HandsInv, QueueTyped
    <3>2. Bytes(ToSet(batch)) \in Nat
      BY <3>1, ToSetFinite, BytesLaws
    <3> QED
      BY <1>7, <3>2 DEF PopEnd, SentInv
  <2>2. Bytes(ToSet(batch')) = Bytes(ToSet(batch))
    BY <2>1
  <2> QED
    BY <2>1, <2>2 DEF SentInv
<1>8. CASE WriteAll \/ WriteFail \/ DeadlineFail
  BY <1>8 DEF WriteAll, WriteFail, DeadlineFail, ReleaseBatch, SentInv
<1>9. CASE Wake \/ WaitEnd \/ DisconnectDone
  BY <1>9 DEF Wake, WaitEnd, DisconnectDone, SentInv
<1>10. CASE CloseBegin \/ QueueClose \/ Stop \/ UNCHANGED vars
  BY <1>2, <1>10 DEF CloseBegin, QueueClose, Stop, vars
<1> QED
  BY <1>1, <1>2, <1>3, <1>5, <1>6, <1>7, <1>8, <1>9, <1>10 DEF Next, Pop, Write

\* A packet leaves the batch when all of it is written, or with the connection.
LEMMA BatchIsWritten ==
  ASSUME QueueInv, SentInv, Next, NEW i \in DOMAIN batch,
         batch[i] \notin ToSet(batch'), wr' \notin {"disconnect", "off"}
  PROVE  unsent' <= Bytes(ToSet(SubSeq(batch, i + 1, Len(batch))))
<1> DEFINE rest == SubSeq(batch, i + 1, Len(batch))
<1>1. batch \in Seq(Packets) /\ Distinct(batch) /\ i \in 0 .. Len(batch)
  BY DEF QueueInv, HandsInv, QueueTyped, NoDuplicates
<1>2. rest \in Seq(Packets) /\ ToSet(rest) \in SUBSET Packets /\ IsFiniteSet(ToSet(rest))
  <2>1. rest \in Seq(Packets) /\ ToSet(rest) \in SUBSET ToSet(batch)
    BY <1>1, SplitDistinct
  <2>2. IsFiniteSet(ToSet(rest)) /\ ToSet(batch) \in SUBSET Packets
    BY <1>1, <2>1, ToSetFinite
  <2> QED
    BY <2>1, <2>2
<1>3. Bytes(ToSet(rest)) \in Nat
  BY <1>2, BytesLaws
<1>4. CASE batch' = batch
  BY <1>4 DEF ToSet
<1>5. ASSUME NEW l \in Lanes, Take(l)
      PROVE  FALSE
  <2>1. batch' = Append(batch, Head(lane[l]))
    BY <1>5 DEF Take
  <2>2. i \in DOMAIN batch' /\ batch'[i] = batch[i]
    BY <1>1, <2>1
  <2> QED
    BY <2>2 DEF ToSet
<1>6. ASSUME NEW n \in 1 .. unsent, WriteSome(n)
      PROVE  unsent' <= Bytes(ToSet(rest))
  <2>1. PICK k \in 0 .. Len(batch) :
          /\ batch' = SubSeq(batch, k + 1, Len(batch))
          /\ unsent' + done' = Bytes(ToSet(batch'))
          /\ unsent' \in Nat /\ done' \in Nat
    BY <1>6, PrefixWritten
  <2>2. i <= k
    <3> SUFFICES ASSUME i > k PROVE FALSE
      BY <1>1
    <3>1. i - k \in DOMAIN batch' /\ batch'[i - k] = batch[i]
      BY <1>1, <2>1
    <3> QED
      BY <3>1 DEF ToSet
  <2>3. ToSet(batch') \in SUBSET ToSet(rest)
    <3> SUFFICES ASSUME NEW j \in DOMAIN batch'
                 PROVE  \E m \in DOMAIN rest : rest[m] = batch'[j]
      BY DEF ToSet
    <3>1. /\ j \in 1 .. Len(batch) - k /\ batch'[j] = batch[k + j]
          /\ k \in Nat /\ i \in 1 .. k
      BY <1>1, <2>1, <2>2
    <3>2. k + j - i \in DOMAIN rest /\ rest[k + j - i] = batch[i + (k + j - i)]
      BY <1>1, <3>1
    <3>3. i + (k + j - i) = k + j
      BY <3>1
    <3> QED
      BY <3>1, <3>2, <3>3
  <2>4. Bytes(ToSet(batch')) <= Bytes(ToSet(rest))
    BY <1>2, <2>3, BytesLaws
  <2>5. \A a, b \in Nat : a <= a + b
    OBVIOUS
  <2>6. unsent' <= unsent' + done'
    BY <2>1, <2>5, Zenon
  <2> QED
    BY <1>3, <2>1, <2>4, <2>6
<1>7. CASE WriteAll
  BY <1>3, <1>7 DEF WriteAll
<1>8. ~WriteFail /\ ~DeadlineFail
  BY DEF WriteFail, DeadlineFail, ReleaseBatch
<1>9. CASE PopControl \/ PopPriority \/ PopReliable \/ PopBulk
  BY <1>5, <1>9 DEF PopControl, PopPriority, PopReliable, PopBulk, Lanes
<1>10. ASSUME NEW p \in Packets, Enqueue(p) \/ Producer(p)
       PROVE  batch' = batch
  BY <1>10 DEF Enqueue, Producer, Push, PushClosed, Signal, writer
<1>11. CASE DropBulk \/ PopEnd
  BY <1>4, <1>11 DEF DropBulk, PopEnd, writer
<1>12. CASE Wake \/ WaitEnd \/ CloseBegin \/ QueueClose \/ DisconnectDone \/ Stop
  BY <1>4, <1>12 DEF Wake, WaitEnd, CloseBegin, QueueClose, DisconnectDone, Stop, writer
<1> QED
  BY <1>4, <1>6, <1>7, <1>8, <1>9, <1>10, <1>11, <1>12 DEF Next, Pop, Write

\* A no-drop or control packet leaves an open queue only for the batch, and the batch
\* only when the socket has all of it or the connection is given up: neither
\* queue_limit nor CoDel drops it, and no partial write loses it (push, pop,
\* advanceBatchWrite and releaseBatch).
THEOREM NoDropIsNeverDropped == Spec => NoDropIsSent
<1> DEFINE Kept(p) ==
             (Queued(p) \/ pusher[p] = "push") /\ ~qclosed' =>
               Queued(p)' \/ p \in ToSet(batch') \/ pusher'[p] = "push"
           Written(p) ==
             \A i \in DOMAIN batch :
               batch[i] = p /\ p \notin ToSet(batch') =>
                 \/ wr' \in {"disconnect", "off"}
                 \/ unsent' <= Bytes(ToSet(SubSeq(batch, i + 1, Len(batch))))
<1>1. ASSUME QueueInv, Next, NEW p \in NoDrop \cup Control
      PROVE  Kept(p)
  <2> SUFFICES ASSUME Queued(p) \/ pusher[p] = "push", ~qclosed'
               PROVE  Queued(p)' \/ p \in ToSet(batch') \/ pusher'[p] = "push"
    OBVIOUS
  <2> USE <1>1 DEF QueueInv, HandsInv
  <2>0. p \in Packets
    BY PacketsAssumption
  <2>1. ~Droppable(p)
    BY <2>0 DEF Droppable
  <2>2. ASSUME NEW q \in Packets, Push(q)
        PROVE  Queued(p)' \/ pusher'[p] = "push"
    <3>1. /\ Queued(p)' <=> (Queued(p) /\ p \notin Dropped(q)) \/ (~Refused(q) /\ p = q)
          /\ p \notin Dropped(q)
      BY <2>0, <2>1, <2>2, PushMoves
    <3>2. p = q => ~Refused(q)
      BY <2>1 DEF Refused
    <3>3. p # q => pusher'[p] = pusher[p]
      BY <2>2 DEF Push, QueueTyped
    <3> QED
      BY <3>1, <3>2, <3>3
  <2>3. ASSUME NEW l \in Lanes, lane[l] # <<>>, Take(l)
        PROVE  Queued(p)' \/ p \in ToSet(batch') \/ pusher'[p] = "push"
    <3>1. /\ lane' = [lane EXCEPT ![l] = Tail(@)] /\ pusher' = pusher
          /\ batch' = Append(batch, Head(lane[l]))
      BY <2>3 DEF Take, Dequeue
    <3>2. Queued(p)' <=> Queued(p) /\ p # Head(lane[l])
      BY <2>0, <2>3, <3>1, LaneTail
    <3>3. Head(lane[l]) \in ToSet(batch')
      <4>1. Len(batch) + 1 \in DOMAIN batch' /\ batch'[Len(batch) + 1] = Head(lane[l])
        BY <3>1 DEF QueueTyped
      <4> QED
        BY <4>1 DEF ToSet
    <3> QED
      BY <3>1, <3>2, <3>3 DEF QueueTyped
  <2>4. CASE DropBulk
    <3>1. /\ lane["bulk"] # <<>> /\ "bulk" \in Lanes /\ pusher' = pusher
          /\ lane' = [lane EXCEPT !["bulk"] = Tail(@)]
      BY <2>4 DEF DropBulk, Dequeue, BulkGoes, Lanes, writer
    <3>2. Queued(p)' <=> Queued(p) /\ p # Head(lane["bulk"])
      BY <2>0, <3>1, LaneTail
    <3>3. Head(lane["bulk"]) \in ToSet(lane["bulk"])
      BY <3>1, TailDistinct DEF QueueTyped, NoDuplicates
    <3>4. p # Head(lane["bulk"])
      BY <2>1, <3>1, <3>3, LaneOfIsLane DEF InOwnLane
    <3> QED
      BY <3>1, <3>2, <3>4
  <2>5. ASSUME NEW q \in Packets, Enqueue(q) \/ PushClosed(q) \/ Signal(q)
        PROVE  Queued(p)' \/ pusher'[p] = "push"
    BY <2>0, <2>5 DEF Enqueue, PushClosed, Signal, queue, Queued, QueueTyped
  <2>6. CASE UNCHANGED <<lane, pusher>>
    BY <2>6 DEF Queued
  <2>7. PopEnd \/ Write \/ Wake \/ WaitEnd \/ CloseBegin \/ DisconnectDone \/ Stop
          => UNCHANGED <<lane, pusher>>
    BY DEF PopEnd, Write, WriteSome, WriteAll, WriteFail, DeadlineFail, ReleaseBatch,
           Wake, WaitEnd, CloseBegin, DisconnectDone, Stop, queue
  <2>8. ~QueueClose
    BY DEF QueueClose
  <2>9. PopControl \/ PopPriority \/ PopReliable \/ PopBulk
          => \E l \in Lanes : lane[l] # <<>> /\ Take(l)
    BY DEF PopControl, PopPriority, PopReliable, PopBulk, ControlGoes, PriorityGoes,
           ReliableGoes, BulkGoes, Lanes
  <2> QED
    BY <2>2, <2>3, <2>4, <2>5, <2>6, <2>7, <2>8, <2>9 DEF Next, Producer, Pop
<1>2. ASSUME QueueInv, SentInv, Next, NEW p \in NoDrop \cup Control
      PROVE  Written(p)
  BY <1>2, BatchIsWritten
<1>3. QueueInv /\ SentInv /\ [Next]_vars
        => [\A p \in NoDrop \cup Control :
              /\ (Queued(p) \/ pusher[p] = "push") /\ ~qclosed' =>
                   Queued(p)' \/ p \in ToSet(batch') \/ pusher'[p] = "push"
              /\ \A i \in DOMAIN batch :
                   batch[i] = p /\ p \notin ToSet(batch') =>
                     \/ wr' \in {"disconnect", "off"}
                     \/ unsent' <= Bytes(ToSet(SubSeq(batch, i + 1, Len(batch))))]_vars
  BY <1>1, <1>2
<1>4. Init => SentInv
  BY DEF Init, SentInv
<1>5. QueueInv /\ SentInv /\ [Next]_vars => SentInv'
  BY SentStep
<1> QED
  BY <1>3, <1>4, <1>5, QueueInvariant, PTL DEF Spec, NoDropIsSent

-----------------------------------------------------------------------------
(* Types.                                                                  *)

\* What QueueInv does not say: flags, the order of arrival, and the credit, which
\* priority never saves up beyond its cap.
LoopTyped ==
  /\ stamp \subseteq Packets \X Packets
  /\ credit \in Int /\ credit <= MaxCredit
  /\ {qclosed, ready, closed, stopped} \subseteq BOOLEAN
  /\ wr \in {"pop", "write", "wait", "disconnect", "off"}

\* Forgetting enq times keeps the rest of them.
LEMMA StampsShrink ==
  ASSUME LoopTyped, NEW S
  PROVE  StampsWithout(S) \subseteq Packets \X Packets
BY DEF LoopTyped, StampsWithout

\* The credit at a pass of pop, and what a bulk packet earns, stay within the cap.
LEMMA CreditCapped ==
  ASSUME LoopTyped
  PROVE  /\ Credit \in Int /\ Credit <= MaxCredit
         /\ \A p \in Packets : Earned(p) \in Int /\ Earned(p) <= MaxCredit
<1>1. MaxCredit \in Nat /\ Earn \in Nat
  BY SettingsAssumption
<1>2. Credit \in Int /\ Credit <= MaxCredit
  BY <1>1 DEF Credit, LoopTyped
<1>3. ASSUME NEW p \in Packets
      PROVE  Earned(p) \in Int /\ Earned(p) <= MaxCredit
  <2> DEFINE a == Credit + Wire[p] * Earn
  <2>1. Wire[p] \in Nat
    BY PacketsAssumption
  <2>2. a \in Int
    BY <1>1, <1>2, <2>1
  <2>3. Earned(p) = Min({a, MaxCredit})
    BY DEF Earned
  <2> HIDE DEF a
  <2>4. CASE a <= MaxCredit
    <3>1. a \in {a, MaxCredit} /\ \A x \in {a, MaxCredit} : a <= x
      BY <1>1, <2>2, <2>4
    <3>2. Min({a, MaxCredit}) \in {a, MaxCredit}
      BY <3>1 DEF Min
    <3>3. QED
      BY <1>1, <2>2, <2>3, <2>4, <3>2
  <2>5. CASE ~(a <= MaxCredit)
    <3>1. MaxCredit \in {a, MaxCredit} /\ \A x \in {a, MaxCredit} : MaxCredit <= x
      BY <1>1, <2>2, <2>5
    <3>2. Min({a, MaxCredit}) \in {a, MaxCredit} /\ Min({a, MaxCredit}) <= MaxCredit
      BY <1>1, <3>1 DEF Min
    <3>3. QED
      BY <1>1, <2>2, <2>3, <3>2
  <2>6. QED
    BY <2>4, <2>5
<1>4. QED
  BY <1>2, <1>3

LEMMA LoopInit ==
  ASSUME Init
  PROVE  LoopTyped
<1>1. credit = MaxCredit /\ MaxCredit \in Nat
  BY SettingsAssumption DEF Init
<1>2. credit \in Int /\ credit <= MaxCredit
  BY <1>1
<1>3. QED
  BY <1>2 DEF Init, LoopTyped

LEMMA LoopProducer ==
  ASSUME LoopTyped, NEW p \in Packets, Enqueue(p) \/ Producer(p)
  PROVE  LoopTyped'
<1>1. CASE Enqueue(p)
  <2>1. stamp' \subseteq Packets \X Packets
    BY <1>1 DEF Enqueue, Stamped, LoopTyped
  <2>2. UNCHANGED <<credit, qclosed, ready, wr, closed, stopped>>
    BY <1>1 DEF Enqueue, writer
  <2>3. QED
    BY <2>1, <2>2 DEF LoopTyped
<1>2. CASE PushClosed(p)
  <2>1. stamp' \subseteq Packets \X Packets
    BY <1>2, StampsShrink DEF PushClosed
  <2>2. UNCHANGED <<credit, qclosed, ready, wr, closed, stopped>>
    BY <1>2 DEF PushClosed, writer
  <2>3. QED
    BY <2>1, <2>2 DEF LoopTyped
<1>3. CASE Push(p)
  <2>1. PICK S : stamp' = StampsWithout(S)
    BY <1>3 DEF Push
  <2>2. UNCHANGED <<credit, qclosed, ready, wr, closed, stopped>>
    BY <1>3 DEF Push, writer
  <2>3. QED
    BY <2>1, <2>2, StampsShrink DEF LoopTyped
<1>4. CASE Signal(p)
  BY <1>4 DEF Signal, LoopTyped, queue, writer
<1>5. QED
  BY <1>1, <1>2, <1>3, <1>4 DEF Producer

LEMMA LoopPop ==
  ASSUME QueueInv, LoopTyped, Pop
  PROVE  LoopTyped'
<1>1. \A l \in Lanes : lane[l] # <<>> => Head(lane[l]) \in Packets
  BY DEF QueueInv, HandsInv, QueueTyped
<1>2. ASSUME NEW l \in Lanes, Take(l), credit' \in Int, credit' <= MaxCredit
      PROVE  LoopTyped'
  <2>1. stamp' = StampsWithout({Head(lane[l])}) /\ UNCHANGED <<qclosed, ready, wr, closed, stopped>>
    BY <1>2 DEF Take, Dequeue
  <2>2. QED
    BY <1>2, <2>1, StampsShrink DEF LoopTyped
<1>3. CASE PopControl
  BY <1>2, <1>3, CreditCapped DEF PopControl, Lanes
<1>4. CASE PopPriority
  <2>1. lane["priority"] # <<>> /\ "priority" \in Lanes /\ Take("priority")
        /\ credit' = Credit - Wire[Head(lane["priority"])]
    BY <1>4 DEF PopPriority, PriorityGoes, Lanes
  <2>2. Wire[Head(lane["priority"])] \in Nat
    BY <1>1, <2>1, PacketsAssumption
  <2>3. credit' \in Int /\ credit' <= MaxCredit
    BY <2>1, <2>2, CreditCapped, SettingsAssumption
  <2>4. QED
    BY <1>2, <2>1, <2>3
<1>5. CASE PopReliable
  <2>1. lane["reliable"] # <<>> /\ "reliable" \in Lanes /\ Take("reliable")
        /\ credit' = Earned(Head(lane["reliable"]))
    BY <1>5 DEF PopReliable, ReliableGoes, Lanes
  <2>2. QED
    BY <1>1, <1>2, <2>1, CreditCapped
<1>6. CASE PopBulk
  <2>1. lane["bulk"] # <<>> /\ "bulk" \in Lanes /\ Take("bulk")
        /\ credit' = Earned(Head(lane["bulk"]))
    BY <1>6 DEF PopBulk, BulkGoes, Lanes
  <2>2. QED
    BY <1>1, <1>2, <2>1, CreditCapped
<1>7. CASE DropBulk
  <2>1. /\ stamp' = StampsWithout({Head(lane["bulk"])}) /\ credit' = Credit
        /\ UNCHANGED <<qclosed, ready, wr, closed, stopped>>
    BY <1>7 DEF DropBulk, Dequeue, writer
  <2>2. QED
    BY <2>1, CreditCapped, StampsShrink DEF LoopTyped
<1>8. CASE PopEnd
  <2>1. /\ credit' \in {credit, Credit} /\ wr' \in {"wait", "write"}
        /\ UNCHANGED <<stamp, qclosed, ready, closed, stopped>>
    BY <1>8 DEF PopEnd
  <2>2. QED
    BY <2>1, CreditCapped DEF LoopTyped
<1>9. QED
  BY <1>3, <1>4, <1>5, <1>6, <1>7, <1>8 DEF Pop

LEMMA LoopRest ==
  ASSUME LoopTyped,
         Write \/ Wake \/ WaitEnd \/ CloseBegin \/ QueueClose \/ DisconnectDone \/ Stop
  PROVE  LoopTyped'
<1>1. CASE \E n \in 1 .. unsent : WriteSome(n)
  BY <1>1 DEF WriteSome, LoopTyped, queue
<1>2. CASE WriteAll \/ WriteFail \/ DeadlineFail
  BY <1>2 DEF WriteAll, WriteFail, DeadlineFail, ReleaseBatch, LoopTyped, queue
<1>3. CASE Wake \/ WaitEnd \/ DisconnectDone
  BY <1>3 DEF Wake, WaitEnd, DisconnectDone, LoopTyped, queue
<1>4. CASE CloseBegin \/ Stop
  BY <1>4 DEF CloseBegin, Stop, LoopTyped, queue, writer
<1>5. CASE QueueClose
  <2>1. PICK S : stamp' = StampsWithout(S)
    BY <1>5 DEF QueueClose
  <2>2. qclosed' = TRUE /\ UNCHANGED <<credit, ready, wr, closed, stopped>>
    BY <1>5 DEF QueueClose, writer
  <2>3. QED
    BY <2>1, <2>2, StampsShrink DEF LoopTyped
<1>6. QED
  BY <1>1, <1>2, <1>3, <1>4, <1>5 DEF Write

\* Every variable keeps its type, and priority never saves up more credit than the cap,
\* for any shares, sizes and limits (tcp_tunnel_queue.go, pop).
THEOREM QueueTypeCorrect == Spec => []TypeOK
<1>1. Init => LoopTyped
  BY LoopInit
<1>2. QueueInv /\ LoopTyped /\ [Next]_vars => LoopTyped'
  <2> SUFFICES ASSUME QueueInv, LoopTyped, [Next]_vars
               PROVE  LoopTyped'
    OBVIOUS
  <2>1. CASE UNCHANGED vars
    BY <2>1 DEF vars, queue, writer, LoopTyped
  <2>2. QED
    BY <2>1, LoopProducer, LoopPop, LoopRest DEF Next
<1>3. QueueInv /\ LoopTyped => TypeOK
  <2> SUFFICES ASSUME QueueInv, LoopTyped
               PROVE  TypeOK
    OBVIOUS
  <2>1. queued \in Int
    <3>1. IsFiniteSet(QueuedSet) /\ QueuedSet \in SUBSET Packets
      BY QueuedFinite DEF QueueInv, HandsInv
    <3>2. queued = Bytes(QueuedSet)
      BY DEF QueueInv, CountInv, BacklogIsQueued, QueuedSet
    <3>3. QED
      BY <3>1, <3>2, BytesLaws
  <2>2. QED
    BY <2>1 DEF TypeOK, LoopTyped, QueueInv, HandsInv, QueueTyped, CountInv
<1>4. QED
  BY <1>1, <1>2, <1>3, QueueInvariant, PTL DEF Spec
==============================================================================
