---------------------------- MODULE TcpTunnelConn ----------------------------
(***************************************************************************)
(* The sending side of one TCP tunnel connection: its send queue           *)
(* (src/tcp_tunnel_queue.go), the producers that enqueue from any          *)
(* goroutine, writeLoop, and Close (src/tcp_tunnel.go).                    *)
(*                                                                         *)
(* A packet is one of a fixed set and may be enqueued again once the       *)
(* connection has let go of it.  Push, QueueClose and each pass of pop     *)
(* hold the queue's mutex; wr = "pop" means that writeLoop holds it.       *)
(* Statistics other than the byte count are left out.                      *)
(***************************************************************************)
EXTENDS Integers, Sequences, FiniteSets, FiniteSetsExt, SequencesExt

CONSTANTS
  Packets,       \* the packets producers send
  Control,       \* those sent with WriteHighPriority
  NoDrop,        \* those marked SetNoDrop: TCP stream frames
  Wire,          \* [Packets -> Nat]: bytes on the wire
  PrioritySize,  \* largest packet that counts as priority; 0: none does
  Limit,         \* queue_limit
  Codel,         \* CoDel is enabled
  Standing,      \* shaperMinStandingBytes
  MaxCredit,     \* tcpQueueMaxCredit
  Earn,          \* priority credit per bulk byte: share / (1 - share)
  WriteBatch,    \* packets popped at once
  MayFail        \* writes fail, peers disconnect, the component is stopped

ASSUME PacketsAssumption ==
  /\ Control \subseteq Packets /\ NoDrop \subseteq Packets
  /\ Wire \in [Packets -> Nat \ {0}]
ASSUME SettingsAssumption ==
  /\ PrioritySize \in Nat /\ Limit \in Nat /\ Standing \in Nat
  /\ MaxCredit \in Nat \ {0} /\ Earn \in Nat /\ WriteBatch \in Nat \ {0}
  /\ Codel \in BOOLEAN /\ MayFail \in BOOLEAN

VARIABLES
  lane,     \* [Lanes -> Seq(Packets)]: the queues of tcpTunnelQueue
  stamp,    \* pairs of bulk or reliable packets not yet popped: the first has no later
            \* an enq time than the second
  credit,   \* what priority may still send before bulk gets a turn
  queued,   \* atomic byte count of the lanes
  qclosed,  \* the queue was closed
  ready,    \* the channel that wakes writeLoop holds a token
  pusher,   \* [Packets -> where the goroutine that enqueues the packet is]
  refs,     \* [Packets -> references to the packet held by the connection]
  wr,       \* where writeLoop is
  batch,    \* packets popped and not yet written
  done,     \* bytes of the first packet of batch that writeLoop counts as written
  unsent,   \* bytes of the batch that WriteTo has not handed to the socket
  closed,   \* Close closed the closed channel and the socket
  stopped   \* the component's stop channel is closed

queue == <<lane, stamp, credit, queued, qclosed>>
writer == <<wr, batch, done, unsent>>
vars == <<queue, ready, pusher, refs, writer, closed, stopped>>

Lanes == {"control", "priority", "bulk", "reliable"}

Init ==
  /\ lane = [l \in Lanes |-> <<>>] /\ stamp = {}
  /\ credit = MaxCredit /\ queued = 0 /\ qclosed = FALSE /\ ready = FALSE
  /\ pusher = [p \in Packets |-> "idle"]
  /\ refs = [p \in Packets |-> 0]
  /\ wr = "pop" /\ batch = <<>> /\ done = 0 /\ unsent = 0
  /\ closed = FALSE /\ stopped = FALSE

Bytes(S) == SumFunctionOnSet(Wire, S)

\* Bytes of the lanes that queue_limit bounds.
DataBytes(ln) == Bytes(ToSet(ln["priority"]) \cup ToSet(ln["bulk"]) \cup ToSet(ln["reliable"]))

\* References to the packets of S are released.
Released(rf, S) == [p \in Packets |-> IF p \in S THEN rf[p] - 1 ELSE rf[p]]

-----------------------------------------------------------------------------
(* Producers: enqueue, then push.                                          *)

Small(p) == PrioritySize > 0 /\ Wire[p] <= PrioritySize

LaneOf(p) ==
  IF p \in Control THEN "control"
  ELSE IF Small(p) THEN "priority"
  ELSE IF p \in NoDrop THEN "reliable" ELSE "bulk"

Droppable(p) == p \notin Control /\ p \notin NoDrop

Stamped == {p \in Packets : <<p, p>> \in stamp}

\* The enq times of all but the packets of S.
StampsWithout(S) == {e \in stamp : e[1] \notin S /\ e[2] \notin S}

\* Past the check of closed: the packet is referenced and time.Now() read.
Enqueue(p) ==
  /\ pusher[p] = "idle" /\ refs[p] = 0 /\ ~closed
  /\ pusher' = [pusher EXCEPT ![p] = "push"]
  /\ refs' = [refs EXCEPT ![p] = @ + 1]
  /\ stamp' = IF LaneOf(p) \in {"bulk", "reliable"}
              THEN stamp \cup (Stamped \cup {p}) \X {p} ELSE stamp
  /\ UNCHANGED <<lane, credit, queued, qclosed, ready, writer, closed, stopped>>

\* Mutant: the new packet itself is not counted.
OverflowsBefore(ln, p) == DataBytes(ln) > Limit

Overflows(ln, p) == DataBytes(ln) + Wire[p] > Limit

WithoutOldest(k) == [lane EXCEPT !["bulk"] = SubSeq(@, k + 1, Len(@))]

\* How many of the oldest bulk packets push drops to make room for p.
DropCount(p) ==
  IF ~Droppable(p) THEN 0
  ELSE Min({k \in 0 .. Len(lane["bulk"]) :
              k = Len(lane["bulk"]) \/ ~Overflows(WithoutOldest(k), p)})

\* p is refused if there is no room even so.
Refused(p) == Droppable(p) /\ Overflows(WithoutOldest(DropCount(p)), p)

\* Mutant: the closed queue keeps the reference it was given.
PushClosedLeaking(p) ==
  /\ pusher[p] = "push" /\ wr # "pop" /\ qclosed
  /\ pusher' = [pusher EXCEPT ![p] = "idle"]
  /\ stamp' = StampsWithout({p})
  /\ UNCHANGED <<lane, credit, queued, qclosed, ready, refs, writer, closed, stopped>>

PushClosed(p) ==
  /\ pusher[p] = "push" /\ wr # "pop" /\ qclosed
  /\ pusher' = [pusher EXCEPT ![p] = "idle"]
  /\ refs' = Released(refs, {p})
  /\ stamp' = StampsWithout({p})
  /\ UNCHANGED <<lane, credit, queued, qclosed, ready, writer, closed, stopped>>

Push(p) ==
  /\ pusher[p] = "push" /\ wr # "pop" /\ ~qclosed
  /\ LET ln == WithoutOldest(DropCount(p))
         dropped == ToSet(lane["bulk"]) \ ToSet(ln["bulk"])
         gone == IF Refused(p) THEN dropped \cup {p} ELSE dropped
     IN /\ lane' = IF Refused(p) THEN ln ELSE [ln EXCEPT ![LaneOf(p)] = Append(@, p)]
        /\ queued' = queued - Bytes(dropped) + (IF Refused(p) THEN 0 ELSE Wire[p])
        /\ refs' = Released(refs, gone)
        /\ stamp' = StampsWithout(gone)
  /\ pusher' = [pusher EXCEPT ![p] = IF Refused(p) THEN "idle" ELSE "signal"]
  /\ UNCHANGED <<credit, qclosed, ready, writer, closed, stopped>>

\* Mutant: wakes writeLoop only if the packet is alone in the queue.
SignalIfAlone(p) ==
  /\ pusher[p] = "signal"
  /\ pusher' = [pusher EXCEPT ![p] = "idle"]
  /\ ready' = (ready \/ queued = Wire[p])
  /\ UNCHANGED <<queue, refs, writer, closed, stopped>>

\* After the unlock: ready gets its token, if it has none.
Signal(p) ==
  /\ pusher[p] = "signal"
  /\ pusher' = [pusher EXCEPT ![p] = "idle"]
  /\ ready' = TRUE
  /\ UNCHANGED <<queue, refs, writer, closed, stopped>>

-----------------------------------------------------------------------------
(* pop: control first, then priority while it has credit, then reliable    *)
(* and bulk in order of arrival.  CoDel decides which bulk packets to      *)
(* drop; the drop in the priority case (tcp_tunnel_queue.go:267) is never  *)
(* reached, as it asks for the negation of that case's guard.              *)

BulkWaits == lane["bulk"] # <<>> \/ lane["reliable"] # <<>>

\* Without bulk the credit is replenished at every pass.
Credit == IF BulkWaits THEN credit ELSE MaxCredit

\* Mutant: the credit is not capped.
EarnedUncapped(p) == Credit + Wire[p] * Earn

Earned(p) == Min({Credit + Wire[p] * Earn, MaxCredit})

Before(p, q) == <<p, q>> \in stamp

ControlGoes == lane["control"] # <<>>
PriorityGoes ==
  ~ControlGoes /\ lane["priority"] # <<>> /\ (Credit > 0 \/ ~BulkWaits)
ReliableGoes ==
  /\ ~ControlGoes /\ ~PriorityGoes /\ lane["reliable"] # <<>>
  /\ lane["bulk"] # <<>> => Before(Head(lane["reliable"]), Head(lane["bulk"]))
BulkGoes ==
  ~ControlGoes /\ ~PriorityGoes /\ ~ReliableGoes /\ lane["bulk"] # <<>>

\* One pass takes the head of lane l off the queue.
Dequeue(l) ==
  /\ lane' = [lane EXCEPT ![l] = Tail(@)]
  /\ queued' = queued - Wire[Head(lane[l])]
  /\ stamp' = StampsWithout({Head(lane[l])})

Take(l) ==
  /\ wr = "pop" /\ Len(batch) < WriteBatch
  /\ Dequeue(l)
  /\ batch' = Append(batch, Head(lane[l]))
  /\ UNCHANGED <<qclosed, ready, pusher, refs, wr, done, unsent, closed, stopped>>

PopControl == ControlGoes /\ Take("control") /\ credit' = Credit

\* Mutant: priority is not charged for what it sends.
PopPriorityFree == PriorityGoes /\ Take("priority") /\ credit' = Credit

PopPriority ==
  PriorityGoes /\ Take("priority") /\ credit' = Credit - Wire[Head(lane["priority"])]

PopReliable ==
  ReliableGoes /\ Take("reliable") /\ credit' = Earned(Head(lane["reliable"]))

PopBulk == BulkGoes /\ Take("bulk") /\ credit' = Earned(Head(lane["bulk"]))

\* Mutant: a drop is not taken off the byte count.
DropUncounted ==
  /\ wr = "pop" /\ Len(batch) < WriteBatch /\ BulkGoes
  /\ Codel
  /\ Bytes(ToSet(Tail(lane["bulk"])) \cup ToSet(lane["reliable"])) >= Standing
  /\ lane' = [lane EXCEPT !["bulk"] = Tail(@)]
  /\ stamp' = StampsWithout({Head(lane["bulk"])})
  /\ refs' = Released(refs, {Head(lane["bulk"])})
  /\ credit' = Credit
  /\ UNCHANGED <<queued, qclosed, ready, pusher, writer, closed, stopped>>

\* CoDel drops the packet; with little else waiting its delay counts as zero.
DropBulk ==
  /\ wr = "pop" /\ Len(batch) < WriteBatch /\ BulkGoes
  /\ Codel
  /\ Bytes(ToSet(Tail(lane["bulk"])) \cup ToSet(lane["reliable"])) >= Standing
  /\ Dequeue("bulk")
  /\ refs' = Released(refs, {Head(lane["bulk"])})
  /\ credit' = Credit
  /\ UNCHANGED <<qclosed, ready, pusher, writer, closed, stopped>>

\* pop returns: the batch is written, or writeLoop waits.
PopEnd ==
  /\ wr = "pop"
  /\ Len(batch) = WriteBatch \/ \A l \in Lanes : lane[l] = <<>>
  /\ credit' = IF Len(batch) = WriteBatch THEN credit ELSE Credit
  /\ wr' = IF batch = <<>> THEN "wait" ELSE "write"
  /\ unsent' = Bytes(ToSet(batch))
  /\ UNCHANGED <<lane, stamp, queued, qclosed, ready, pusher, refs, batch, done, closed, stopped>>

-----------------------------------------------------------------------------
(* writeLoop: sendPacketBatch and the wait for work.                       *)

\* Mutant: the packet that the last write ended in counts as complete.
CompleteOrBegun(n) ==
  Min({k \in 0 .. Len(batch) :
         k = Len(batch) \/ Bytes(ToSet(SubSeq(batch, 1, k))) >= n})

\* The packets of the batch that are complete once n bytes of it are written.
Complete(n) ==
  Max({k \in 0 .. Len(batch) : Bytes(ToSet(SubSeq(batch, 1, k))) <= n})

\* WriteTo timed out after n more bytes: advanceBatchWrite lets go of the packets
\* that are complete, and WriteTo goes on with a new deadline.
WriteSome(n) ==
  /\ wr = "write"
  /\ n < unsent /\ unsent' = unsent - n
  /\ LET first == SubSeq(batch, 1, Complete(done + n))
     IN /\ batch' = SubSeq(batch, Len(first) + 1, Len(batch))
        /\ done' = done + n - Bytes(ToSet(first))
        /\ refs' = Released(refs, ToSet(first))
  /\ UNCHANGED <<queue, ready, pusher, wr, closed, stopped>>

\* releaseBatch, and where writeLoop goes next.
ReleaseBatch(next) ==
  /\ wr = "write"
  /\ refs' = Released(refs, ToSet(batch))
  /\ batch' = <<>> /\ done' = 0 /\ wr' = next
  /\ UNCHANGED <<queue, ready, pusher, closed, stopped>>

\* WriteTo returned without an error: the socket has the rest of the batch.
WriteAll == ReleaseBatch("pop") /\ unsent' = 0

\* WriteTo failed or timed out without progress: Disconnect closes the connection.
WriteFail == (MayFail \/ closed) /\ ReleaseBatch("disconnect") /\ unsent' = unsent

\* SetWriteDeadline failed on a closed socket: writeLoop just returns.
DeadlineFail == closed /\ ReleaseBatch("off") /\ unsent' = unsent

Wake ==
  /\ wr = "wait" /\ ready
  /\ ready' = FALSE /\ wr' = "pop"
  /\ UNCHANGED <<queue, pusher, refs, batch, done, unsent, closed, stopped>>

\* Mutant: Close does not end the wait.
WaitEndOnStop ==
  /\ wr = "wait" /\ stopped
  /\ wr' = "off"
  /\ UNCHANGED <<queue, ready, pusher, refs, batch, done, unsent, closed, stopped>>

\* The closed or the stop channel ends the wait, whatever is queued.
WaitEnd ==
  /\ wr = "wait" /\ (closed \/ stopped)
  /\ wr' = "off"
  /\ UNCHANGED <<queue, ready, pusher, refs, batch, done, unsent, closed, stopped>>

-----------------------------------------------------------------------------
(* Close.                                                                  *)

\* Close begins: called by Disconnect from writeLoop, by readLoop when it ends
\* (on a read error or timeout, or after a stop) or by the component's Stop.
CloseBegin ==
  /\ ~closed
  /\ MayFail \/ wr = "disconnect"
  /\ closed' = TRUE
  /\ UNCHANGED <<queue, ready, pusher, refs, writer, stopped>>

\* The queue's close: every queued packet is released.
QueueClose ==
  /\ closed /\ ~qclosed /\ wr # "pop"
  /\ LET all == UNION {ToSet(lane[l]) : l \in Lanes}
     IN /\ queued' = queued - Bytes(all)
        /\ refs' = Released(refs, all)
        /\ stamp' = StampsWithout(all)
  /\ lane' = [l \in Lanes |-> <<>>]
  /\ qclosed' = TRUE
  /\ UNCHANGED <<credit, ready, pusher, writer, closed, stopped>>

\* Disconnect returns once Close is done, by whoever began it.
DisconnectDone ==
  /\ wr = "disconnect" /\ qclosed
  /\ wr' = "off"
  /\ UNCHANGED <<queue, ready, pusher, refs, batch, done, unsent, closed, stopped>>

Stop ==
  /\ MayFail /\ ~stopped
  /\ stopped' = TRUE
  /\ UNCHANGED <<queue, ready, pusher, refs, writer, closed>>

-----------------------------------------------------------------------------
Producer(p) == Push(p) \/ PushClosed(p) \/ Signal(p)

Pop == PopControl \/ PopPriority \/ PopReliable \/ PopBulk \/ DropBulk \/ PopEnd

Write ==
  \/ \E n \in 1 .. unsent : WriteSome(n)
  \/ WriteAll \/ WriteFail \/ DeadlineFail

Next ==
  \/ \E p \in Packets : Enqueue(p) \/ Producer(p)
  \/ Pop \/ Write \/ Wake \/ WaitEnd
  \/ CloseBegin \/ QueueClose \/ DisconnectDone \/ Stop

Spec == Init /\ [][Next]_vars

\* The goroutines run, the socket accepts data or fails, and readLoop's read
\* deadline ends it after a stop.  Nothing forces producers to enqueue or to pause.
FairSpec ==
  /\ Spec
  /\ \A p \in Packets : WF_vars(Producer(p))
  /\ WF_vars(Pop \/ Write \/ Wake \/ WaitEnd \/ DisconnectDone)
  /\ WF_vars((wr = "disconnect" \/ stopped) /\ CloseBegin)
  /\ WF_vars(QueueClose)

-----------------------------------------------------------------------------
(* Properties.                                                             *)

\* Every variable keeps its type, and priority never saves up more than MaxCredit.
TypeOK ==
  /\ lane \in [Lanes -> Seq(Packets)]
  /\ stamp \subseteq Packets \X Packets
  /\ credit \in Int /\ credit <= MaxCredit
  /\ queued \in Int
  /\ {qclosed, ready, closed, stopped} \subseteq BOOLEAN
  /\ pusher \in [Packets -> {"idle", "push", "signal"}]
  /\ refs \in [Packets -> Int]
  /\ wr \in {"pop", "write", "wait", "disconnect", "off"}
  /\ batch \in Seq(Packets) /\ done \in Nat /\ unsent \in Nat

Queued(p) == \E l \in Lanes : p \in ToSet(lane[l])

\* The reference enqueue takes is in one hand at a time, the producer's, a lane's
\* or the batch's, and each hand lets go of it once: whatever the order of pushes,
\* overflow, CoDel drops, partial writes and Close, no buffer leaks and none
\* returns to the pool while it is still to be written.
RefsHeldOnce ==
  \A p \in Packets :
    LET hands == {h \in Lanes \cup {"producer", "batch"} :
                    CASE h = "producer" -> pusher[p] = "push"
                      [] h = "batch" -> p \in ToSet(batch)
                      [] OTHER -> p \in ToSet(lane[h])}
    IN refs[p] = Cardinality(hands) /\ refs[p] <= 1

\* The byte count that PickConn compares connections by is that of the lanes.
BacklogIsQueued == queued = Bytes({p \in Packets : Queued(p)})

\* "Bytes per connection; the oldest bulk packets are dropped beyond it"
\* (docs/tcp_tunnel_tuning_en.md, queue_limit): what may be dropped never exceeds
\* the limit, however much no-drop data comes between.
DroppableWithinLimit == Bytes({p \in Packets : Queued(p) /\ Droppable(p)}) <= Limit

\* writeLoop never waits while packets are queued, unless the token that wakes it
\* is there or a producer is about to put it there.
WriterAwake ==
  wr = "wait" /\ (\E l \in Lanes : lane[l] # <<>>) =>
    ready \/ \E p \in Packets : pusher[p] = "signal"

\* "Stream frames are never dropped by CoDel or the queue limit of a TCP tunnel's
\* send queue" (docs/tcp_listen_en.md): a no-drop or control packet that reached an
\* open queue leaves it only for writeLoop's batch, and leaves the batch only when
\* the socket has taken all of it, in however many partial writes, or when the
\* connection is given up.
NoDropIsSent ==
  [][\A p \in NoDrop \cup Control :
       /\ (Queued(p) \/ pusher[p] = "push") /\ ~qclosed' =>
            Queued(p)' \/ p \in ToSet(batch') \/ pusher'[p] = "push"
       /\ \A i \in DOMAIN batch :
            batch[i] = p /\ p \notin ToSet(batch') =>
              \/ wr' \in {"disconnect", "off"}
              \/ unsent' <= Bytes(ToSet(SubSeq(batch, i + 1, Len(batch))))]_vars

\* "a flood of small packets cannot starve it" (docs/shaper_en.md, priority_share,
\* the scheme pop shares): every queued packet leaves the queue, however fast
\* producers enqueue others.
NoStarvation == \A p \in Packets : Queued(p) ~> ~Queued(p)

\* Close ends writeLoop and leaves no reference behind, not even of a producer that
\* found the connection open before and pushes after.
CloseReleasesAll == closed ~> (wr = "off" /\ \A p \in Packets : refs[p] = 0)
=============================================================================
