------------------------------ MODULE PathShaper ------------------------------
(***************************************************************************)
(* The pacing of one path (src/shaper.go) with CoDel (src/codel.go): three *)
(* queues, two token buckets, dequeue one iteration at a time, and wait,   *)
(* which tells the send loop how long it may sleep.  One goroutine owns a  *)
(* path, so nothing interleaves with dequeue.                              *)
(*                                                                         *)
(* Times are relative to now: an item has its age, CoDel's deadlines the   *)
(* time left.  A tick is the unit in which Rate is given, so the buckets   *)
(* are refilled by it; ages count up to Target, which is all CoDel asks.   *)
(***************************************************************************)
EXTENDS Integers, Sequences, SequencesExt, FiniteSetsExt

CONSTANTS
  Wires,         \* sizes of data packets on the wire
  PrioritySize,  \* largest size that is prioritized; 0: none
  ControlWire,   \* size of control messages
  Controls,      \* bound on control messages: they are few
  MaxControl,    \* shaperMaxControlQueue
  QueueLimit,    \* bytes of data that may be queued
  Rates,         \* rates that autorate may set, bytes per tick
  Share,         \* priority traffic is guaranteed rate \div Share
  MinBurst,      \* least depth of a bucket (3000 bytes; 2 ms at high rates)
  Standing,      \* shaperMinStandingBytes
  Target, Interval,
  Recent,        \* 16 intervals
  Law,           \* Law[n] = interval / sqrt(n), up to a bound on CoDel's count
  Batch,         \* packets that one dequeue may return
  MaxWait        \* longest time a packet may be the oldest bulk packet

VARIABLES
  rate,
  control,         \* length of the control queue
  priority, bulk,  \* sequences of [wire, age]
  tokens, priorityTokens,
  codel,           \* [Queues -> state of the drop law]
  queuedBytes,     \* statistic: bytes in the three queues
  out,             \* packets that dequeue has taken; Idle: it is not running
  sleep,           \* time until the send loop's timer fires; Forever: no timer
  controls,        \* control messages still to come
  waited           \* how long the oldest bulk packet has been the oldest

queues == <<control, priority, bulk, queuedBytes>>
buckets == <<rate, tokens, priorityTokens>>
loop == <<out, sleep>>
vars == <<queues, buckets, codel, loop, controls, waited>>

\* Sizes and limits are numbers of bytes, Target a time (newShaperSettings).
ShaperAssumption ==
  /\ Wires \subseteq Nat /\ ControlWire \in Nat /\ MaxControl \in Nat /\ QueueLimit \in Nat
  /\ Target \in Nat

Queues == {"priority", "bulk"}
Zero == -1      \* a time.Time that is not set
Idle == -1
Forever == -1

Burst(r) == Max({r, MinBurst})
PriorityBurst(r) == Max({Burst(r) \div Share, MinBurst})
Bytes(q) == SumFunction([i \in DOMAIN q |-> q[i].wire])
CountDown(n) == IF n > 0 THEN n - 1 ELSE n

\* newPathShaper: full buckets, nothing queued.
Init ==
  /\ rate \in Rates
  /\ control = 0 /\ priority = <<>> /\ bulk = <<>> /\ queuedBytes = 0
  /\ tokens = Burst(rate) /\ priorityTokens = PriorityBurst(rate)
  /\ codel = [q \in Queues |-> [firstAbove |-> Zero, dropNext |-> -Recent,
                                count |-> 0, lastCount |-> 0, dropping |-> FALSE]]
  /\ out = Idle /\ sleep = Forever /\ controls = Controls /\ waited = 0

-----------------------------------------------------------------------------
(* enqueue.                                                                *)

\* Mutant: a message that finds no room is counted.
EnqueueControlCounted ==
  /\ out = Idle /\ controls > 0 /\ controls' = controls - 1
  /\ control' = IF control >= MaxControl THEN control ELSE control + 1
  /\ queuedBytes' = queuedBytes + ControlWire
  /\ sleep' = 0
  /\ UNCHANGED <<priority, bulk, buckets, codel, out, waited>>

EnqueueControl ==
  /\ out = Idle /\ controls > 0 /\ controls' = controls - 1
  /\ control' = IF control >= MaxControl THEN control ELSE control + 1
  /\ queuedBytes' = queuedBytes + (control' - control) * ControlWire
  /\ sleep' = 0
  /\ UNCHANGED <<priority, bulk, buckets, codel, out, waited>>

\* What is left of the bulk queue once the oldest packets have made room.
Room(wire) ==
  LET fits(n) == Bytes(priority) + Bytes(SubSeq(bulk, n + 1, Len(bulk))) + wire <= QueueLimit
      drops == {n \in 0..Len(bulk) : fits(n)}
  IN SubSeq(bulk, (IF drops = {} THEN Len(bulk) ELSE Min(drops)) + 1, Len(bulk))

Enqueue(wire) ==
  /\ out = Idle
  /\ LET it == [wire |-> wire, age |-> 0]
         room == Room(wire)
         accepted == Bytes(priority) + Bytes(room) + wire <= QueueLimit
         high == PrioritySize > 0 /\ wire <= PrioritySize
     IN /\ priority' = IF accepted /\ high THEN Append(priority, it) ELSE priority
        /\ bulk' = IF accepted /\ ~high THEN Append(room, it) ELSE room
        /\ queuedBytes' = queuedBytes - Bytes(bulk) + Bytes(room) + (IF accepted THEN wire ELSE 0)
  /\ sleep' = 0
  /\ waited' = IF bulk = <<>> \/ Room(wire) # bulk THEN 0 ELSE waited
  /\ UNCHANGED <<control, buckets, codel, out, controls>>

-----------------------------------------------------------------------------
(* shouldDrop: the drop law for a packet whose delay is above the target   *)
(* or not.                                                                 *)

OkToDrop(c, above) == above /\ c.firstAbove = 0

FirstAbove(c, above) ==
  IF ~above THEN Zero ELSE IF c.firstAbove = Zero THEN Interval ELSE c.firstAbove

ShouldDrop(c, above) == OkToDrop(c, above) /\ (c.dropping => c.dropNext <= 0)

\* Resume near the previous drop rate if packets were dropped recently.
Resume(c) ==
  IF c.count - c.lastCount > 1 /\ -c.dropNext < Recent THEN c.count - c.lastCount ELSE 1

Codel(c, above) ==
  LET asked == [c EXCEPT !.firstAbove = FirstAbove(c, above)]
      again == Min({c.count + 1, Len(Law)})
  IN IF ~OkToDrop(c, above) THEN [asked EXCEPT !.dropping = FALSE]
     ELSE IF ~c.dropping
     THEN [asked EXCEPT !.dropping = TRUE, !.count = Resume(c), !.lastCount = Resume(c),
                        !.dropNext = Law[Resume(c)]]
     ELSE IF c.dropNext <= 0 THEN [asked EXCEPT !.count = again, !.dropNext = @ + Law[again]]
     ELSE asked

-----------------------------------------------------------------------------
(* dequeue, one iteration of its loop after another.                       *)

Begin ==
  /\ out = Idle /\ sleep = 0
  /\ out' = 0 /\ sleep' = Forever
  /\ UNCHANGED <<queues, buckets, codel, controls, waited>>

\* A control message goes out whatever the buckets hold.
TakeControl ==
  /\ out \in 0..(Batch - 1) /\ control > 0
  /\ control' = control - 1 /\ tokens' = tokens - ControlWire
  /\ queuedBytes' = queuedBytes - ControlWire
  /\ out' = out + 1
  /\ UNCHANGED <<priority, bulk, rate, priorityTokens, codel, sleep, controls, waited>>

MayTake == out \in 0..(Batch - 1) /\ control = 0 /\ tokens > 0

\* Mutant: priority traffic first, whatever it has had.
PriorityAlways == priority # <<>>

\* Priority traffic first up to its share, and then if there is no bulk.
PriorityFirst == priority # <<>> /\ (priorityTokens > 0 \/ bulk = <<>>)

\* CoDel judges the packet only while others stand behind it.
DropsPriority ==
  Bytes(Tail(priority)) >= Standing
    /\ ShouldDrop(codel["priority"], Head(priority).age >= Target)

AskPriority ==
  codel' = IF Bytes(Tail(priority)) < Standing THEN codel
           ELSE [codel EXCEPT !["priority"] = Codel(@, Head(priority).age >= Target)]

PopPriority ==
  /\ MayTake /\ PriorityFirst
  /\ priority' = Tail(priority) /\ queuedBytes' = queuedBytes - Head(priority).wire
  /\ AskPriority
  /\ UNCHANGED <<control, bulk, rate, sleep, controls, waited>>

TakePriority ==
  /\ PopPriority /\ ~DropsPriority
  /\ tokens' = tokens - Head(priority).wire
  /\ priorityTokens' = Max({priorityTokens - Head(priority).wire, -PriorityBurst(rate)})
  /\ out' = out + 1

DropPriority ==
  /\ PopPriority /\ DropsPriority
  /\ UNCHANGED <<tokens, priorityTokens, out>>

\* With little standing behind it, a bulk packet counts as not delayed.
BulkAbove == Bytes(Tail(bulk)) >= Standing /\ Head(bulk).age >= Target

PopBulk ==
  /\ MayTake /\ ~PriorityFirst /\ bulk # <<>>
  /\ bulk' = Tail(bulk) /\ queuedBytes' = queuedBytes - Head(bulk).wire
  /\ codel' = [codel EXCEPT !["bulk"] = Codel(@, BulkAbove)]
  /\ waited' = 0
  /\ UNCHANGED <<control, priority, rate, priorityTokens, sleep, controls>>

TakeBulk ==
  /\ PopBulk /\ ~ShouldDrop(codel["bulk"], BulkAbove)
  /\ tokens' = tokens - Head(bulk).wire
  /\ out' = out + 1

DropBulk ==
  /\ PopBulk /\ ShouldDrop(codel["bulk"], BulkAbove)
  /\ UNCHANGED <<tokens, out>>

\* wait: until half a bucket of tokens is there, if something is queued.
Wait ==
  IF control > 0 THEN 0
  ELSE IF priority = <<>> /\ bulk = <<>> THEN Forever
  ELSE IF tokens > 0 THEN 0
  ELSE (-tokens + Burst(rate) \div 2 + rate - 1) \div rate

\* The batch is full or nothing more may be sent: it is written, and the send
\* loop sleeps.
Finish ==
  /\ out # Idle
  /\ out = Batch \/ (control = 0 /\ (tokens <= 0 \/ (priority = <<>> /\ bulk = <<>>)))
  /\ out' = Idle /\ sleep' = Wait
  /\ UNCHANGED <<queues, buckets, codel, controls, waited>>

\* setRate: autorate changes the rate.
SetRate(r) ==
  /\ out = Idle /\ r # rate
  /\ rate' = r
  /\ tokens' = Min({tokens, Burst(r)})
  /\ priorityTokens' = Min({priorityTokens, PriorityBurst(r)})
  /\ UNCHANGED <<queues, codel, loop, controls, waited>>

\* Time passes, and with it refill.  The send loop is prompt: it runs within the
\* tick in which it is woken.
Tick ==
  /\ out = Idle /\ sleep # 0
  /\ tokens' = Min({tokens + rate, Burst(rate)})
  /\ priorityTokens' = Min({priorityTokens + rate \div Share, PriorityBurst(rate)})
  /\ LET older(q) == [i \in DOMAIN q |-> [q[i] EXCEPT !.age = Min({@ + 1, Target})]]
     IN priority' = older(priority) /\ bulk' = older(bulk)
  /\ codel' = [q \in Queues |-> [codel[q] EXCEPT !.firstAbove = CountDown(@),
                                                 !.dropNext = Max({@ - 1, -Recent})]]
  /\ sleep' = CountDown(sleep)
  /\ waited' = IF bulk = <<>> THEN 0 ELSE Min({waited + 1, MaxWait + 1})
  /\ UNCHANGED <<control, queuedBytes, rate, out, controls>>

Dequeue == TakeControl \/ TakePriority \/ DropPriority \/ TakeBulk \/ DropBulk \/ Finish

Next ==
  \/ EnqueueControl \/ \E w \in Wires : Enqueue(w)
  \/ Begin \/ Dequeue
  \/ \E r \in Rates : SetRate(r)
  \/ Tick

Spec == Init /\ [][Next]_vars

-----------------------------------------------------------------------------

\* The queued bytes that the API reports are the bytes in the queues, and data
\* never exceeds the limit, whatever overflow, CoDel and dequeue take away
\* (enqueue, drop, take).
BytesAreQueued ==
  /\ queuedBytes = control * ControlWire + Bytes(priority) + Bytes(bulk)
  /\ Bytes(priority) + Bytes(bulk) <= QueueLimit

\* "Priority traffic goes first up to its share; beyond that, queued bulk gets the
\* rest so small-packet floods cannot starve it": the oldest bulk packet is sent or
\* dropped within MaxWait, and the send loop never sleeps too long with data queued
\* (dequeue, wait).
BulkNotStarved == waited <= MaxWait
=============================================================================
