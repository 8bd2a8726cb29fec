--------------------------- MODULE TcpStreamProofs ---------------------------
(***************************************************************************)
(* Proofs about TcpStream for every size of windows, segments and inputs.  *)
(* Every operator on a stream x = [c, s, r, out] of end e is shown to keep *)
(* StreamOK(e, x); each action applies them to one end.                    *)
(***************************************************************************)
EXTENDS TcpStream, WellFoundedInduction, TLAPS

XType == [c : CtlType, s : SndType, r : RcvType, out : SUBSET Frame]

\* Segments kept out of order lie after rcvNxt and within the window.
InWindow(e, r) ==
  \A g \in r.ooo : r.rcvNxt < g.seq /\ SegEnd(g) <= r.rcvNxt + Window[e]

\* The send side's part of NoLostWakeup, and what makes it inductive: timerArmed
\* never outlives the timer and its callback, a reader that waits beside an open
\* window has been signalled, none is left after EOF, and none runs before its
\* connection is up.
SndAwake(c, s) ==
  /\ s.timerArmed => TimerDue(s)
  /\ s.unacked # {} => s.timerArmed
  /\ c.rd = "wait" => s.timerArmed \/ s.sendCh
  /\ c.rd = "wait" /\ s.unacked = {} /\ s.sndRight > s.sndNxt => s.sendCh
  /\ c.rd # "off" => ~s.finQueued
  /\ c.rd # "off" \/ s.finQueued => c.conn = "up"

\* A delayed ACK has its timer.
AckTimed(r) == r.ackPending > 0 => r.ackTimerSet

\* What waits for writeLoop has been signalled to it.
WorkSignalled(r) == r.rcvQueue # <<>> \/ r.rcvFin => r.writeCh

\* The receive side's part of NoLostWakeup.
RcvAwake(c, r) == AckTimed(r) /\ (c.wr = "wait" => WorkSignalled(r))

\* tcp_forward dials only after the OPEN.
DialOK(e, c) == e = "server" /\ c.conn # "none" => c.opened

StreamOK(e, x) ==
  /\ x \in XType
  /\ InWindow(e, x.r) /\ DialOK(e, x.c)
  /\ x.c.life = "alive" => SndAwake(x.c, x.s) /\ RcvAwake(x.c, x.r)

-----------------------------------------------------------------------------
(* Least elements.                                                         *)

\* A nonempty set of naturals has a least element, which Min returns.
LEMMA MinProperty ==
  ASSUME NEW S \in SUBSET Nat, S # {}
  PROVE  Min(S) \in S /\ \A y \in S : Min(S) <= y
<1>1. PICK m \in S : \A y \in S : ~(<<y, m>> \in OpToRel(<, Nat))
  BY NatLessThanWellFounded, WFMin
<1>2. \A y \in S : ~(y < m)
  <2>1. \A y \in S : y \in Nat /\ m \in Nat
    OBVIOUS
  <2>2. QED
    BY <1>1, <2>1, Zenon DEF OpToRel
<1>3. \A y \in S : m <= y
  BY <1>2
<1>4. QED
  BY <1>3 DEF Min

\* First returns a segment of the set it is given.
LEMMA FirstProperty ==
  ASSUME NEW S \in SUBSET Segment, S # {}
  PROVE  First(S) \in S
<1> DEFINE T == {g.seq : g \in S}
<1>1. T \in SUBSET Nat /\ T # {}
  BY DEF Segment
<1>2. Min(T) \in T /\ \A y \in T : Min(T) <= y
  BY <1>1, MinProperty
<1>3. PICK g \in S : g.seq = Min(T)
  BY <1>2
<1>4. \A h \in S : g.seq <= h.seq
  BY <1>2, <1>3
<1>5. QED
  BY <1>4 DEF First

-----------------------------------------------------------------------------
(* Frames, the delayed ACK and the retransmission timer.                   *)

\* fillAckLocked touches only the delayed ACK and the advertised edge.
LEMMA FillAckKeeps ==
  ASSUME NEW e \in Ends, NEW r \in RcvType
  PROVE  /\ FillAck(e, r) \in RcvType
         /\ FillAck(e, r).rcvNxt = r.rcvNxt /\ FillAck(e, r).ooo = r.ooo
         /\ FillAck(e, r).rcvQueue = r.rcvQueue
         /\ FillAck(e, r).rcvFin = r.rcvFin
         /\ FillAck(e, r).writeCh = r.writeCh
         /\ FillAck(e, r).ackPending = 0
<1>1. Larger(r.advRight, r.rcvNxt + Free(e, r)) \in Nat
  BY WindowAssumption DEF Free, Larger, RcvType
<1>2. QED
  BY <1>1, Zenon DEF FillAck, RcvType

\* The frames a stream builds are frames.
LEMMA FramesTyped ==
  ASSUME NEW e \in Ends, NEW r \in RcvType, NEW p \in BOOLEAN, NEW o \in BOOLEAN
  PROVE  /\ AckFrame(e, r, p, o) \in Frame
         /\ \A g \in Segment : SegFrame(e, r, g) \in Frame
         /\ RstFrame \in Frame
<1>1. Free(e, r) \in Nat /\ r.rcvNxt \in Nat
  BY WindowAssumption DEF Free, Larger, RcvType
<1>2. AckFrame(e, r, p, o) \in ControlFrames
  BY <1>1 DEF AckFrame, ControlFrames
<1>3. RstFrame \in ControlFrames
  BY DEF RstFrame, ControlFrames
<1>4. ASSUME NEW g \in Segment PROVE SegFrame(e, r, g) \in SegFrames
  BY <1>1 DEF SegFrame, SegFrames, Segment
<1>5. QED
  BY <1>2, <1>3, <1>4 DEF Frame

\* armTimerLocked leaves the timer running unless nothing waits for it.
LEMMA ArmTimerKeeps ==
  ASSUME NEW s \in SndType
  PROVE  LET t == ArmTimer(s) IN
         /\ t \in SndType
         /\ t.unacked = s.unacked /\ t.sndRight = s.sndRight /\ t.sndNxt = s.sndNxt
         /\ t.finQueued = s.finQueued /\ t.sendCh = s.sendCh
         /\ t.timerArmed => TimerDue(t)
         /\ t.timerArmed \/ (s.unacked = {} /\ (s.sndRight > s.sndNxt \/ s.finQueued))
<1>1. (s.running /\ ~s.timerArmed) \in BOOLEAN
  OBVIOUS
<1>2. QED
  BY <1>1, Zenon DEF ArmTimer, SndType, TimerDue

\* Ending a stream, by abortLocked or maybeFinishLocked, leaves a typed one.
LEMMA EndStreamTyped ==
  ASSUME NEW x \in XType, NEW life \in Lives
  PROVE  /\ EndStream(x, life) \in XType
         /\ EndStream(x, life).c.life = life
         /\ EndStream(x, life).c.conn = x.c.conn
         /\ EndStream(x, life).c.opened = x.c.opened
         /\ EndStream(x, life).r.ooo = {}
<1>1. /\ InitWindow \in Nat /\ 0 \in Nat /\ 0 \in {0, 1} /\ <<>> \in Seq(Bytes)
      /\ 0 \in 0 .. MaxBackoff /\ 0 \in 0 .. DupThresh + 1
  BY SizesAssumption
<1>2. EndSnd(x.s) \in SndType
  BY <1>1, Zenon DEF XType, EndSnd, NewSnd, SndType
<1>3. EndRcv(x.r) \in RcvType /\ EndRcv(x.r).ooo = {}
  BY <1>1, Zenon DEF XType, EndRcv, NewRcv, RcvType
<1>4. /\ EndCtl(x.c, life) \in CtlType /\ EndCtl(x.c, life).life = life
      /\ EndCtl(x.c, life).conn = x.c.conn /\ EndCtl(x.c, life).opened = x.c.opened
  BY <1>1, Zenon DEF XType, EndCtl, CtlType
<1>5. QED
  BY <1>2, <1>3, <1>4, Zenon DEF XType, EndStream

-----------------------------------------------------------------------------
(* The send side.                                                          *)

\* What every frame carries.
LEMMA FrameFields ==
  ASSUME NEW f \in Frame
  PROVE  f.ack \in Nat /\ f.wnd \in Nat /\ f.probe \in BOOLEAN
  BY Zenon DEF Frame, SegFrames, ControlFrames

\* SndAwake before the window of the same frame is looked at.
AckAwake(c, s) ==
  /\ s.timerArmed => TimerDue(s)
  /\ s.unacked # {} => s.timerArmed
  /\ c.rd = "wait" => s.timerArmed \/ s.sendCh \/ s.sndRight > s.sndNxt
  /\ c.rd # "off" => ~s.finQueued
  /\ c.rd # "off" \/ s.finQueued => c.conn = "up"

\* The acknowledgement half of processAckLocked.
LEMMA NoteAckAwake ==
  ASSUME NEW c \in CtlType, NEW s \in SndType, SndAwake(c, s), NEW f \in Frame
  PROVE  NoteAck(s, f) \in SndType /\ AckAwake(c, NoteAck(s, f))
<1>1. CASE Advances(s, f)
  <2> DEFINE u == [s EXCEPT !.unacked = {g \in @ : SegEnd(g) > f.ack},
                            !.sndUna = f.ack, !.backoff = 0, !.dupAcks = 0,
                            !.stale = FALSE]
  <2>1. 0 \in 0 .. MaxBackoff /\ 0 \in 0 .. DupThresh + 1
    BY SizesAssumption
  <2>2. {g \in s.unacked : SegEnd(g) > f.ack} \in SUBSET Segment
    BY Zenon DEF SndType
  <2>3. u \in SndType /\ u.finQueued = s.finQueued
    BY <2>1, <2>2, FrameFields, Zenon DEF SndType
  <2>4. NoteAck(s, f) = ArmTimer(u)
    BY <1>1, Zenon DEF NoteAck
  <2> HIDE DEF u
  <2>5. QED
    BY <2>3, <2>4, ArmTimerKeeps DEF AckAwake, SndAwake
<1>2. CASE ~Advances(s, f) /\ DupAck(s, f)
  <2>1. /\ Smaller(s.dupAcks + 1, DupThresh + 1) \in 0 .. DupThresh + 1
        /\ (IF s.dupAcks + 1 = DupThresh THEN s.sndNxt ELSE s.recover) \in Nat
    BY SizesAssumption DEF Smaller, SndType
  <2> DEFINE n == NoteAck(s, f)
  <2>2. /\ n \in SndType /\ n.timerArmed = s.timerArmed /\ n.running = s.running
        /\ n.late = s.late /\ n.unacked = s.unacked /\ n.sndRight = s.sndRight
        /\ n.sndNxt = s.sndNxt /\ n.finQueued = s.finQueued /\ n.sendCh = s.sendCh
    BY <1>2, <2>1, Zenon DEF NoteAck, SndType
  <2> HIDE DEF n
  <2>3. n \in SndType /\ AckAwake(c, n)
    BY <2>2, Zenon DEF AckAwake, SndAwake, TimerDue
  <2>4. QED
    BY <2>3 DEF n
<1>3. CASE ~Advances(s, f) /\ ~DupAck(s, f)
  BY <1>3, Zenon DEF NoteAck, AckAwake, SndAwake
<1>4. QED
  BY <1>1, <1>2, <1>3, Zenon

\* Starting the timer unless it runs.
LEMMA ArmTimerIfOffKeeps ==
  ASSUME NEW s \in SndType, s.timerArmed => TimerDue(s)
  PROVE  LET t == ArmTimerIfOff(s) IN
         /\ t \in SndType
         /\ t.unacked = s.unacked /\ t.sndRight = s.sndRight /\ t.sndNxt = s.sndNxt
         /\ t.finQueued = s.finQueued /\ t.sendCh = s.sendCh
         /\ t.timerArmed => TimerDue(t)
         /\ t.timerArmed \/ (s.unacked = {} /\ (s.sndRight > s.sndNxt \/ s.finQueued))
  BY ArmTimerKeeps, Zenon DEF ArmTimerIfOff

\* The window half of processAckLocked: an open window signals the reader.
LEMMA NoteWindowAwake ==
  ASSUME NEW c \in CtlType, NEW s \in SndType, AckAwake(c, s), NEW f \in Frame
  PROVE  NoteWindow(s, f) \in SndType /\ SndAwake(c, NoteWindow(s, f))
<1> DEFINE right == f.ack + f.wnd
           w == [s EXCEPT !.sndRight = right]
           s1 == IF right > s.sndRight THEN ArmTimerIfOff(w) ELSE s
           n == NoteWindow(s, f)
<1>1. right \in Nat
  BY FrameFields
<1>2. /\ w \in SndType /\ w.timerArmed = s.timerArmed /\ w.running = s.running
      /\ w.late = s.late /\ w.unacked = s.unacked /\ w.sndRight = right
      /\ w.sndNxt = s.sndNxt /\ w.finQueued = s.finQueued /\ w.sendCh = s.sendCh
  BY <1>1, Zenon DEF SndType
<1>3. w.timerArmed => TimerDue(w)
  BY <1>2, Zenon DEF AckAwake, TimerDue
<1>4. n = [s1 EXCEPT !.sendCh = s1.sendCh \/ s1.sndRight > s1.sndNxt]
  BY Zenon DEF NoteWindow
<1> HIDE DEF right, w
<1>5. /\ s1 \in SndType
      /\ s1.timerArmed => TimerDue(s1)
      /\ s1.unacked # {} => s1.timerArmed
      /\ c.rd = "wait" => s1.timerArmed \/ s1.sendCh \/ s1.sndRight > s1.sndNxt
      /\ c.rd # "off" => ~s1.finQueued
      /\ c.rd # "off" \/ s1.finQueued => c.conn = "up"
  BY <1>1, <1>2, <1>3, ArmTimerIfOffKeeps DEF AckAwake
<1> HIDE DEF s1
<1>6. (s1.sendCh \/ s1.sndRight > s1.sndNxt) \in BOOLEAN
  OBVIOUS
<1>7. /\ n \in SndType /\ n.timerArmed = s1.timerArmed /\ n.running = s1.running
      /\ n.late = s1.late /\ n.unacked = s1.unacked /\ n.sndRight = s1.sndRight
      /\ n.sndNxt = s1.sndNxt /\ n.finQueued = s1.finQueued
      /\ n.sendCh = (s1.sendCh \/ s1.sndRight > s1.sndNxt)
  BY <1>4, <1>5, <1>6, Zenon DEF SndType
<1> HIDE DEF n
<1>8. n \in SndType /\ SndAwake(c, n)
  BY <1>5, <1>7, Zenon DEF SndAwake, TimerDue
<1>9. QED
  BY <1>8 DEF n

\* processAckLocked never leaves unacknowledged data or a blocked reader asleep.
LEMMA ProcessAckAwake ==
  ASSUME NEW c \in CtlType, NEW s \in SndType, SndAwake(c, s), NEW f \in Frame
  PROVE  ProcessAck(s, f) \in SndType /\ SndAwake(c, ProcessAck(s, f))
  BY NoteAckAwake, NoteWindowAwake, Zenon DEF ProcessAck

-----------------------------------------------------------------------------
(* The receive side.                                                       *)

\* Where the loop that drains ooo stops: after n only covered positions, then
\* one that no segment covers.
LEMMA ChainEndProperty ==
  ASSUME NEW e \in Ends, NEW r \in RcvType, InWindow(e, r),
         NEW n \in Nat, r.rcvNxt <= n
  PROVE  LET k == ChainEnd(e, r.ooo, n) IN
         /\ k \in Nat /\ n <= k
         /\ \A g \in r.ooo : ~Covers(g, k)
         /\ \A q \in n .. k - 1 : \E g \in r.ooo : Covers(g, q)
<1> DEFINE S == {p \in n .. n + Window[e] : \A g \in r.ooo : ~Covers(g, p)}
<1>1. Window[e] \in Nat
  BY WindowAssumption
<1>2. n + Window[e] \in S
  <2>1. ASSUME NEW g \in r.ooo PROVE ~Covers(g, n + Window[e])
    <3>1. SegEnd(g) \in Nat /\ SegEnd(g) <= r.rcvNxt + Window[e] /\ r.rcvNxt \in Nat
      BY DEF InWindow, RcvType, SegEnd, Segment
    <3>2. QED
      BY <1>1, <3>1 DEF Covers
  <2>2. QED
    BY <1>1, <2>1
<1>3. S \in SUBSET Nat /\ S # {}
  BY <1>1, <1>2
<1>4. Min(S) \in S /\ \A y \in S : Min(S) <= y
  BY <1>3, MinProperty
<1>5. ChainEnd(e, r.ooo, n) = Min(S)
  BY DEF ChainEnd
<1> DEFINE k == Min(S)
<1>6. k \in Nat /\ n <= k /\ k <= n + Window[e] /\ \A g \in r.ooo : ~Covers(g, k)
  BY <1>1, <1>4
<1>7. ASSUME NEW q \in n .. k - 1 PROVE \E g \in r.ooo : Covers(g, q)
  <2>1. q \in n .. n + Window[e] /\ ~(k <= q)
    BY <1>1, <1>6
  <2>2. q \notin S
    BY <1>4, <2>1
  <2>3. QED
    BY <2>1, <2>2
<1>8. QED
  BY <1>5, <1>6, <1>7

\* The segments got cover the positions from .. to - 1.
Covered(got, from, to) == \A q \in from .. to - 1 : \E g \in got : Covers(g, q)

\* The payload of covered positions is a sequence of bytes.
LEMMA PayloadTyped ==
  ASSUME NEW got \in SUBSET Segment, NEW from \in Nat, NEW to \in Int,
         Covered(got, from, to)
  PROVE  Payload(got, from, to) \in Seq(Bytes)
<1>1. ASSUME NEW i \in 1 .. to - from PROVE ByteAt(got, from + i - 1) \in Bytes
  <2> DEFINE q == from + i - 1
             g == CHOOSE g \in got : Covers(g, q)
  <2>1. q \in from .. to - 1 /\ q \in Nat
    OBVIOUS
  <2>2. g \in got /\ Covers(g, q)
    BY <2>1, Zenon DEF Covered
  <2>3. g.src \in Nat /\ g.lo \in Nat /\ g.seq \in Nat
    BY <2>2 DEF Segment
  <2>4. ByteAt(got, q) = <<g.src, g.lo + (q - g.seq)>>
    BY Zenon DEF ByteAt
  <2> HIDE DEF g, q
  <2>5. g.lo + (q - g.seq) \in Nat
    BY <2>1, <2>2, <2>3 DEF Covers
  <2>6. <<g.src, g.lo + (q - g.seq)>> \in Nat \X Nat
    BY <2>3, <2>5, Zenon
  <2>7. QED
    BY <2>4, <2>6, Zenon DEF Bytes, q
<1>2. Payload(got, from, to) \in [1 .. to - from -> Bytes]
  BY <1>1, Zenon DEF Payload
<1>3. CASE to - from \in Nat
  BY <1>2, <1>3
<1>4. CASE to - from \notin Nat
  <2>1. 1 .. to - from = 1 .. 0
    BY <1>4
  <2>2. Payload(got, from, to) \in [1 .. 0 -> Bytes]
    BY <1>2, <2>1, Zenon
  <2>3. QED
    BY <2>2
<1>5. QED
  BY <1>3, <1>4

\* deliverLocked, applied to segments without a gap, signals writeLoop.
LEMMA DeliverAllKeeps ==
  ASSUME NEW r \in RcvType, NEW got \in SUBSET Segment, NEW end \in Nat,
         Covered(got, r.rcvNxt, end)
  PROVE  LET d == DeliverAll(r, got, end) IN
         /\ d \in RcvType
         /\ d.rcvNxt = end /\ d.ooo = r.ooo \ got
         /\ d.ackPending = r.ackPending /\ d.ackTimerSet = r.ackTimerSet
         /\ WorkSignalled(r) => WorkSignalled(d)
<1> DEFINE open == \E g \in got : g.typ = "open"
           fin == \E g \in got : g.typ = "fin"
           from == IF open THEN r.rcvNxt + 1 ELSE r.rcvNxt
           to == IF fin THEN end - 1 ELSE end
           bytes == Payload(got, from, to)
           d == DeliverAll(r, got, end)
<1>1. from \in Nat /\ to \in Int /\ r.rcvNxt <= from /\ to <= end /\ r.rcvNxt \in Nat
  BY DEF RcvType
<1>2. Covered(got, from, to)
  BY <1>1 DEF Covered
<1>3. bytes \in Seq(Bytes)
  BY <1>1, <1>2, PayloadTyped
<1>4. d = [r EXCEPT !.rcvNxt = end, !.ooo = r.ooo \ got,
                    !.rcvQueue = r.rcvQueue \o bytes,
                    !.rcvQueued = r.rcvQueued + Len(bytes),
                    !.rcvFin = r.rcvFin \/ fin,
                    !.writeCh = r.writeCh \/ fin \/ bytes # <<>>]
  BY Zenon DEF DeliverAll
<1>5. /\ r.rcvQueue \in Seq(Bytes) /\ r.rcvQueued \in Int
      /\ (r.rcvFin \/ fin) \in BOOLEAN
      /\ (r.writeCh \/ fin \/ bytes # <<>>) \in BOOLEAN
  BY Zenon DEF RcvType
<1> HIDE DEF bytes, fin, d
<1>6. /\ r.rcvQueue \o bytes \in Seq(Bytes) /\ r.rcvQueued + Len(bytes) \in Int
      /\ r.rcvQueue = <<>> /\ bytes = <<>> => r.rcvQueue \o bytes = <<>>
  BY <1>3, <1>5
<1>7. r.ooo \ got \in SUBSET Segment
  BY Zenon DEF RcvType
<1>8. /\ d \in RcvType
      /\ d.rcvNxt = end /\ d.ooo = r.ooo \ got
      /\ d.ackPending = r.ackPending /\ d.ackTimerSet = r.ackTimerSet
      /\ d.rcvQueue = r.rcvQueue \o bytes /\ d.rcvFin = (r.rcvFin \/ fin)
      /\ d.writeCh = (r.writeCh \/ fin \/ bytes # <<>>)
  BY <1>4, <1>5, <1>6, <1>7, Zenon DEF RcvType
<1>9. WorkSignalled(r) => WorkSignalled(d)
  BY <1>6, <1>8, Zenon DEF WorkSignalled
<1>10. QED
  BY <1>8, <1>9, Zenon DEF d

\* A segment that arrives in order takes along what followed it out of order.
LEMMA TakeInOrderKeeps ==
  ASSUME NEW e \in Ends, NEW r \in RcvType, InWindow(e, r),
         NEW g \in Segment, g.seq = r.rcvNxt
  PROVE  LET d == TakeInOrder(e, r, g) IN
         /\ d \in RcvType /\ InWindow(e, d)
         /\ d.ackPending = r.ackPending /\ d.ackTimerSet = r.ackTimerSet
         /\ WorkSignalled(r) => WorkSignalled(d)
<1> DEFINE k == ChainEnd(e, r.ooo, SegEnd(g))
           got == {g} \cup Follow(e, r, g)
           new == TakeInOrder(e, r, g)
<1>1. SegEnd(g) \in Nat /\ r.rcvNxt <= SegEnd(g) /\ r.rcvNxt \in Nat
  BY DEF SegEnd, Segment, RcvType
<1>2. /\ k \in Nat /\ SegEnd(g) <= k
      /\ \A h \in r.ooo : ~Covers(h, k)
      /\ \A q \in SegEnd(g) .. k - 1 : \E h \in r.ooo : Covers(h, q)
  BY <1>1, ChainEndProperty
<1>3. got \in SUBSET Segment /\ g \in got /\ \A h \in r.ooo : h.seq < k => h \in got
  BY DEF Follow, RcvType
<1>4. \A h \in r.ooo : h \notin got => ~(h.seq < k)
  BY <1>3
<1>5. new = DeliverAll(r, got, k)
  BY DEF TakeInOrder
<1> HIDE DEF k, got, new
<1>6. ASSUME NEW q \in r.rcvNxt .. k - 1 PROVE \E h \in got : Covers(h, q)
  <2>1. CASE q < SegEnd(g)
    BY <1>1, <1>2, <1>3, <2>1 DEF Covers
  <2>2. CASE ~(q < SegEnd(g))
    <3>1. q \in SegEnd(g) .. k - 1
      BY <1>1, <1>2, <2>2
    <3>2. PICK h \in r.ooo : Covers(h, q)
      BY <1>2, <3>1
    <3>3. h.seq < k
      BY <1>1, <1>2, <3>1, <3>2 DEF Covers, RcvType, Segment
    <3>4. QED
      BY <1>3, <3>2, <3>3
  <2>3. QED
    BY <2>1, <2>2
<1>7. Covered(got, r.rcvNxt, k)
  BY <1>6 DEF Covered
<1>8. /\ DeliverAll(r, got, k) \in RcvType
      /\ DeliverAll(r, got, k).rcvNxt = k
      /\ DeliverAll(r, got, k).ooo = r.ooo \ got
      /\ DeliverAll(r, got, k).ackPending = r.ackPending
      /\ DeliverAll(r, got, k).ackTimerSet = r.ackTimerSet
      /\ WorkSignalled(r) => WorkSignalled(DeliverAll(r, got, k))
  <2>1. k \in Nat /\ got \in SUBSET Segment
    BY <1>2, <1>3
  <2>2. QED
    BY <1>7, <2>1, DeliverAllKeeps
<1>9. ASSUME NEW h \in new.ooo
      PROVE  new.rcvNxt < h.seq /\ SegEnd(h) <= new.rcvNxt + Window[e]
  <2>1. h \in r.ooo /\ ~(h.seq < k) /\ ~Covers(h, k)
    BY <1>2, <1>4, <1>5, <1>8, <1>9
  <2>2. h.seq \in Nat /\ h.len \in Nat /\ h.len # 0
    BY <2>1 DEF RcvType, Segment
  <2>3. k < h.seq
    BY <1>2, <2>1, <2>2 DEF Covers, SegEnd
  <2>4. SegEnd(h) <= r.rcvNxt + Window[e]
    BY <2>1 DEF InWindow
  <2>5. Window[e] \in Nat /\ SegEnd(h) \in Nat
    BY <2>2, WindowAssumption DEF SegEnd
  <2>6. QED
    BY <1>1, <1>2, <1>5, <1>8, <2>3, <2>4, <2>5
<1>10. InWindow(e, new)
  BY <1>9 DEF InWindow
<1>11. QED
  BY <1>5, <1>8, <1>10 DEF new

\* An immediate ACK leaves the receive side as it was, the delayed ACK settled.
LEMMA AcknowledgeKeeps ==
  ASSUME NEW e \in Ends, NEW r \in RcvType, NEW o \in BOOLEAN
  PROVE  LET a == Acknowledge(e, r, o) IN
         /\ a.r \in RcvType /\ a.out \in SUBSET Frame
         /\ InWindow(e, r) => InWindow(e, a.r)
         /\ AckTimed(a.r)
         /\ WorkSignalled(r) => WorkSignalled(a.r)
<1> DEFINE z == FillAck(e, r)
           y == AckFrame(e, r, FALSE, o)
<1>1. /\ z \in RcvType /\ z.rcvNxt = r.rcvNxt /\ z.ooo = r.ooo
      /\ z.rcvQueue = r.rcvQueue /\ z.rcvFin = r.rcvFin /\ z.writeCh = r.writeCh
      /\ z.ackPending = 0
  BY FillAckKeeps
<1>2. y \in Frame
  BY FramesTyped
<1>3. Acknowledge(e, r, o).r = z /\ Acknowledge(e, r, o).out = {y}
  BY DEF Acknowledge
<1> HIDE DEF z, y
<1>4. AckTimed(z)
  BY <1>1 DEF AckTimed
<1>5. QED
  BY <1>1, <1>2, <1>3, <1>4, Zenon DEF InWindow, WorkSignalled

\* The segment a frame carries.
LEMMA SegOfTyped ==
  ASSUME NEW f \in Frame, f.typ \in SegTypes
  PROVE  SegOf(f) \in Segment
<1>1. f \in SegFrames
  BY DEF Frame, ControlFrames, SegTypes
<1>2. QED
  BY <1>1, Zenon DEF SegFrames, SegOf, Segment

\* Storing a segment ahead of a gap keeps the out-of-order store in the window.
LEMMA StoreAheadKeeps ==
  ASSUME NEW e \in Ends, NEW r \in RcvType, InWindow(e, r), NEW g \in Segment
  PROVE  LET a == StoreAhead(e, r, g) IN
         /\ a \in RcvType /\ InWindow(e, a)
         /\ WorkSignalled(r) => WorkSignalled(a)
<1>1. CASE /\ g.seq > r.rcvNxt /\ SegEnd(g) <= r.rcvNxt + Window[e]
           /\ \A h \in r.ooo : h.seq # g.seq
  <2> DEFINE z == StoreAhead(e, r, g)
  <2>1. r.ooo \cup {g} \in SUBSET Segment
    BY Zenon DEF RcvType
  <2>2. /\ z \in RcvType /\ z.ooo = r.ooo \cup {g} /\ z.rcvNxt = r.rcvNxt
        /\ z.rcvQueue = r.rcvQueue /\ z.rcvFin = r.rcvFin /\ z.writeCh = r.writeCh
    BY <1>1, <2>1, Zenon DEF StoreAhead, RcvType
  <2> HIDE DEF z
  <2>3. r.rcvNxt < g.seq
    BY <1>1 DEF RcvType, Segment
  <2>4. InWindow(e, z) /\ (WorkSignalled(r) => WorkSignalled(z))
    BY <1>1, <2>2, <2>3, Zenon DEF InWindow, WorkSignalled
  <2>5. QED
    BY <2>2, <2>4 DEF z
<1>2. CASE ~ /\ g.seq > r.rcvNxt /\ SegEnd(g) <= r.rcvNxt + Window[e]
             /\ \A h \in r.ooo : h.seq # g.seq
  BY <1>2, Zenon DEF StoreAhead
<1>3. QED
  BY <1>1, <1>2, Zenon

\* processSegmentLocked keeps the receive side sound and its loops awake.
LEMMA ProcessSegmentKeeps ==
  ASSUME NEW e \in Ends, NEW r \in RcvType, InWindow(e, r), AckTimed(r),
         NEW f \in Frame, f.typ \in SegTypes
  PROVE  LET p == ProcessSegment(e, r, f) IN
         /\ p.r \in RcvType /\ p.out \in SUBSET Frame
         /\ InWindow(e, p.r) /\ AckTimed(p.r)
         /\ WorkSignalled(r) => WorkSignalled(p.r)
<1> DEFINE g == SegOf(f)
           z == ProcessSegment(e, r, f)
<1>1. g \in Segment
  BY SegOfTyped
<1> HIDE DEF g
<1>2. CASE z = Acknowledge(e, r, FALSE)
  BY <1>2, AcknowledgeKeeps
<1>3. CASE z = Acknowledge(e, StoreAhead(e, r, g), TRUE)
  BY <1>1, <1>3, StoreAheadKeeps, AcknowledgeKeeps
<1>4. CASE z = [r |-> r, out |-> {}]
  <2>1. z.r = r /\ z.out = {}
    BY <1>4
  <2>2. QED
    BY <2>1
<1>5. CASE z = Acknowledge(e, TakeInOrder(e, r, g), FALSE) /\ g.seq = r.rcvNxt
  BY <1>1, <1>5, TakeInOrderKeeps, AcknowledgeKeeps
<1>6. CASE z = [r |-> DelayAck(TakeInOrder(e, r, g)), out |-> {}] /\ g.seq = r.rcvNxt
  <2> DEFINE u == TakeInOrder(e, r, g)
             v == DelayAck(u)
  <2>1. u \in RcvType /\ InWindow(e, u) /\ (WorkSignalled(r) => WorkSignalled(u))
    BY <1>1, <1>6, TakeInOrderKeeps
  <2> HIDE DEF u
  <2>2. 1 \in {0, 1}
    OBVIOUS
  <2>3. /\ v \in RcvType /\ v.ooo = u.ooo /\ v.rcvNxt = u.rcvNxt
        /\ v.rcvQueue = u.rcvQueue /\ v.rcvFin = u.rcvFin /\ v.writeCh = u.writeCh
        /\ v.ackTimerSet = TRUE
    BY <2>1, <2>2, Zenon DEF DelayAck, RcvType
  <2> HIDE DEF v
  <2>4. /\ InWindow(e, v) /\ AckTimed(v)
        /\ WorkSignalled(r) => WorkSignalled(v)
    BY <2>1, <2>3, Zenon DEF InWindow, AckTimed, WorkSignalled
  <2>5. z.r = v /\ z.out = {}
    BY <1>6 DEF v, u
  <2>6. QED
    BY <2>3, <2>4, <2>5, Zenon
<1>7. \/ z = Acknowledge(e, r, FALSE)
      \/ z = Acknowledge(e, StoreAhead(e, r, g), TRUE)
      \/ z = [r |-> r, out |-> {}]
      \/ z = Acknowledge(e, TakeInOrder(e, r, g), FALSE) /\ g.seq = r.rcvNxt
      \/ z = [r |-> DelayAck(TakeInOrder(e, r, g)), out |-> {}] /\ g.seq = r.rcvNxt
  BY Zenon DEF ProcessSegment, g
<1>8. QED
  BY <1>2, <1>3, <1>4, <1>5, <1>6, <1>7, Zenon

-----------------------------------------------------------------------------
(* Operators on a whole stream.                                            *)

\* An ended stream is sound.
LEMMA EndStreamOK ==
  ASSUME NEW e \in Ends, NEW x \in XType, NEW life \in Lives, life # "alive",
         DialOK(e, x.c)
  PROVE  StreamOK(e, EndStream(x, life))
  BY EndStreamTyped, Zenon DEF StreamOK, InWindow, DialOK

\* abortLocked yields a sound stream, even from the middle of onTimer.
LEMMA AbortOK ==
  ASSUME NEW e \in Ends, NEW x \in XType, InWindow(e, x.r), DialOK(e, x.c),
         NEW n \in BOOLEAN
  PROVE  StreamOK(e, Abort(x, n))
<1> DEFINE y == [x EXCEPT !.out = IF n THEN @ \cup {RstFrame} ELSE @]
<1>1. RstFrame \in Frame
  BY DEF RstFrame, Frame, ControlFrames
<1>2. y \in XType /\ y.c = x.c
  BY <1>1, Zenon DEF XType
<1>3. "aborted" \in Lives /\ "aborted" # "alive"
  BY DEF Lives
<1>4. StreamOK(e, EndStream(y, "aborted"))
  BY <1>2, <1>3, EndStreamOK
<1>5. x.c.life # "alive" => StreamOK(e, x)
  BY Zenon DEF StreamOK
<1>6. QED
  BY <1>4, <1>5, Zenon DEF Abort

\* maybeFinishLocked keeps a stream sound.
LEMMA MaybeFinishOK ==
  ASSUME NEW e \in Ends, NEW x, StreamOK(e, x)
  PROVE  StreamOK(e, MaybeFinish(x))
<1>1. x \in XType /\ DialOK(e, x.c) /\ "finished" \in Lives /\ "finished" # "alive"
  BY DEF StreamOK, Lives
<1>2. StreamOK(e, EndStream(x, "finished"))
  BY <1>1, EndStreamOK
<1>3. QED
  BY <1>2, Zenon DEF MaybeFinish

\* handleFrame on a dead stream.
LEMMA HandleFrameDeadOK ==
  ASSUME NEW e \in Ends, NEW x, StreamOK(e, x), x.c.life # "alive", NEW f \in Frame
  PROVE  StreamOK(e, HandleFrameDead(e, x, f))
<1> DEFINE y == [x EXCEPT !.out = @ \cup {RstFrame}]
           a == AckFrame(e, x.r, FALSE, FALSE)
           q == FillAck(e, x.r)
           z == [x EXCEPT !.out = @ \cup {a}, !.r = q]
<1>1. x \in XType /\ x.r \in RcvType /\ InWindow(e, x.r) /\ DialOK(e, x.c)
  BY Zenon DEF StreamOK, XType
<1>2. RstFrame \in Frame /\ a \in Frame
  BY <1>1, FramesTyped
<1>3. q \in RcvType /\ q.rcvNxt = x.r.rcvNxt /\ q.ooo = x.r.ooo
  BY <1>1, FillAckKeeps
<1>4. HandleFrameDead(e, x, f) \in {x, y, z}
  BY Zenon DEF HandleFrameDead
<1> HIDE DEF a, q
<1>5. y \in XType /\ y.r = x.r /\ y.c = x.c
  BY <1>1, <1>2, Zenon DEF XType
<1>6. z \in XType /\ z.r = q /\ z.c = x.c
  BY <1>1, <1>2, <1>3, Zenon DEF XType
<1> HIDE DEF y, z
<1>7. StreamOK(e, y)
  BY <1>1, <1>5, Zenon DEF StreamOK
<1>8. InWindow(e, q)
  BY <1>1, <1>3 DEF InWindow
<1>9. StreamOK(e, z)
  BY <1>1, <1>6, <1>8, Zenon DEF StreamOK
<1>10. QED
  BY <1>4, <1>7, <1>9, Zenon

\* The ACK of a frame, with the fast retransmission it may cause.
LEMMA TakeAckOK ==
  ASSUME NEW e \in Ends, NEW x, StreamOK(e, x), x.c.life = "alive",
         NEW f \in Frame, NEW aged \in BOOLEAN
  PROVE  /\ StreamOK(e, TakeAck(e, x, f, aged))
         /\ TakeAck(e, x, f, aged).c = x.c
<1> DEFINE u == ProcessAck(x.s, f)
           q == FillAck(e, x.r)
           g == First(u.unacked)
           y == [x EXCEPT !.s = u]
           z == [x EXCEPT !.s = u, !.r = q, !.out = @ \cup {SegFrame(e, x.r, g)}]
<1>1. /\ x \in XType /\ x.c \in CtlType /\ x.s \in SndType /\ x.r \in RcvType
      /\ x.out \in SUBSET Frame
      /\ InWindow(e, x.r) /\ SndAwake(x.c, x.s) /\ RcvAwake(x.c, x.r) /\ DialOK(e, x.c)
  BY Zenon DEF StreamOK, XType
<1>2. u \in SndType /\ SndAwake(x.c, u)
  BY <1>1, ProcessAckAwake
<1>3. /\ q \in RcvType /\ q.rcvNxt = x.r.rcvNxt /\ q.ooo = x.r.ooo
      /\ q.rcvQueue = x.r.rcvQueue /\ q.rcvFin = x.r.rcvFin
      /\ q.writeCh = x.r.writeCh /\ q.ackPending = 0
  BY <1>1, FillAckKeeps
<1>4. \/ TakeAck(e, x, f, aged) = y
      \/ TakeAck(e, x, f, aged) = z /\ u.unacked # {}
  BY Zenon DEF TakeAck, FastRetransmits
<1> HIDE DEF u, q
<1>5. u.unacked # {} => SegFrame(e, x.r, g) \in Frame
  <2>1. u.unacked \in SUBSET Segment
    BY <1>2, Zenon DEF SndType
  <2>2. QED
    BY <1>1, <2>1, FirstProperty, FramesTyped
<1>6. y \in XType /\ y.c = x.c /\ y.r = x.r /\ y.s = u
  BY <1>1, <1>2, Zenon DEF XType
<1>7. u.unacked # {} => z \in XType /\ z.c = x.c /\ z.r = q /\ z.s = u
  BY <1>1, <1>2, <1>3, <1>5, Zenon DEF XType
<1>8. RcvAwake(x.c, q) /\ InWindow(e, q)
  <2>1. AckTimed(q)
    BY <1>3 DEF AckTimed
  <2>2. QED
    BY <1>1, <1>3, <2>1, Zenon DEF RcvAwake, WorkSignalled, InWindow
<1> HIDE DEF y, z
<1>9. StreamOK(e, y) /\ (u.unacked # {} => StreamOK(e, z))
  BY <1>1, <1>2, <1>6, <1>7, <1>8, Zenon DEF StreamOK
<1>10. QED
  BY <1>4, <1>6, <1>7, <1>9, Zenon

\* The segment of a frame, and the dial that the first OPEN causes.
LEMMA TakeSegmentOK ==
  ASSUME NEW e \in Ends, NEW x, StreamOK(e, x), x.c.life = "alive", NEW f \in Frame
  PROVE  /\ StreamOK(e, TakeSegment(e, x, f))
         /\ TakeSegment(e, x, f).c.life = "alive"
<1>1. CASE f.typ \notin SegTypes
  BY <1>1, Zenon DEF TakeSegment
<1>2. CASE f.typ \in SegTypes
  <2> DEFINE h == ProcessSegment(e, x.r, f)
             c1 == [x.c EXCEPT !.opened = TRUE, !.conn = "dialing"]
             c2 == IF Dials(e, x, f) THEN c1 ELSE x.c
             y == [x EXCEPT !.r = h.r, !.out = @ \cup h.out, !.c = c2]
  <2>1. /\ x \in XType /\ x.c \in CtlType /\ x.s \in SndType /\ x.r \in RcvType
        /\ InWindow(e, x.r) /\ SndAwake(x.c, x.s) /\ RcvAwake(x.c, x.r)
        /\ DialOK(e, x.c)
    BY Zenon DEF StreamOK, XType
  <2>2. AckTimed(x.r)
    BY <2>1, Zenon DEF RcvAwake
  <2>3. /\ h.r \in RcvType /\ h.out \in SUBSET Frame
        /\ InWindow(e, h.r) /\ AckTimed(h.r)
        /\ WorkSignalled(x.r) => WorkSignalled(h.r)
    BY <1>2, <2>1, <2>2, ProcessSegmentKeeps
  <2>4. /\ c2 \in CtlType /\ c2.life = x.c.life /\ c2.rd = x.c.rd /\ c2.wr = x.c.wr
        /\ DialOK(e, c2) /\ (x.c.conn = "up" => c2.conn = "up")
    BY <2>1, Zenon DEF CtlType, Dials, DialOK
  <2>5. TakeSegment(e, x, f) = y
    BY <1>2, Zenon DEF TakeSegment
  <2> HIDE DEF h, c2
  <2>6. y \in XType /\ y.c = c2 /\ y.s = x.s /\ y.r = h.r
    BY <2>1, <2>3, <2>4, Zenon DEF XType
  <2>7. SndAwake(c2, x.s)
    BY <2>1, <2>4, Zenon DEF SndAwake
  <2>8. RcvAwake(c2, h.r)
    BY <2>1, <2>3, <2>4, Zenon DEF RcvAwake
  <2> HIDE DEF y
  <2>9. StreamOK(e, y) /\ y.c.life = "alive"
    BY <2>3, <2>4, <2>6, <2>7, <2>8, Zenon DEF StreamOK
  <2>10. QED
    BY <2>5, <2>9, Zenon
<1>3. QED
  BY <1>1, <1>2, Zenon

\* The answer to a window probe.
LEMMA TakeProbeOK ==
  ASSUME NEW e \in Ends, NEW x, StreamOK(e, x), NEW f \in Frame
  PROVE  StreamOK(e, TakeProbe(e, x, f))
<1> DEFINE a == AckFrame(e, x.r, FALSE, FALSE)
           q == FillAck(e, x.r)
           y == [x EXCEPT !.r = q, !.out = {a}]
<1>1. x \in XType /\ x.r \in RcvType /\ InWindow(e, x.r) /\ DialOK(e, x.c)
  BY Zenon DEF StreamOK, XType
<1>2. a \in Frame
  BY <1>1, FramesTyped
<1>3. /\ q \in RcvType /\ q.rcvNxt = x.r.rcvNxt /\ q.ooo = x.r.ooo
      /\ q.rcvQueue = x.r.rcvQueue /\ q.rcvFin = x.r.rcvFin
      /\ q.writeCh = x.r.writeCh /\ q.ackPending = 0
  BY <1>1, FillAckKeeps
<1>4. TakeProbe(e, x, f) \in {x, y}
  BY Zenon DEF TakeProbe
<1> HIDE DEF a, q
<1>5. y \in XType /\ y.c = x.c /\ y.s = x.s /\ y.r = q
  BY <1>1, <1>2, <1>3, Zenon DEF XType
<1>6. AckTimed(q) /\ InWindow(e, q)
  BY <1>1, <1>3 DEF AckTimed, InWindow
<1>7. RcvAwake(x.c, x.r) => RcvAwake(x.c, q)
  BY <1>3, <1>6, Zenon DEF RcvAwake, WorkSignalled
<1> HIDE DEF y
<1>8. StreamOK(e, y)
  BY <1>1, <1>5, <1>6, <1>7, Zenon DEF StreamOK
<1>9. QED
  BY <1>4, <1>8, Zenon

\* handleFrame keeps a stream sound, whatever frame arrives.
LEMMA HandleFrameOK ==
  ASSUME NEW e \in Ends, NEW x, StreamOK(e, x), NEW f \in Frame, NEW aged \in BOOLEAN
  PROVE  StreamOK(e, HandleFrame(e, x, f, aged))
<1>1. CASE x.c.life # "alive"
  BY <1>1, HandleFrameDeadOK, Zenon DEF HandleFrame
<1>2. CASE x.c.life = "alive"
  <2> DEFINE y == Heard(x)
  <2>1. /\ x \in XType /\ x.c \in CtlType
        /\ InWindow(e, x.r) /\ SndAwake(x.c, x.s) /\ RcvAwake(x.c, x.r)
        /\ DialOK(e, x.c)
    BY <1>2, Zenon DEF StreamOK, XType
  <2>2. /\ y \in XType /\ y.s = x.s /\ y.r = x.r
        /\ y.c.life = "alive" /\ y.c.rd = x.c.rd /\ y.c.wr = x.c.wr
        /\ y.c.conn = x.c.conn /\ y.c.opened = x.c.opened
    BY <1>2, <2>1, Zenon DEF Heard, XType, CtlType
  <2> HIDE DEF y
  <2>3. SndAwake(y.c, y.s) /\ RcvAwake(y.c, y.r) /\ DialOK(e, y.c)
    BY <2>1, <2>2, Zenon DEF SndAwake, RcvAwake, DialOK
  <2>4. StreamOK(e, y)
    BY <2>1, <2>2, <2>3, Zenon DEF StreamOK
  <2>5. StreamOK(e, Abort(y, FALSE))
    BY <2>1, <2>2, <2>3, AbortOK
  <2> DEFINE a == TakeAck(e, y, f, aged)
  <2>6. StreamOK(e, a) /\ a.c.life = "alive"
    BY <2>2, <2>4, TakeAckOK
  <2> HIDE DEF a
  <2>7. StreamOK(e, TakeProbe(e, TakeSegment(e, a, f), f))
    BY <2>6, TakeSegmentOK, TakeProbeOK
  <2>8. StreamOK(e, MaybeFinish(TakeProbe(e, TakeSegment(e, a, f), f)))
    BY <2>7, MaybeFinishOK
  <2>9. QED
    BY <1>2, <2>5, <2>8, Zenon DEF HandleFrame, a, y
<1>3. QED
  BY <1>1, <1>2, Zenon

-----------------------------------------------------------------------------
(* The goroutines and the timer.                                           *)

\* queueSegmentLocked starts the timer that its segment needs.
LEMMA QueueSegmentKeeps ==
  ASSUME NEW s \in SndType, s.timerArmed => TimerDue(s), NEW g \in Segment
  PROVE  LET t == QueueSegment(s, g) IN
         /\ t \in SndType
         /\ t.timerArmed => TimerDue(t)
         /\ t.unacked # {} /\ t.timerArmed
         /\ t.finQueued = (s.finQueued \/ g.typ = "fin")
<1> DEFINE u == [s EXCEPT !.unacked = @ \cup {g}, !.sndNxt = SegEnd(g),
                          !.finQueued = @ \/ g.typ = "fin"]
<1>1. SegEnd(g) \in Nat
  BY DEF SegEnd, Segment
<1>2. (s.finQueued \/ g.typ = "fin") \in BOOLEAN /\ s.unacked \cup {g} \in SUBSET Segment
  BY Zenon DEF SndType
<1>3. /\ u \in SndType /\ u.timerArmed = s.timerArmed /\ u.running = s.running
      /\ u.late = s.late /\ u.unacked = s.unacked \cup {g}
      /\ u.finQueued = (s.finQueued \/ g.typ = "fin")
  BY <1>1, <1>2, Zenon DEF SndType
<1>4. QueueSegment(s, g) = ArmTimerIfOff(u)
  BY Zenon DEF QueueSegment
<1> HIDE DEF u
<1>5. u.unacked # {} /\ (u.timerArmed => TimerDue(u))
  BY <1>3, Zenon DEF TimerDue
<1>6. QED
  BY <1>3, <1>4, <1>5, ArmTimerIfOffKeeps

\* The top of readLoop: a reader that goes to sleep leaves a timer behind.
LEMMA ReadTopOK ==
  ASSUME NEW e \in Ends, NEW x \in XType, InWindow(e, x.r), RcvAwake(x.c, x.r),
         x.s.timerArmed => TimerDue(x.s), x.s.unacked # {} => x.s.timerArmed,
         ~x.s.finQueued, x.c.conn = "up", DialOK(e, x.c)
  PROVE  StreamOK(e, ReadTop(x))
<1> DEFINE space == x.s.sndRight - x.s.sndNxt
           room == space >= Mss \/ (space > 0 /\ x.s.unacked = {})
           c1 == [x.c EXCEPT !.rd = "read", !.rdMax = Smaller(space, Mss)]
           y == [x EXCEPT !.c = c1]
           s2 == ArmTimerIfOff(x.s)
           c2 == [x.c EXCEPT !.rd = "wait"]
           z == [x EXCEPT !.c.rd = "wait", !.s = s2]
<1>1. x.c \in CtlType /\ x.s \in SndType /\ x.r \in RcvType
  BY Zenon DEF XType
<1>2. x.s.sndRight \in Nat /\ x.s.sndNxt \in Nat /\ Mss \in Nat /\ Mss # 0
  BY <1>1, MssAssumption DEF SndType
<1>3. CASE room
  <2>1. Smaller(space, Mss) \in Nat
    BY <1>2, <1>3 DEF Smaller
  <2>2. /\ c1 \in CtlType /\ c1.wr = x.c.wr /\ c1.rd = "read"
        /\ c1.conn = x.c.conn /\ c1.opened = x.c.opened
    BY <1>1, <2>1, Zenon DEF CtlType
  <2>3. ReadTop(x) = y
    BY <1>3, Zenon DEF ReadTop
  <2> HIDE DEF c1
  <2>4. y \in XType /\ y.c = c1 /\ y.s = x.s /\ y.r = x.r
    BY <1>1, <2>2, Zenon DEF XType
  <2>5. RcvAwake(c1, x.r) /\ SndAwake(c1, x.s) /\ DialOK(e, c1)
    BY <2>2, Zenon DEF RcvAwake, SndAwake, DialOK
  <2>6. QED
    BY <2>3, <2>4, <2>5, Zenon DEF StreamOK
<1>4. CASE ~room
  <2>1. /\ s2 \in SndType /\ (s2.timerArmed => TimerDue(s2))
        /\ s2.unacked = x.s.unacked /\ s2.sndRight = x.s.sndRight
        /\ s2.sndNxt = x.s.sndNxt /\ s2.finQueued = x.s.finQueued
        /\ s2.timerArmed \/ (x.s.unacked = {} /\ (x.s.sndRight > x.s.sndNxt \/ x.s.finQueued))
    BY <1>1, ArmTimerIfOffKeeps
  <2>2. x.s.unacked = {} => ~(x.s.sndRight > x.s.sndNxt)
    BY <1>2, <1>4
  <2>3. /\ c2 \in CtlType /\ c2.wr = x.c.wr /\ c2.rd = "wait"
        /\ c2.conn = x.c.conn /\ c2.opened = x.c.opened
    BY <1>1, Zenon DEF CtlType
  <2>4. ReadTop(x) = z
    BY <1>4, Zenon DEF ReadTop
  <2> HIDE DEF s2
  <2>5. z \in XType /\ z.c = c2 /\ z.s = s2 /\ z.r = x.r
    BY <1>1, <2>1, <2>3, Zenon DEF XType
  <2> HIDE DEF c2, z
  <2>6. RcvAwake(c2, x.r) /\ DialOK(e, c2)
    BY <2>3, Zenon DEF RcvAwake, DialOK
  <2>7. SndAwake(c2, s2)
    BY <2>1, <2>2, <2>3, Zenon DEF SndAwake
  <2>8. QED
    BY <2>4, <2>5, <2>6, <2>7, Zenon DEF StreamOK
<1>5. QED
  BY <1>3, <1>4

\* startLocked: writeLoop finds what is queued already.
LEMMA StartLoopsOK ==
  ASSUME NEW e \in Ends, NEW x \in XType, InWindow(e, x.r), AckTimed(x.r),
         x.s.timerArmed => TimerDue(x.s), x.s.unacked # {} => x.s.timerArmed,
         ~x.s.finQueued, e = "server" => x.c.opened
  PROVE  StreamOK(e, StartLoops(x))
<1> DEFINE c1 == [x.c EXCEPT !.conn = "up", !.wr = "wait"]
           r1 == [x.r EXCEPT !.writeCh = TRUE]
           y == [x EXCEPT !.c = c1, !.r.writeCh = TRUE]
<1>1. x.c \in CtlType /\ x.s \in SndType /\ x.r \in RcvType
  BY Zenon DEF XType
<1>2. c1 \in CtlType /\ c1.conn = "up" /\ c1.opened = x.c.opened
  BY <1>1, Zenon DEF CtlType
<1>3. /\ r1 \in RcvType /\ r1.ooo = x.r.ooo /\ r1.rcvNxt = x.r.rcvNxt
      /\ r1.ackPending = x.r.ackPending /\ r1.ackTimerSet = x.r.ackTimerSet
      /\ r1.writeCh = TRUE
  BY <1>1, Zenon DEF RcvType
<1> HIDE DEF c1
<1>4. y \in XType /\ y.c = c1 /\ y.s = x.s /\ y.r = r1
  BY <1>1, <1>2, <1>3, Zenon DEF XType
<1>5. StartLoops(x) = ReadTop(y)
  BY Zenon DEF StartLoops, c1
<1> HIDE DEF r1, y
<1>6. InWindow(e, r1)
  BY <1>3, Zenon DEF InWindow
<1>7. RcvAwake(c1, r1)
  BY <1>3, Zenon DEF RcvAwake, AckTimed, WorkSignalled
<1>8. DialOK(e, c1)
  BY <1>2, Zenon DEF DialOK
<1>9. QED
  BY <1>2, <1>4, <1>5, <1>6, <1>7, <1>8, ReadTopOK

\* The top of writeLoop: it waits only when there is nothing to write.
LEMMA WriteTopOK ==
  ASSUME NEW e \in Ends, NEW x \in XType, InWindow(e, x.r), DialOK(e, x.c),
         x.c.life = "alive" => SndAwake(x.c, x.s) /\ AckTimed(x.r)
  PROVE  StreamOK(e, WriteTop(x))
<1> DEFINE w == IF x.c.life # "alive" THEN "off"
                ELSE IF x.r.rcvQueue # <<>> THEN "write"
                ELSE IF x.r.rcvFin THEN "close" ELSE "wait"
           c1 == [x.c EXCEPT !.wr = w]
           r1 == [x.r EXCEPT !.rcvQueue = <<>>]
           y == [x EXCEPT !.r.rcvQueue = <<>>, !.c.wr = w]
<1>1. x.c \in CtlType /\ x.s \in SndType /\ x.r \in RcvType /\ <<>> \in Seq(Bytes)
  BY DEF XType
<1>2. w \in {"off", "wait", "write", "close"} /\ (w = "wait" => ~x.r.rcvFin)
  BY Zenon
<1>3. WriteTop(x) = y
  BY Zenon DEF WriteTop
<1> HIDE DEF w
<1>4. /\ c1 \in CtlType /\ c1.wr = w /\ c1.rd = x.c.rd /\ c1.life = x.c.life
      /\ c1.conn = x.c.conn /\ c1.opened = x.c.opened
  BY <1>1, <1>2, Zenon DEF CtlType
<1>5. /\ r1 \in RcvType /\ r1.ooo = x.r.ooo /\ r1.rcvNxt = x.r.rcvNxt
      /\ r1.ackPending = x.r.ackPending /\ r1.ackTimerSet = x.r.ackTimerSet
      /\ r1.rcvQueue = <<>> /\ r1.rcvFin = x.r.rcvFin
  BY <1>1, Zenon DEF RcvType
<1>6. y \in XType /\ y.c = c1 /\ y.s = x.s /\ y.r = r1
  BY <1>1, <1>4, <1>5, Zenon DEF XType
<1> HIDE DEF c1, r1, y
<1>7. InWindow(e, r1)
  BY <1>5, Zenon DEF InWindow
<1>8. (x.c.life = "alive" => RcvAwake(c1, r1)) /\ DialOK(e, c1)
  BY <1>2, <1>4, <1>5, Zenon DEF RcvAwake, AckTimed, WorkSignalled, DialOK
<1>9. x.c.life = "alive" => SndAwake(c1, x.s)
  BY <1>4, Zenon DEF SndAwake
<1>10. QED
  BY <1>3, <1>4, <1>6, <1>7, <1>8, <1>9, Zenon DEF StreamOK

\* onTimer leaves the timer running while anything still waits for it.
LEMMA TimerFiredOK ==
  ASSUME NEW e \in Ends, NEW x \in XType, InWindow(e, x.r), RcvAwake(x.c, x.r),
         x.c.rd = "wait" /\ x.s.unacked = {} /\ x.s.sndRight > x.s.sndNxt => x.s.sendCh,
         x.c.rd # "off" => ~x.s.finQueued,
         x.c.rd # "off" \/ x.s.finQueued => x.c.conn = "up", DialOK(e, x.c)
  PROVE  StreamOK(e, TimerFired(e, x))
<1> DEFINE u == [x.s EXCEPT !.backoff = Smaller(@ + 1, MaxBackoff)]
           v == ArmTimer(u)
           q == FillAck(e, x.r)
           resent == {SegFrame(e, x.r, g) : g \in x.s.unacked}
           o == IF x.s.unacked # {} THEN resent ELSE {AckFrame(e, x.r, TRUE, FALSE)}
           y == [x EXCEPT !.s = v, !.r = q, !.out = o]
<1>1. x.c \in CtlType /\ x.s \in SndType /\ x.r \in RcvType
  BY Zenon DEF XType
<1>2. StreamOK(e, Abort(x, TRUE))
  BY AbortOK
<1>3. TimerFired(e, x) \in {Abort(x, TRUE), y}
  BY Zenon DEF TimerFired
<1>4. Smaller(x.s.backoff + 1, MaxBackoff) \in 0 .. MaxBackoff
  BY <1>1, SizesAssumption DEF Smaller, SndType
<1>5. /\ u \in SndType /\ u.unacked = x.s.unacked /\ u.sndRight = x.s.sndRight
      /\ u.sndNxt = x.s.sndNxt /\ u.finQueued = x.s.finQueued /\ u.sendCh = x.s.sendCh
  BY <1>1, <1>4, Zenon DEF SndType
<1> HIDE DEF u
<1>6. /\ v \in SndType /\ v.unacked = u.unacked /\ v.sndRight = u.sndRight
      /\ v.sndNxt = u.sndNxt /\ v.finQueued = u.finQueued /\ v.sendCh = u.sendCh
      /\ v.timerArmed => TimerDue(v)
      /\ v.timerArmed \/ (u.unacked = {} /\ (u.sndRight > u.sndNxt \/ u.finQueued))
  BY <1>5, ArmTimerKeeps
<1> HIDE DEF v
<1>7. /\ q \in RcvType /\ q.rcvNxt = x.r.rcvNxt /\ q.ooo = x.r.ooo
      /\ q.rcvQueue = x.r.rcvQueue /\ q.rcvFin = x.r.rcvFin
      /\ q.writeCh = x.r.writeCh /\ q.ackPending = 0
  BY <1>1, FillAckKeeps
<1> HIDE DEF q
<1>8. o \in SUBSET Frame
  <2>1. x.s.unacked \in SUBSET Segment
    BY <1>1, Zenon DEF SndType
  <2>2. resent \in SUBSET Frame /\ AckFrame(e, x.r, TRUE, FALSE) \in Frame
    BY <1>1, <2>1, FramesTyped
  <2>3. QED
    BY <2>2, Zenon
<1> HIDE DEF o
<1>9. y \in XType /\ y.c = x.c /\ y.s = v /\ y.r = q
  BY <1>1, <1>6, <1>7, <1>8, Zenon DEF XType
<1> HIDE DEF y
<1>10. AckTimed(q) /\ InWindow(e, q)
  BY <1>7 DEF AckTimed, InWindow
<1>11. RcvAwake(x.c, q)
  BY <1>7, <1>10, Zenon DEF RcvAwake, WorkSignalled
<1>12. SndAwake(x.c, v)
  BY <1>5, <1>6, Zenon DEF SndAwake
<1>13. StreamOK(e, y)
  BY <1>9, <1>10, <1>11, <1>12, Zenon DEF StreamOK
<1>14. QED
  BY <1>2, <1>3, <1>13, Zenon

-----------------------------------------------------------------------------
(* The inductive invariant: both streams are sound, and the rest is typed. *)

StreamsOK ==
  /\ ctl \in [Ends -> CtlType] /\ snd \in [Ends -> SndType] /\ rcv \in [Ends -> RcvType]
  /\ \A e \in Ends : StreamOK(e, Stream(e))

NetOK == net \in [Ends -> SUBSET Frame]

RestOK ==
  /\ pend \in SUBSET Frame /\ stopped \in BOOLEAN /\ taken \in [Ends -> Nat]
  /\ batch \in [Ends -> Seq(Bytes)] /\ written \in [Ends -> Seq(Bytes)]

IInv == StreamsOK /\ NetOK /\ RestOK

\* A critical section that stores a sound stream at one end.
LEMMA StoreOK ==
  ASSUME StreamsOK, NEW e \in Ends, NEW x, StreamOK(e, x), Store(e, x)
  PROVE  StreamsOK'
<1>1. x.c \in CtlType /\ x.s \in SndType /\ x.r \in RcvType
  BY Zenon DEF StreamOK, XType
<1>2. /\ ctl' \in [Ends -> CtlType] /\ snd' \in [Ends -> SndType]
      /\ rcv' \in [Ends -> RcvType]
  BY <1>1, Zenon DEF StreamsOK, Store
<1>3. ASSUME NEW d \in Ends PROVE StreamOK(d, Stream(d)')
  <2> DEFINE y == Stream(d)'
  <2>1. CASE d = e
    <3>1. /\ y.c = x.c /\ y.s = x.s /\ y.r = x.r
          /\ y = [c |-> x.c, s |-> x.s, r |-> x.r, out |-> {}]
      BY <2>1 DEF Stream, Store, StreamsOK
    <3> HIDE DEF y
    <3>2. y \in XType
      BY <1>1, <3>1 DEF XType
    <3>3. QED
      BY <2>1, <3>1, <3>2, Zenon DEF StreamOK, y
  <2>2. CASE d # e
    <3>1. Stream(d)' = Stream(d)
      BY <2>2 DEF Stream, Store, StreamsOK
    <3>2. QED
      BY <3>1, Zenon DEF StreamsOK
  <2>3. QED
    BY <2>1, <2>2
<1>4. QED
  BY <1>2, <1>3, Zenon DEF StreamsOK, StreamOK

\* Frames a stream sends are carried as frames.
LEMMA CarriedTyped ==
  ASSUME NetOK, NEW e \in Ends, NEW out \in SUBSET Frame
  PROVE  Carried(e, out) \in SUBSET Frame /\ Peer(e) \in Ends
<1>1. Peer(e) \in Ends
  BY DEF Peer, Ends
<1>2. net[e] \in SUBSET Frame
  BY DEF NetOK
<1>3. QED
  BY <1>1, <1>2, Zenon DEF Carried

\* A critical section and the frames it sends.
LEMMA FlushOK ==
  ASSUME StreamsOK, NetOK, NEW e \in Ends, NEW x, StreamOK(e, x), Flush(e, x)
  PROVE  StreamsOK' /\ NetOK'
<1>1. Store(e, x) /\ net' = [net EXCEPT ![Peer(e)] = Carried(Peer(e), x.out)]
  BY Zenon DEF Flush, Send
<1>2. StreamsOK'
  BY <1>1, StoreOK
<1>3. x.out \in SUBSET Frame /\ Peer(e) \in Ends
  BY Zenon DEF StreamOK, XType, Peer, Ends
<1>4. Carried(Peer(e), x.out) \in SUBSET Frame
  BY <1>3, CarriedTyped
<1>5. NetOK'
  BY <1>1, <1>3, <1>4, Zenon DEF NetOK
<1>6. QED
  BY <1>2, <1>5

\* The parts of a sound stream.
LEMMA StreamParts ==
  ASSUME StreamsOK, NEW e \in Ends
  PROVE  /\ StreamOK(e, Stream(e)) /\ Stream(e) \in XType
         /\ Stream(e).c = ctl[e] /\ Stream(e).s = snd[e] /\ Stream(e).r = rcv[e]
         /\ Stream(e).out = {}
         /\ ctl[e] \in CtlType /\ snd[e] \in SndType /\ rcv[e] \in RcvType
         /\ InWindow(e, rcv[e]) /\ DialOK(e, ctl[e])
         /\ Alive(e) => SndAwake(ctl[e], snd[e]) /\ RcvAwake(ctl[e], rcv[e])
<1>1. /\ Stream(e).c = ctl[e] /\ Stream(e).s = snd[e] /\ Stream(e).r = rcv[e]
      /\ Stream(e).out = {}
  BY DEF Stream
<1>2. StreamOK(e, Stream(e))
  BY DEF StreamsOK
<1>3. QED
  BY <1>1, <1>2, Zenon DEF StreamOK, StreamsOK, Alive

\* A new stream is sound.
LEMMA NewStreamOK ==
  ASSUME NEW e \in Ends, NEW src \in Nat
  PROVE  /\ NewCtl(src, "none") \in CtlType /\ NewSnd \in SndType /\ NewRcv \in RcvType
         /\ StreamOK(e, [c |-> NewCtl(src, "none"), s |-> NewSnd, r |-> NewRcv, out |-> {}])
<1>1. /\ InitWindow \in Nat /\ 0 \in Nat /\ 0 \in Int /\ 0 \in {0, 1} /\ <<>> \in Seq(Bytes)
      /\ 0 \in 0 .. MaxBackoff /\ 0 \in 0 .. DupThresh + 1
  BY SizesAssumption
<1>2. NewSnd \in SndType
  BY <1>1, Zenon DEF NewSnd, SndType
<1>3. NewRcv \in RcvType /\ NewRcv.ooo = {}
  BY <1>1, Zenon DEF NewRcv, RcvType
<1>4. NewCtl(src, "none") \in CtlType
  BY <1>1, Zenon DEF NewCtl, CtlType, Lives
<1> DEFINE y == [c |-> NewCtl(src, "none"), s |-> NewSnd, r |-> NewRcv, out |-> {}]
<1>5. y \in XType /\ y.c = NewCtl(src, "none") /\ y.s = NewSnd /\ y.r = NewRcv
  BY <1>2, <1>3, <1>4 DEF XType
<1>6. SndAwake(NewCtl(src, "none"), NewSnd) /\ DialOK(e, NewCtl(src, "none"))
  BY DEF SndAwake, NewCtl, NewSnd, DialOK
<1>7. RcvAwake(NewCtl(src, "none"), NewRcv)
  BY DEF RcvAwake, AckTimed, NewCtl, NewRcv
<1>8. InWindow(e, NewRcv)
  BY <1>3 DEF InWindow
<1> HIDE DEF y
<1>9. StreamOK(e, y)
  BY <1>5, <1>6, <1>7, <1>8, Zenon DEF StreamOK
<1>10. QED
  BY <1>2, <1>3, <1>4, <1>9 DEF y

\* The initial state.
LEMMA InitOK == Init => IInv
<1> SUFFICES ASSUME Init PROVE IInv
  OBVIOUS
<1> DEFINE c0 == [NewCtl(0, "none") EXCEPT !.life = "none"]
<1>1. NewSnd \in SndType /\ NewRcv \in RcvType /\ NewCtl(0, "none") \in CtlType
  BY NewStreamOK DEF Ends
<1>2. c0 \in CtlType /\ c0.life = "none" /\ c0.conn = "none"
  BY <1>1, Zenon DEF CtlType, Lives, NewCtl
<1>3. NewRcv.ooo = {}
  BY DEF NewRcv
<1>4. /\ ctl = [e \in Ends |-> c0] /\ snd = [e \in Ends |-> NewSnd]
      /\ rcv = [e \in Ends |-> NewRcv]
  BY Zenon DEF Init
<1> HIDE DEF c0
<1>5. ASSUME NEW e \in Ends PROVE StreamOK(e, Stream(e))
  <2> DEFINE y == Stream(e)
  <2>1. y.c = c0 /\ y.s = NewSnd /\ y.r = NewRcv /\ y.out = {}
        /\ y = [c |-> c0, s |-> NewSnd, r |-> NewRcv, out |-> {}]
    BY <1>4 DEF Stream
  <2> HIDE DEF y
  <2>2. y \in XType
    BY <1>1, <1>2, <2>1 DEF XType
  <2>3. InWindow(e, NewRcv) /\ DialOK(e, c0)
    BY <1>2, <1>3 DEF InWindow, DialOK
  <2>4. StreamOK(e, y)
    BY <1>2, <2>1, <2>2, <2>3, Zenon DEF StreamOK
  <2>5. QED
    BY <2>4 DEF y
<1>6. StreamsOK
  BY <1>1, <1>2, <1>4, <1>5, Zenon DEF StreamsOK
<1>7. NetOK /\ RestOK
  <2>1. <<>> \in Seq(Bytes) /\ 0 \in Nat
    OBVIOUS
  <2>2. QED
    BY <2>1, Zenon DEF Init, NetOK, RestOK
<1>8. QED
  BY <1>6, <1>7 DEF IInv

-----------------------------------------------------------------------------
(* The actions of the network.                                             *)

\* handlePacket, up to the creation of a stream.
LEMMA DeliverOK ==
  ASSUME IInv, NEW e \in Ends, NEW f \in net[e], Deliver(e, f)
  PROVE  IInv'
<1>1. f \in Frame
  BY DEF IInv, NetOK
<1>2. ASSUME NEW aged \in BOOLEAN, DeliverKnown(e, f, aged) PROVE IInv'
  <2> DEFINE x == HandleFrame(e, Stream(e), f, aged)
  <2>1. Flush(e, x)
    BY <1>2, Zenon DEF DeliverKnown
  <2>2. StreamOK(e, x)
    BY <1>1, StreamParts, HandleFrameOK DEF IInv
  <2> HIDE DEF x
  <2>3. StreamsOK' /\ NetOK'
    BY <2>1, <2>2, FlushOK DEF IInv
  <2>4. RestOK'
    BY <1>2, Zenon DEF DeliverKnown, IInv, RestOK
  <2>5. QED
    BY <2>3, <2>4 DEF IInv
<1>3. ASSUME DeliverUnknown(e, f) PROVE IInv'
  <2>1. {RstFrame} \in SUBSET Frame /\ Peer(e) \in Ends
    BY DEF RstFrame, Frame, ControlFrames, Peer, Ends
  <2>2. Carried(Peer(e), {RstFrame}) \in SUBSET Frame
    BY <2>1, CarriedTyped DEF IInv
  <2>3. NetOK'
    BY <1>3, <2>1, <2>2, Zenon DEF DeliverUnknown, Send, IInv, NetOK
  <2>4. StreamsOK' /\ RestOK'
    BY <1>3 DEF DeliverUnknown, IInv, RestOK, StreamsOK, Stream
  <2>5. QED
    BY <2>3, <2>4 DEF IInv
<1>4. ASSUME DeliverNew(f) PROVE IInv'
  BY <1>1, <1>4 DEF DeliverNew, IInv, NetOK, RestOK, StreamsOK, Stream
<1>5. QED
  BY <1>2, <1>3, <1>4, Zenon DEF Deliver

\* A frame leaves the line.
LEMMA LeaveOK ==
  ASSUME IInv, NEW e \in Ends, NEW f \in net[e], Leave(e, f)
  PROVE  IInv'
<1>1. NetOK'
  BY Zenon DEF Leave, NetOK, IInv
<1>2. StreamsOK' /\ RestOK'
  BY DEF Leave, IInv, RestOK, StreamsOK, Stream
<1>3. QED
  BY <1>1, <1>2 DEF IInv

\* handlePacket, past LoadOrStore.
LEMMA CreateStreamOK ==
  ASSUME IInv, NEW f \in pend, NEW aged \in BOOLEAN, CreateStream(f, aged)
  PROVE  IInv'
<1>1. f \in Frame /\ "server" \in Ends /\ pend' \in SUBSET Frame /\ stopped' \in BOOLEAN
  BY DEF IInv, RestOK, Ends, CreateStream
<1>2. CASE Flush("server", HandleFrame("server", Stream("server"), f, aged)) /\ UNCHANGED conns
  <2> DEFINE x == HandleFrame("server", Stream("server"), f, aged)
  <2>1. StreamOK("server", x)
    BY <1>1, StreamParts, HandleFrameOK DEF IInv
  <2>2. Flush("server", x)
    BY <1>2
  <2> HIDE DEF x
  <2>3. StreamsOK' /\ NetOK'
    BY <1>1, <2>1, <2>2, FlushOK DEF IInv
  <2>4. QED
    BY <1>1, <1>2, <2>3 DEF IInv, RestOK, conns
<1>3. CASE /\ Flush("server",
                 HandleFrame("server",
                             [c |-> NewCtl(ctl["server"].src + 1, "none"),
                              s |-> NewSnd, r |-> NewRcv, out |-> {}],
                             f, aged))
           /\ taken' = [taken EXCEPT !["server"] = 0]
           /\ batch' = [batch EXCEPT !["server"] = <<>>]
           /\ written' = [written EXCEPT !["server"] = <<>>]
  <2> DEFINE x0 == [c |-> NewCtl(ctl["server"].src + 1, "none"),
                    s |-> NewSnd, r |-> NewRcv, out |-> {}]
             x == HandleFrame("server", x0, f, aged)
  <2>1. ctl["server"].src \in Nat
    BY <1>1 DEF IInv, StreamsOK, CtlType
  <2>2. ctl["server"].src + 1 \in Nat
    BY <2>1
  <2>3. StreamOK("server", x0)
    BY <1>1, <2>2, NewStreamOK
  <2> HIDE DEF x0
  <2>4. StreamOK("server", x)
    BY <1>1, <2>3, HandleFrameOK
  <2>5. Flush("server", x)
    BY <1>3 DEF x0
  <2> HIDE DEF x
  <2>6. StreamsOK' /\ NetOK'
    BY <1>1, <2>4, <2>5, FlushOK DEF IInv
  <2>7. <<>> \in Seq(Bytes) /\ 0 \in Nat
    OBVIOUS
  <2>8. QED
    BY <1>1, <1>3, <2>6, <2>7, Zenon DEF IInv, RestOK
<1>4. QED
  BY <1>2, <1>3, Zenon DEF CreateStream

-----------------------------------------------------------------------------
(* The actions of the endpoints.                                           *)

\* The variables most actions leave alone.
LEMMA RestUnchanged ==
  ASSUME RestOK, UNCHANGED <<pend, stopped, taken, batch, written>>
  PROVE  RestOK'
  BY DEF RestOK

\* open on tcp_listen.
LEMMA OpenOK ==
  ASSUME IInv, Open
  PROVE  IInv'
<1> DEFINE g == NewSegment(NewSnd, "open", 1, 0, 1)
           u == QueueSegment(NewSnd, g)
           q == FillAck("client", NewRcv)
           x == [c |-> NewCtl(1, "none"), s |-> u, r |-> q,
                 out |-> {SegFrame("client", NewRcv, g)}]
<1>1. "client" \in Ends /\ 1 \in Nat
  BY DEF Ends
<1>2. NewCtl(1, "none") \in CtlType /\ NewSnd \in SndType /\ NewRcv \in RcvType
  BY <1>1, NewStreamOK
<1>3. g \in Segment
  BY DEF NewSegment, NewSnd, Segment, SegTypes
<1>4. g.typ = "open" /\ NewSnd.finQueued = FALSE /\ NewSnd.timerArmed = FALSE
  BY DEF NewSegment, NewSnd
<1>5. NewRcv.ooo = {}
  BY DEF NewRcv
<1>6. SegFrame("client", NewRcv, g) \in Frame
  BY <1>1, <1>2, <1>3, FramesTyped
<1>7. Flush("client", StartLoops(x))
  BY Zenon DEF Open
<1> HIDE DEF g
<1>8. /\ u \in SndType /\ (u.timerArmed => TimerDue(u))
      /\ u.timerArmed /\ ~u.finQueued
  BY <1>2, <1>3, <1>4, QueueSegmentKeeps
<1>9. q \in RcvType /\ q.ooo = {} /\ q.ackPending = 0
  BY <1>1, <1>2, <1>5, FillAckKeeps
<1> HIDE DEF u, q
<1>10. x \in XType /\ x.s = u /\ x.r = q
  BY <1>2, <1>6, <1>8, <1>9 DEF XType
<1>11. InWindow("client", q) /\ AckTimed(q)
  BY <1>9 DEF InWindow, AckTimed
<1> HIDE DEF x
<1>12. "client" # "server"
  OBVIOUS
<1>13. StreamOK("client", StartLoops(x))
  BY <1>1, <1>8, <1>10, <1>11, <1>12, StartLoopsOK, Zenon
<1>14. StreamsOK' /\ NetOK'
  BY <1>1, <1>7, <1>13, FlushOK DEF IInv
<1>15. RestOK'
  BY RestUnchanged DEF Open, IInv
<1>16. QED
  BY <1>14, <1>15 DEF IInv

\* dial on tcp_forward fails.
LEMMA DialFailOK ==
  ASSUME IInv, DialFail
  PROVE  IInv'
<1> DEFINE y == [Stream("server") EXCEPT !.c.conn = "none"]
<1>1. "server" \in Ends
  BY DEF Ends
<1>2. /\ Stream("server") \in XType /\ InWindow("server", rcv["server"])
      /\ Stream("server").r = rcv["server"]
  BY <1>1, StreamParts DEF IInv
<1>3. y \in XType /\ y.r = rcv["server"] /\ y.c.conn = "none"
  BY <1>2, Zenon DEF XType, CtlType
<1>4. Flush("server", Abort(y, TRUE))
  BY Zenon DEF DialFail
<1> HIDE DEF y
<1>5. DialOK("server", y.c)
  BY <1>3, Zenon DEF DialOK
<1>6. StreamOK("server", Abort(y, TRUE))
  BY <1>1, <1>2, <1>3, <1>5, AbortOK
<1>7. StreamsOK' /\ NetOK'
  BY <1>1, <1>4, <1>6, FlushOK DEF IInv
<1>8. RestOK'
  BY RestUnchanged DEF DialFail, IInv
<1>9. QED
  BY <1>7, <1>8 DEF IInv

\* dial on tcp_forward connects, maybe to a stream that is dead by now.
LEMMA DialDoneOK ==
  ASSUME IInv, DialDone
  PROVE  IInv'
<1> DEFINE x == Stream("server")
           y == [x EXCEPT !.c.conn = "none"]
<1>1. "server" \in Ends /\ ctl["server"].conn = "dialing"
  BY DEF Ends, DialDone
<1>2. /\ x \in XType /\ InWindow("server", rcv["server"])
      /\ x.c = ctl["server"] /\ x.s = snd["server"] /\ x.r = rcv["server"]
      /\ DialOK("server", x.c)
      /\ Alive("server") => /\ SndAwake(ctl["server"], snd["server"])
                            /\ RcvAwake(ctl["server"], rcv["server"])
  BY <1>1, StreamParts DEF IInv
<1>3. Store("server", IF Alive("server") THEN StartLoops(x) ELSE y)
  BY Zenon DEF DialDone
<1>4. NetOK' /\ RestOK'
  BY RestUnchanged DEF DialDone, IInv, NetOK
<1>5. CASE Alive("server")
  <2>1. /\ AckTimed(x.r) /\ (x.s.timerArmed => TimerDue(x.s))
        /\ (x.s.unacked # {} => x.s.timerArmed) /\ ~x.s.finQueued /\ x.c.opened
    BY <1>1, <1>2, <1>5, Zenon DEF SndAwake, RcvAwake, DialOK
  <2>2. StreamOK("server", StartLoops(x))
    BY <1>1, <1>2, <2>1, StartLoopsOK
  <2>3. StreamsOK'
    BY <1>1, <1>3, <1>5, <2>2, StoreOK DEF IInv
  <2>4. QED
    BY <1>4, <2>3 DEF IInv
<1>6. CASE ~Alive("server")
  <2>1. /\ y \in XType /\ y.r = rcv["server"] /\ y.c.conn = "none"
        /\ y.c.life = x.c.life
    BY <1>2, Zenon DEF XType, CtlType
  <2> HIDE DEF y, x
  <2>2. x.c.life # "alive"
    BY <1>2, <1>6, Zenon DEF Alive
  <2>3. StreamOK("server", y)
    BY <1>2, <2>1, <2>2, Zenon DEF StreamOK, DialOK
  <2>4. StreamsOK'
    BY <1>1, <1>3, <1>6, <2>3, StoreOK DEF IInv
  <2>5. QED
    BY <1>4, <2>4 DEF IInv
<1>7. QED
  BY <1>5, <1>6

\* sendCh wakes readLoop.
LEMMA ReadWakeOK ==
  ASSUME IInv, NEW e \in Ends, ReadWake(e)
  PROVE  IInv'
<1> DEFINE y == [Stream(e) EXCEPT !.s.sendCh = FALSE]
<1>1. Alive(e) /\ ctl[e].rd = "wait" /\ Store(e, ReadTop(y))
  BY Zenon DEF ReadWake
<1>2. /\ Stream(e) \in XType /\ InWindow(e, rcv[e]) /\ DialOK(e, ctl[e])
      /\ Stream(e).c = ctl[e] /\ Stream(e).s = snd[e] /\ Stream(e).r = rcv[e]
      /\ SndAwake(ctl[e], snd[e]) /\ RcvAwake(ctl[e], rcv[e])
  BY <1>1, StreamParts DEF IInv
<1>3. /\ y \in XType /\ y.c = ctl[e] /\ y.r = rcv[e]
      /\ y.s.timerArmed = snd[e].timerArmed /\ y.s.unacked = snd[e].unacked
      /\ y.s.finQueued = snd[e].finQueued /\ y.s.running = snd[e].running
      /\ y.s.late = snd[e].late
  BY <1>2, Zenon DEF XType, SndType
<1> HIDE DEF y
<1>4. /\ y.s.timerArmed => TimerDue(y.s)
      /\ y.s.unacked # {} => y.s.timerArmed
      /\ ~y.s.finQueued /\ y.c.conn = "up"
  BY <1>1, <1>2, <1>3, Zenon DEF SndAwake, TimerDue
<1>5. StreamOK(e, ReadTop(y))
  BY <1>2, <1>3, <1>4, ReadTopOK
<1>6. StreamsOK'
  BY <1>1, <1>5, StoreOK DEF IInv
<1>7. NetOK' /\ RestOK'
  BY RestUnchanged DEF ReadWake, IInv, NetOK
<1>8. QED
  BY <1>6, <1>7 DEF IInv

\* The stream after readLoop queued a segment.
LEMMA QueuedOK ==
  ASSUME IInv, NEW e \in Ends, Alive(e), NEW g \in Segment
  PROVE  LET t == Queued(e, g) IN
         /\ t \in XType /\ InWindow(e, t.r) /\ AckTimed(t.r)
         /\ t.c = ctl[e] /\ RcvAwake(ctl[e], t.r)
         /\ t.s.timerArmed /\ TimerDue(t.s)
         /\ t.s.finQueued = (snd[e].finQueued \/ g.typ = "fin")
<1> DEFINE u == QueueSegment(snd[e], g)
           q == FillAck(e, rcv[e])
           y == Queued(e, g)
<1>1. /\ Stream(e) \in XType /\ InWindow(e, rcv[e])
      /\ Stream(e).c = ctl[e] /\ Stream(e).s = snd[e] /\ Stream(e).r = rcv[e]
      /\ snd[e] \in SndType /\ rcv[e] \in RcvType
      /\ SndAwake(ctl[e], snd[e]) /\ RcvAwake(ctl[e], rcv[e])
  BY StreamParts DEF IInv
<1>2. snd[e].timerArmed => TimerDue(snd[e])
  BY <1>1, Zenon DEF SndAwake
<1>3. /\ u \in SndType /\ (u.timerArmed => TimerDue(u)) /\ u.timerArmed
      /\ u.finQueued = (snd[e].finQueued \/ g.typ = "fin")
  BY <1>1, <1>2, QueueSegmentKeeps
<1>4. /\ q \in RcvType /\ q.rcvNxt = rcv[e].rcvNxt /\ q.ooo = rcv[e].ooo
      /\ q.rcvQueue = rcv[e].rcvQueue /\ q.rcvFin = rcv[e].rcvFin
      /\ q.writeCh = rcv[e].writeCh /\ q.ackPending = 0
  BY <1>1, FillAckKeeps
<1>5. SegFrame(e, rcv[e], g) \in Frame
  BY <1>1, FramesTyped
<1>6. y = [Stream(e) EXCEPT !.s = u, !.r = q, !.out = {SegFrame(e, rcv[e], g)}]
  BY <1>1, Zenon DEF Queued
<1> HIDE DEF u, q, y
<1>7. y \in XType /\ y.c = ctl[e] /\ y.s = u /\ y.r = q
  BY <1>1, <1>3, <1>4, <1>5, <1>6, Zenon DEF XType
<1>8. AckTimed(q) /\ InWindow(e, q)
  BY <1>1, <1>4 DEF AckTimed, InWindow
<1>9. RcvAwake(ctl[e], q)
  BY <1>1, <1>4, <1>8, Zenon DEF RcvAwake, WorkSignalled
<1>10. QED
  BY <1>3, <1>7, <1>8, <1>9 DEF y

\* conn.Read returned bytes.
LEMMA ReadDataOK ==
  ASSUME IInv, NEW e \in Ends, NEW n \in 1 .. Mss, ReadData(e, n)
  PROVE  IInv'
<1> DEFINE g == NewSegment(snd[e], "data", n, taken[e] + 1, ctl[e].src)
           y == Queued(e, g)
<1>1. /\ Alive(e) /\ ctl[e].rd = "read" /\ Flush(e, ReadTop(y))
      /\ taken' = [taken EXCEPT ![e] = @ + n]
  BY Zenon DEF ReadData
<1>2. n \in Nat \ {0}
  BY MssAssumption
<1>3. /\ ctl[e] \in CtlType /\ snd[e] \in SndType /\ DialOK(e, ctl[e])
      /\ SndAwake(ctl[e], snd[e])
  BY <1>1, StreamParts DEF IInv
<1>4. /\ snd[e].sndNxt \in Nat /\ ctl[e].src \in Nat /\ taken[e] \in Nat
      /\ snd[e].finQueued = FALSE /\ ctl[e].conn = "up"
  BY <1>1, <1>3, Zenon DEF CtlType, SndType, SndAwake, IInv, RestOK
<1>5. taken[e] + 1 \in Nat /\ taken[e] + n \in Nat
  BY <1>2, <1>4
<1>6. g \in Segment /\ g.typ = "data"
  BY <1>2, <1>4, <1>5, Zenon DEF NewSegment, Segment, SegTypes
<1> HIDE DEF g
<1>7. /\ y \in XType /\ InWindow(e, y.r) /\ y.c = ctl[e] /\ RcvAwake(y.c, y.r)
      /\ y.s.timerArmed /\ TimerDue(y.s) /\ ~y.s.finQueued
  BY <1>1, <1>4, <1>6, QueuedOK
<1> HIDE DEF y
<1>8. StreamOK(e, ReadTop(y))
  BY <1>3, <1>4, <1>7, ReadTopOK
<1>9. StreamsOK' /\ NetOK'
  BY <1>1, <1>8, FlushOK DEF IInv
<1>10. RestOK'
  <2>1. taken' \in [Ends -> Nat]
    BY <1>1, <1>5, Zenon DEF IInv, RestOK
  <2>2. QED
    BY <2>1 DEF ReadData, IInv, RestOK
<1>11. QED
  BY <1>9, <1>10 DEF IInv

\* conn.Read returned io.EOF.
LEMMA ReadEOFOK ==
  ASSUME IInv, NEW e \in Ends, ReadEOF(e)
  PROVE  IInv'
<1> DEFINE g == NewSegment(snd[e], "fin", 1, 0, ctl[e].src)
           y == Queued(e, g)
           z == [y EXCEPT !.c.rd = "off"]
           c1 == [ctl[e] EXCEPT !.rd = "off"]
<1>1. Alive(e) /\ ctl[e].rd = "read" /\ Flush(e, MaybeFinish(z))
  BY Zenon DEF ReadEOF
<1>2. /\ ctl[e] \in CtlType /\ snd[e] \in SndType /\ DialOK(e, ctl[e])
      /\ SndAwake(ctl[e], snd[e])
  BY <1>1, StreamParts DEF IInv
<1>3. snd[e].sndNxt \in Nat /\ ctl[e].src \in Nat /\ ctl[e].conn = "up"
  BY <1>1, <1>2, Zenon DEF CtlType, SndType, SndAwake
<1>4. 1 \in Nat \ {0} /\ 0 \in Nat
  OBVIOUS
<1>5. g \in Segment
  BY <1>3, <1>4, Zenon DEF NewSegment, Segment, SegTypes
<1> HIDE DEF g
<1>6. /\ y \in XType /\ InWindow(e, y.r) /\ y.c = ctl[e] /\ RcvAwake(ctl[e], y.r)
      /\ y.s.timerArmed /\ TimerDue(y.s)
  BY <1>1, <1>5, QueuedOK
<1> HIDE DEF y
<1>7. /\ c1 \in CtlType /\ c1.rd = "off" /\ c1.wr = ctl[e].wr /\ c1.conn = "up"
      /\ c1.opened = ctl[e].opened
  BY <1>2, <1>3, Zenon DEF CtlType
<1>8. z \in XType /\ z.c = c1 /\ z.s = y.s /\ z.r = y.r
  BY <1>6, <1>7, Zenon DEF XType
<1> HIDE DEF z, c1
<1>9. SndAwake(c1, y.s) /\ RcvAwake(c1, y.r) /\ DialOK(e, c1)
  <2>1. SndAwake(c1, y.s)
    BY <1>6, <1>7 DEF SndAwake
  <2>2. QED
    BY <1>2, <1>3, <1>6, <1>7, <2>1, Zenon DEF RcvAwake, DialOK
<1>10. StreamOK(e, z)
  BY <1>6, <1>8, <1>9, Zenon DEF StreamOK
<1>11. StreamOK(e, MaybeFinish(z))
  BY <1>10, MaybeFinishOK
<1>12. StreamsOK' /\ NetOK'
  BY <1>1, <1>11, FlushOK DEF IInv
<1>13. RestOK'
  BY RestUnchanged DEF ReadEOF, IInv
<1>14. QED
  BY <1>12, <1>13 DEF IInv

\* The connection failed.
LEMMA ConnErrorOK ==
  ASSUME IInv, NEW e \in Ends, ConnError(e)
  PROVE  IInv'
<1> DEFINE y == Abort(Stream(e), TRUE)
           z == [y EXCEPT !.c.wr = "off"]
<1>1. Flush(e, z) /\ batch' = [batch EXCEPT ![e] = <<>>]
  BY Zenon DEF ConnError
<1>2. /\ Stream(e) \in XType /\ InWindow(e, Stream(e).r) /\ DialOK(e, Stream(e).c)
  BY StreamParts DEF IInv
<1>3. StreamOK(e, y)
  BY <1>2, AbortOK
<1>4. y.c.life # "alive"
  <2>1. "aborted" \in Lives /\ "aborted" # "alive"
    BY DEF Lives
  <2>2. RstFrame \in Frame
    BY DEF RstFrame, Frame, ControlFrames
  <2> DEFINE v == [Stream(e) EXCEPT !.out = @ \cup {RstFrame}]
  <2>3. v \in XType
    BY <1>2, <2>2, Zenon DEF XType
  <2>4. Stream(e).c.life = "alive" => y = EndStream(v, "aborted")
    BY Zenon DEF Abort
  <2> HIDE DEF v
  <2>5. EndStream(v, "aborted").c.life = "aborted"
    BY <2>1, <2>3, EndStreamTyped
  <2>6. Stream(e).c.life # "alive" => y = Stream(e)
    BY Zenon DEF Abort
  <2>7. QED
    BY <2>1, <2>4, <2>5, <2>6, Zenon
<1> HIDE DEF y
<1>5. /\ z \in XType /\ z.s = y.s /\ z.r = y.r /\ z.c.life = y.c.life
      /\ z.c.conn = y.c.conn /\ z.c.opened = y.c.opened
  BY <1>3, Zenon DEF StreamOK, XType, CtlType
<1> HIDE DEF z
<1>6. StreamOK(e, z)
  BY <1>3, <1>4, <1>5, Zenon DEF StreamOK, DialOK
<1>7. StreamsOK' /\ NetOK'
  BY <1>1, <1>6, FlushOK DEF IInv
<1>8. RestOK'
  <2>1. <<>> \in Seq(Bytes)
    OBVIOUS
  <2>2. batch' \in [Ends -> Seq(Bytes)]
    BY <1>1, <2>1, Zenon DEF IInv, RestOK
  <2>3. QED
    BY <2>2 DEF ConnError, IInv, RestOK
<1>9. QED
  BY <1>7, <1>8 DEF IInv

\* writeCh wakes writeLoop.
LEMMA WriteWakeOK ==
  ASSUME IInv, NEW e \in Ends, WriteWake(e)
  PROVE  IInv'
<1> DEFINE y == [Stream(e) EXCEPT !.r.writeCh = FALSE]
<1>1. /\ Alive(e) /\ Store(e, WriteTop(y))
      /\ batch' = [batch EXCEPT ![e] = rcv[e].rcvQueue]
  BY Zenon DEF WriteWake
<1>2. /\ Stream(e) \in XType /\ InWindow(e, rcv[e]) /\ DialOK(e, ctl[e])
      /\ Stream(e).c = ctl[e] /\ Stream(e).s = snd[e] /\ Stream(e).r = rcv[e]
      /\ SndAwake(ctl[e], snd[e]) /\ RcvAwake(ctl[e], rcv[e]) /\ rcv[e] \in RcvType
  BY <1>1, StreamParts DEF IInv
<1>3. /\ y \in XType /\ y.c = ctl[e] /\ y.s = snd[e]
      /\ y.r.ooo = rcv[e].ooo /\ y.r.rcvNxt = rcv[e].rcvNxt
      /\ y.r.ackPending = rcv[e].ackPending /\ y.r.ackTimerSet = rcv[e].ackTimerSet
  BY <1>2, Zenon DEF XType, RcvType
<1> HIDE DEF y
<1>4. InWindow(e, y.r) /\ AckTimed(y.r)
  BY <1>2, <1>3, Zenon DEF InWindow, AckTimed, RcvAwake
<1>5. StreamOK(e, WriteTop(y))
  BY <1>2, <1>3, <1>4, WriteTopOK
<1>6. StreamsOK'
  BY <1>1, <1>5, StoreOK DEF IInv
<1>7. batch' \in [Ends -> Seq(Bytes)]
  BY <1>1, <1>2, Zenon DEF IInv, RestOK, RcvType
<1>8. NetOK' /\ RestOK'
  BY <1>7 DEF WriteWake, IInv, NetOK, RestOK
<1>9. QED
  BY <1>6, <1>8 DEF IInv

\* A write returned.
LEMMA WriteDoneOK ==
  ASSUME IInv, NEW e \in Ends, WriteDone(e)
  PROVE  IInv'
<1> DEFINE r1 == [rcv[e] EXCEPT !.rcvQueued = @ - Len(batch[e])]
           tell == r1.rcvNxt + Free(e, r1) >= r1.advRight + Window[e] \div 4
           r2 == IF tell THEN FillAck(e, r1) ELSE r1
           o == IF tell THEN {AckFrame(e, r1, FALSE, FALSE)} ELSE {}
           y == [Stream(e) EXCEPT !.r = r2, !.out = o]
<1>1. /\ Flush(e, WriteTop(y))
      /\ written' = [written EXCEPT ![e] = @ \o batch[e]]
      /\ batch' = [batch EXCEPT ![e] = rcv[e].rcvQueue]
  BY Zenon DEF WriteDone
<1>2. /\ Stream(e) \in XType /\ InWindow(e, rcv[e]) /\ DialOK(e, ctl[e])
      /\ Stream(e).c = ctl[e] /\ Stream(e).s = snd[e] /\ Stream(e).r = rcv[e]
      /\ rcv[e] \in RcvType
      /\ Alive(e) => SndAwake(ctl[e], snd[e]) /\ RcvAwake(ctl[e], rcv[e])
  BY StreamParts DEF IInv
<1>3. batch[e] \in Seq(Bytes) /\ written[e] \in Seq(Bytes)
  BY Zenon DEF IInv, RestOK
<1>4. rcv[e].rcvQueued - Len(batch[e]) \in Int
  <2>1. rcv[e].rcvQueued \in Int
    BY <1>2, Zenon DEF RcvType
  <2>2. QED
    BY <1>3, <2>1
<1>5. /\ r1 \in RcvType /\ r1.ooo = rcv[e].ooo /\ r1.rcvNxt = rcv[e].rcvNxt
      /\ r1.ackPending = rcv[e].ackPending /\ r1.ackTimerSet = rcv[e].ackTimerSet
  BY <1>2, <1>4, Zenon DEF RcvType
<1> HIDE DEF r1, tell
<1>6. /\ r2 \in RcvType /\ r2.ooo = rcv[e].ooo /\ r2.rcvNxt = rcv[e].rcvNxt
      /\ r2.ackPending = 0 \/ (/\ r2.ackPending = rcv[e].ackPending
                               /\ r2.ackTimerSet = rcv[e].ackTimerSet)
  BY <1>5, FillAckKeeps
<1>7. o \in SUBSET Frame
  BY <1>5, FramesTyped
<1> HIDE DEF r2, o
<1>8. y \in XType /\ y.c = ctl[e] /\ y.s = snd[e] /\ y.r = r2
  BY <1>2, <1>6, <1>7, Zenon DEF XType
<1> HIDE DEF y
<1>9. Alive(e) => AckTimed(rcv[e])
  BY <1>2, Zenon DEF RcvAwake
<1>10. InWindow(e, r2) /\ (Alive(e) => AckTimed(r2))
  BY <1>2, <1>6, <1>9 DEF InWindow, AckTimed
<1>11. StreamOK(e, WriteTop(y))
  BY <1>2, <1>8, <1>10, WriteTopOK DEF Alive
<1>12. StreamsOK' /\ NetOK'
  BY <1>1, <1>11, FlushOK DEF IInv
<1>13. written' \in [Ends -> Seq(Bytes)] /\ batch' \in [Ends -> Seq(Bytes)]
  <2>1. written[e] \o batch[e] \in Seq(Bytes)
    BY <1>3
  <2>2. QED
    BY <1>1, <1>2, <2>1, Zenon DEF IInv, RestOK, RcvType
<1>14. RestOK'
  BY <1>13 DEF WriteDone, IInv, RestOK
<1>15. QED
  BY <1>12, <1>14 DEF IInv

\* closeWrite returned.
LEMMA CloseWriteDoneOK ==
  ASSUME IInv, NEW e \in Ends, CloseWriteDone(e)
  PROVE  IInv'
<1> DEFINE c1 == [ctl[e] EXCEPT !.wr = "off"]
           r1 == [rcv[e] EXCEPT !.finWritten = TRUE]
           y == [Stream(e) EXCEPT !.c.wr = "off", !.r.finWritten = TRUE]
<1>1. Alive(e) /\ Flush(e, MaybeFinish(y))
  BY Zenon DEF CloseWriteDone
<1>2. /\ Stream(e) \in XType /\ InWindow(e, rcv[e]) /\ DialOK(e, ctl[e])
      /\ Stream(e).c = ctl[e] /\ Stream(e).s = snd[e] /\ Stream(e).r = rcv[e]
      /\ ctl[e] \in CtlType /\ rcv[e] \in RcvType
      /\ SndAwake(ctl[e], snd[e]) /\ RcvAwake(ctl[e], rcv[e])
  BY <1>1, StreamParts DEF IInv
<1>3. /\ c1 \in CtlType /\ c1.wr = "off" /\ c1.rd = ctl[e].rd
      /\ c1.conn = ctl[e].conn /\ c1.opened = ctl[e].opened
  BY <1>2, Zenon DEF CtlType
<1>4. /\ r1 \in RcvType /\ r1.ooo = rcv[e].ooo /\ r1.rcvNxt = rcv[e].rcvNxt
      /\ r1.ackPending = rcv[e].ackPending /\ r1.ackTimerSet = rcv[e].ackTimerSet
  BY <1>2, Zenon DEF RcvType
<1>5. y \in XType /\ y.c = c1 /\ y.s = snd[e] /\ y.r = r1
  BY <1>2, <1>3, <1>4, Zenon DEF XType
<1> HIDE DEF c1, r1, y
<1>6. SndAwake(c1, snd[e]) /\ DialOK(e, c1)
  BY <1>2, <1>3, Zenon DEF SndAwake, DialOK
<1>7. AckTimed(r1)
  BY <1>2, <1>4, Zenon DEF RcvAwake, AckTimed
<1>8. InWindow(e, r1) /\ RcvAwake(c1, r1)
  BY <1>2, <1>3, <1>4, <1>7 DEF RcvAwake, InWindow
<1>9. StreamOK(e, y)
  BY <1>5, <1>6, <1>8, Zenon DEF StreamOK
<1>10. StreamOK(e, MaybeFinish(y))
  BY <1>9, MaybeFinishOK
<1>11. StreamsOK' /\ NetOK'
  BY <1>1, <1>10, FlushOK DEF IInv
<1>12. RestOK'
  BY RestUnchanged DEF CloseWriteDone, IInv
<1>13. QED
  BY <1>11, <1>12 DEF IInv

-----------------------------------------------------------------------------
(* The actions of the timers.                                              *)

\* Storing one changed part of a stream is storing the stream.
LEMMA PartStored ==
  ASSUME StreamsOK, NEW e \in Ends
  PROVE  /\ ctl = [ctl EXCEPT ![e] = ctl[e]] /\ snd = [snd EXCEPT ![e] = snd[e]]
         /\ rcv = [rcv EXCEPT ![e] = rcv[e]]
  BY DEF StreamsOK

\* The retransmission timer starts its callback.
LEMMA ExpireOK ==
  ASSUME IInv, NEW e \in Ends, Expire(e)
  PROVE  IInv'
<1> DEFINE s1 == [snd[e] EXCEPT !.running = FALSE, !.late = TRUE]
           y == [Stream(e) EXCEPT !.s = s1]
<1>1. /\ Stream(e) \in XType /\ InWindow(e, rcv[e]) /\ DialOK(e, ctl[e])
      /\ Stream(e).c = ctl[e] /\ Stream(e).s = snd[e] /\ Stream(e).r = rcv[e]
      /\ snd[e] \in SndType
      /\ Alive(e) => SndAwake(ctl[e], snd[e]) /\ RcvAwake(ctl[e], rcv[e])
  BY StreamParts DEF IInv
<1>2. /\ s1 \in SndType /\ s1.late = TRUE /\ s1.timerArmed = snd[e].timerArmed
      /\ s1.unacked = snd[e].unacked /\ s1.sendCh = snd[e].sendCh
      /\ s1.sndRight = snd[e].sndRight /\ s1.sndNxt = snd[e].sndNxt
      /\ s1.finQueued = snd[e].finQueued
  BY <1>1, Zenon DEF SndType
<1>3. snd' = [snd EXCEPT ![e] = s1] /\ ctl' = ctl /\ rcv' = rcv
  BY DEF Expire, IInv, StreamsOK
<1> HIDE DEF s1
<1>4. y \in XType /\ y.c = ctl[e] /\ y.s = s1 /\ y.r = rcv[e]
  BY <1>1, <1>2, Zenon DEF XType
<1> HIDE DEF y
<1>5. Alive(e) => SndAwake(ctl[e], s1)
  BY <1>1, <1>2, Zenon DEF SndAwake, TimerDue
<1>6. StreamOK(e, y)
  BY <1>1, <1>4, <1>5, Zenon DEF StreamOK, Alive
<1>7. Store(e, y)
  BY <1>3, <1>4, PartStored, Zenon DEF Store, IInv
<1>8. StreamsOK'
  BY <1>6, <1>7, StoreOK DEF IInv
<1>9. NetOK' /\ RestOK'
  BY RestUnchanged DEF Expire, IInv, NetOK
<1>10. QED
  BY <1>8, <1>9 DEF IInv

\* onTimer gets the lock.
LEMMA OnTimerOK ==
  ASSUME IInv, NEW e \in Ends, OnTimer(e)
  PROVE  IInv'
<1> DEFINE s1 == [snd[e] EXCEPT !.late = FALSE, !.timerArmed = FALSE]
           y == [Stream(e) EXCEPT !.s = s1]
<1>1. Alive(e)
  BY Zenon DEF OnTimer
<1>2. /\ Stream(e) \in XType /\ InWindow(e, rcv[e]) /\ DialOK(e, ctl[e])
      /\ Stream(e).c = ctl[e] /\ Stream(e).s = snd[e] /\ Stream(e).r = rcv[e]
      /\ snd[e] \in SndType
      /\ SndAwake(ctl[e], snd[e]) /\ RcvAwake(ctl[e], rcv[e])
  BY <1>1, StreamParts DEF IInv
<1>3. Flush(e, TimerFired(e, y))
  BY <1>2, Zenon DEF OnTimer
<1>4. /\ s1 \in SndType /\ s1.unacked = snd[e].unacked /\ s1.sendCh = snd[e].sendCh
      /\ s1.sndRight = snd[e].sndRight /\ s1.sndNxt = snd[e].sndNxt
      /\ s1.finQueued = snd[e].finQueued
  BY <1>2, Zenon DEF SndType
<1> HIDE DEF s1
<1>5. y \in XType /\ y.c = ctl[e] /\ y.s = s1 /\ y.r = rcv[e]
  BY <1>2, <1>4, Zenon DEF XType
<1> HIDE DEF y
<1>6. /\ y.c.rd = "wait" /\ y.s.unacked = {} /\ y.s.sndRight > y.s.sndNxt => y.s.sendCh
      /\ y.c.rd # "off" => ~y.s.finQueued
      /\ y.c.rd # "off" \/ y.s.finQueued => y.c.conn = "up"
  BY <1>2, <1>4, <1>5, Zenon DEF SndAwake
<1>7. StreamOK(e, TimerFired(e, y))
  BY <1>2, <1>5, <1>6, TimerFiredOK
<1>8. StreamsOK' /\ NetOK'
  BY <1>3, <1>7, FlushOK DEF IInv
<1>9. RestOK'
  BY RestUnchanged DEF OnTimer, IInv
<1>10. QED
  BY <1>8, <1>9 DEF IInv

\* onAckTimer gets the lock.
LEMMA OnAckTimerOK ==
  ASSUME IInv, NEW e \in Ends, OnAckTimer(e)
  PROVE  IInv'
<1> DEFINE r1 == [rcv[e] EXCEPT !.ackTimerSet = FALSE]
           y == [Stream(e) EXCEPT !.r.ackTimerSet = FALSE]
           q == FillAck(e, r1)
           z == [y EXCEPT !.r = q, !.out = {AckFrame(e, r1, FALSE, FALSE)}]
<1>1. /\ Stream(e) \in XType /\ InWindow(e, rcv[e]) /\ DialOK(e, ctl[e])
      /\ Stream(e).c = ctl[e] /\ Stream(e).s = snd[e] /\ Stream(e).r = rcv[e]
      /\ rcv[e] \in RcvType
      /\ Alive(e) => SndAwake(ctl[e], snd[e]) /\ RcvAwake(ctl[e], rcv[e])
  BY StreamParts DEF IInv
<1>2. /\ r1 \in RcvType /\ r1.ooo = rcv[e].ooo /\ r1.rcvNxt = rcv[e].rcvNxt
      /\ r1.rcvQueue = rcv[e].rcvQueue /\ r1.rcvFin = rcv[e].rcvFin
      /\ r1.writeCh = rcv[e].writeCh /\ r1.ackPending = rcv[e].ackPending
  BY <1>1, Zenon DEF RcvType
<1>3. y \in XType /\ y.c = ctl[e] /\ y.s = snd[e] /\ y.r = r1
  BY <1>1, <1>2, Zenon DEF XType
<1>4. Flush(e, IF rcv[e].ackPending > 0 THEN z ELSE y)
  BY <1>3, Zenon DEF OnAckTimer
<1>5. /\ q \in RcvType /\ q.ooo = r1.ooo /\ q.rcvNxt = r1.rcvNxt
      /\ q.rcvQueue = r1.rcvQueue /\ q.rcvFin = r1.rcvFin
      /\ q.writeCh = r1.writeCh /\ q.ackPending = 0
  BY <1>2, FillAckKeeps
<1>6. AckFrame(e, r1, FALSE, FALSE) \in Frame
  BY <1>2, FramesTyped
<1> HIDE DEF y, q, r1
<1>7. z \in XType /\ z.c = ctl[e] /\ z.s = snd[e] /\ z.r = q
  BY <1>3, <1>5, <1>6, Zenon DEF XType
<1> HIDE DEF z
<1>8. InWindow(e, r1) /\ InWindow(e, q)
  BY <1>1, <1>2, <1>5, Zenon DEF InWindow
<1>9. AckTimed(q) /\ (~(rcv[e].ackPending > 0) => AckTimed(r1))
  BY <1>2, <1>5 DEF AckTimed
<1>10. /\ Alive(e) => RcvAwake(ctl[e], q)
       /\ Alive(e) /\ ~(rcv[e].ackPending > 0) => RcvAwake(ctl[e], r1)
  BY <1>1, <1>2, <1>5, <1>9, Zenon DEF RcvAwake, WorkSignalled
<1>11. StreamOK(e, z) /\ (~(rcv[e].ackPending > 0) => StreamOK(e, y))
  BY <1>1, <1>3, <1>7, <1>8, <1>10, Zenon DEF StreamOK, Alive
<1>12. StreamsOK' /\ NetOK'
  BY <1>4, <1>11, FlushOK DEF IInv
<1>13. RestOK'
  BY RestUnchanged DEF OnAckTimer, IInv
<1>14. QED
  BY <1>12, <1>13 DEF IInv

\* Resetting the stream of an end: checkOpened and stop.
LEMMA FlushAbortOK ==
  ASSUME IInv, NEW e \in Ends, Flush(e, Abort(Stream(e), TRUE))
  PROVE  StreamsOK' /\ NetOK'
<1>1. Stream(e) \in XType /\ InWindow(e, Stream(e).r) /\ DialOK(e, Stream(e).c)
  BY StreamParts DEF IInv
<1>2. StreamOK(e, Abort(Stream(e), TRUE))
  BY <1>1, AbortOK
<1>3. QED
  BY <1>2, FlushOK DEF IInv

\* A server stream without its OPEN is reset.
LEMMA CheckOpenedOK ==
  ASSUME IInv, CheckOpened
  PROVE  IInv'
<1>1. "server" \in Ends /\ Flush("server", Abort(Stream("server"), TRUE))
  BY Zenon DEF CheckOpened, Ends
<1>2. StreamsOK' /\ NetOK'
  BY <1>1, FlushAbortOK
<1>3. RestOK'
  BY RestUnchanged DEF CheckOpened, IInv
<1>4. QED
  BY <1>2, <1>3 DEF IInv

\* An endpoint stops.
LEMMA StopOK ==
  ASSUME IInv, NEW e \in Ends, Stop(e)
  PROVE  IInv'
<1>1. Flush(e, Abort(Stream(e), TRUE))
  BY Zenon DEF Stop
<1>2. StreamsOK' /\ NetOK'
  BY <1>1, FlushAbortOK
<1>3. RestOK'
  BY DEF Stop, IInv, RestOK
<1>4. QED
  BY <1>2, <1>3 DEF IInv

\* Time without progress.
LEMMA TimePassesOK ==
  ASSUME IInv, NEW e \in Ends, TimePasses(e)
  PROVE  IInv'
<1> DEFINE s1 == [snd[e] EXCEPT !.stale = TRUE]
           c1 == [ctl[e] EXCEPT !.heardStale = TRUE]
           y == [Stream(e) EXCEPT !.c = c1, !.s = s1]
<1>1. Alive(e)
  BY Zenon DEF TimePasses
<1>2. /\ Stream(e) \in XType /\ InWindow(e, rcv[e]) /\ DialOK(e, ctl[e])
      /\ Stream(e).r = rcv[e] /\ ctl[e] \in CtlType /\ snd[e] \in SndType
      /\ SndAwake(ctl[e], snd[e]) /\ RcvAwake(ctl[e], rcv[e])
  BY <1>1, StreamParts DEF IInv
<1>3. /\ s1 \in SndType /\ s1.late = snd[e].late /\ s1.timerArmed = snd[e].timerArmed
      /\ s1.running = snd[e].running
      /\ s1.unacked = snd[e].unacked /\ s1.sendCh = snd[e].sendCh
      /\ s1.sndRight = snd[e].sndRight /\ s1.sndNxt = snd[e].sndNxt
      /\ s1.finQueued = snd[e].finQueued
  BY <1>2, Zenon DEF SndType
<1>4. /\ c1 \in CtlType /\ c1.rd = ctl[e].rd /\ c1.wr = ctl[e].wr
      /\ c1.conn = ctl[e].conn /\ c1.opened = ctl[e].opened
  BY <1>2, Zenon DEF CtlType
<1>5. snd' = [snd EXCEPT ![e] = s1] /\ ctl' = [ctl EXCEPT ![e] = c1] /\ rcv' = rcv
  BY DEF TimePasses, IInv, StreamsOK
<1> HIDE DEF s1, c1
<1>6. y \in XType /\ y.c = c1 /\ y.s = s1 /\ y.r = rcv[e]
  BY <1>2, <1>3, <1>4, Zenon DEF XType
<1> HIDE DEF y
<1>7. SndAwake(c1, s1) /\ RcvAwake(c1, rcv[e]) /\ DialOK(e, c1)
  BY <1>2, <1>3, <1>4, Zenon DEF SndAwake, TimerDue, RcvAwake, DialOK
<1>8. StreamOK(e, y)
  BY <1>2, <1>6, <1>7, Zenon DEF StreamOK
<1>9. Store(e, y)
  BY <1>5, <1>6, PartStored, Zenon DEF Store, IInv
<1>10. StreamsOK'
  BY <1>8, <1>9, StoreOK DEF IInv
<1>11. NetOK' /\ RestOK'
  BY RestUnchanged DEF TimePasses, IInv, NetOK
<1>12. QED
  BY <1>10, <1>11 DEF IInv

\* An ended stream is forgotten.
LEMMA LingerExpireOK ==
  ASSUME IInv, NEW e \in Ends, LingerExpire(e)
  PROVE  IInv'
<1> DEFINE c1 == [ctl[e] EXCEPT !.life = "gone"]
           y == [Stream(e) EXCEPT !.c = c1]
<1>1. /\ Stream(e) \in XType /\ InWindow(e, rcv[e]) /\ DialOK(e, ctl[e])
      /\ Stream(e).s = snd[e] /\ Stream(e).r = rcv[e] /\ ctl[e] \in CtlType
  BY StreamParts DEF IInv
<1>2. /\ c1 \in CtlType /\ c1.life = "gone"
      /\ c1.conn = ctl[e].conn /\ c1.opened = ctl[e].opened
  BY <1>1, Zenon DEF CtlType, Lives
<1>3. snd' = snd /\ ctl' = [ctl EXCEPT ![e] = c1] /\ rcv' = rcv
  BY DEF LingerExpire, IInv, StreamsOK
<1> HIDE DEF c1
<1>4. y \in XType /\ y.c = c1 /\ y.s = snd[e] /\ y.r = rcv[e]
  BY <1>1, <1>2, Zenon DEF XType
<1> HIDE DEF y
<1>5. StreamOK(e, y)
  BY <1>1, <1>2, <1>4, Zenon DEF StreamOK, DialOK
<1>6. Store(e, y)
  BY <1>3, <1>4, PartStored, Zenon DEF Store, IInv
<1>7. StreamsOK'
  BY <1>5, <1>6, StoreOK DEF IInv
<1>8. NetOK' /\ RestOK'
  BY RestUnchanged DEF LingerExpire, IInv, NetOK
<1>9. QED
  BY <1>7, <1>8 DEF IInv

-----------------------------------------------------------------------------
(* The theorems.                                                           *)

\* IInv is inductive.
LEMMA NextOK == IInv /\ [Next]_vars => IInv'
<1> SUFFICES ASSUME IInv, [Next]_vars PROVE IInv'
  OBVIOUS
<1>1. CASE Open
  BY <1>1, OpenOK
<1>2. CASE DialFail
  BY <1>2, DialFailOK
<1>3. CASE DialDone
  BY <1>3, DialDoneOK
<1>4. CASE CheckOpened
  BY <1>4, CheckOpenedOK
<1>5. CASE Network
  BY <1>5, DeliverOK, LeaveOK, Zenon DEF Network
<1>6. CASE \E f \in pend, aged \in BOOLEAN : CreateStream(f, aged)
  BY <1>6, CreateStreamOK, Zenon
<1>7. ASSUME NEW e \in Ends, Loops(e) PROVE IInv'
  BY <1>7, ReadWakeOK, ReadEOFOK, ReadDataOK, WriteWakeOK, WriteDoneOK,
     CloseWriteDoneOK, ConnErrorOK, Zenon DEF Loops
<1>8. ASSUME NEW e \in Ends, Timers(e) PROVE IInv'
  BY <1>8, ExpireOK, OnTimerOK, OnAckTimerOK, TimePassesOK, LingerExpireOK, Zenon
     DEF Timers
<1>9. ASSUME NEW e \in Ends, Stop(e) PROVE IInv'
  BY <1>9, StopOK
<1>10. CASE UNCHANGED vars
  BY <1>10 DEF vars, IInv, StreamsOK, NetOK, RestOK, Stream
<1>11. QED
  BY <1>1, <1>2, <1>3, <1>4, <1>5, <1>6, <1>7, <1>8, <1>9, <1>10, Zenon DEF Next

\* What IInv is for.
LEMMA IInvImplies == IInv => TypeOK /\ NoLostWakeup
<1> SUFFICES ASSUME IInv PROVE TypeOK /\ NoLostWakeup
  OBVIOUS
<1>1. TypeOK
  BY Zenon DEF IInv, StreamsOK, NetOK, RestOK, TypeOK
<1>2. ASSUME NEW e \in Ends, Alive(e)
      PROVE  /\ snd[e].unacked # {} => TimerDue(snd[e])
             /\ ctl[e].rd = "wait" => TimerDue(snd[e]) \/ snd[e].sendCh
             /\ rcv[e].ackPending > 0 => rcv[e].ackTimerSet
             /\ ctl[e].wr = "wait" /\ (rcv[e].rcvQueue # <<>> \/ rcv[e].rcvFin)
                  => rcv[e].writeCh
  <2>1. SndAwake(ctl[e], snd[e]) /\ RcvAwake(ctl[e], rcv[e])
    BY <1>2, StreamParts DEF IInv
  <2>2. QED
    BY <2>1, Zenon DEF SndAwake, RcvAwake, AckTimed, WorkSignalled
<1>3. QED
  BY <1>1, <1>2, Zenon DEF NoLostWakeup

\* Every variable of a stream keeps its type, for every window, segment size and
\* input: the sequences handed to writeLoop consist of bytes that were sent, the
\* delayed ACK leaves at most one frame unacknowledged and backoff keeps its cap.
THEOREM TypeCorrect == Spec => []TypeOK
<1>1. Init => IInv
  BY InitOK
<1>2. IInv /\ [Next]_vars => IInv'
  BY NextOK
<1>3. IInv => TypeOK
  BY IInvImplies
<1>4. QED
  BY <1>1, <1>2, <1>3, PTL DEF Spec

\* No goroutine of a live stream ever sleeps without something that will wake it,
\* however frames, callbacks of stopped timers and signals interleave: no window
\* update or retransmission is lost to a race.
THEOREM Wakeups == Spec => []NoLostWakeup
<1>1. Init => IInv
  BY InitOK
<1>2. IInv /\ [Next]_vars => IInv'
  BY NextOK
<1>3. IInv => NoLostWakeup
  BY IInvImplies
<1>4. QED
  BY <1>1, <1>2, <1>3, PTL DEF Spec
=============================================================================
