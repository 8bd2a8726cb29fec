------------------------------ MODULE TcpStream ------------------------------
(***************************************************************************)
(* One TCP stream carried over the packet pipeline (src/tcp_stream.go):    *)
(* the tcp_listen end ("client") and the tcp_forward end ("server")        *)
(* exchange sequenced frames over lines that lose, duplicate and reorder   *)
(* them.  One action is one critical section of tcpStream.mu together with *)
(* the frames unlockAndFlush sends after it; readLoop and writeLoop step    *)
(* from one blocking point to the next.                                    *)
(*                                                                         *)
(* Payload bytes are <<src, i>>: the i-th byte read from connection src.   *)
(* The client has one connection; a server stream that is created again    *)
(* after its linger time dials a new one.  Durations appear as the events  *)
(* they cause: Expire, TimePasses, CheckOpened, LingerExpire.              *)
(***************************************************************************)
EXTENDS Integers, Sequences, FiniteSets, FiniteSetsExt

CONSTANTS
  Mss,         \* payload bytes of one DATA frame
  Window,      \* [Ends -> Nat]: receive window of each end
  InitWindow,  \* window assumed until the peer's first ACK (tcpStreamInitWindow)
  AppBytes,    \* [Ends -> Nat]: bytes the local connection offers before EOF
  Closes,      \* the ends whose connection ends (EOF) at some point
  MaxBackoff,  \* cap of the retransmission backoff (6 in the code)
  DupThresh,   \* out-of-order ACKs that start a fast retransmit (3 in the code)
  NetCap,      \* [Ends -> Nat], bound: copies of one frame in flight to each end
  MaxPend,     \* bound: goroutines of handlePacket about to create a stream
  MaxStreams,  \* bound: server streams ever created for this stream id
  MayFail,     \* connections fail, dials are refused, endpoints are stopped
  MayIdle,     \* more than the configured timeout may pass without progress
  MayLinger    \* OpenTimeout and Linger may run out

Ends == {"client", "server"}

ASSUME MssAssumption == Mss \in Nat \ {0}
ASSUME WindowAssumption ==
  /\ Window \in [Ends -> Nat]
  /\ \A e \in Ends : Window[e] >= 2 * Mss
ASSUME SizesAssumption ==
  /\ InitWindow \in Nat
  /\ AppBytes \in [Ends -> Nat] /\ Closes \subseteq Ends
  /\ MaxBackoff \in Nat /\ DupThresh \in Nat \ {0}
ASSUME BoundsAssumption ==
  /\ NetCap \in [Ends -> Nat] /\ MaxPend \in Nat /\ MaxStreams \in Nat
  /\ MayFail \in BOOLEAN /\ MayIdle \in BOOLEAN /\ MayLinger \in BOOLEAN

VARIABLES
  ctl,      \* [Ends -> life cycle of the stream and the pcs of its two loops]
  snd,      \* [Ends -> send side of the stream]
  rcv,      \* [Ends -> receive side of the stream]
  net,      \* [Ends -> set of frames in flight towards that end]
  pend,     \* frames whose handlePacket is about to create the server stream
  stopped,  \* the tcp_forward endpoint was stopped
  taken,    \* [Ends -> bytes read so far from the local connection]
  batch,    \* [Ends -> bytes writeLoop is writing, outside the lock]
  written   \* [Ends -> bytes written so far to the local connection]

vars == <<ctl, snd, rcv, net, pend, stopped, taken, batch, written>>
conns == <<taken, batch, written>>

Peer(e) == IF e = "client" THEN "server" ELSE "client"
Larger(a, b) == IF a < b THEN b ELSE a
Smaller(a, b) == IF a < b THEN a ELSE b

SegTypes == {"open", "data", "fin"}

Bytes == Nat \X Nat

Segment == [typ : SegTypes, seq : Nat, len : Nat \ {0}, lo : Nat, src : Nat]

SegFrames ==
  [typ : SegTypes, seq : Nat, len : Nat \ {0}, lo : Nat, src : Nat,
   ack : Nat, wnd : Nat, probe : BOOLEAN, outOfOrder : BOOLEAN]
ControlFrames ==
  [typ : {"ack", "rst"}, seq : {0}, len : {0}, lo : {0}, src : {0},
   ack : Nat, wnd : Nat, probe : BOOLEAN, outOfOrder : BOOLEAN]
Frame == SegFrames \cup ControlFrames

SegEnd(g) == g.seq + g.len

-----------------------------------------------------------------------------
(* A new stream: newTcpStream.                                             *)

NewCtl(src, conn) ==
  [life |-> "alive", opened |-> FALSE, conn |-> conn, src |-> src,
   heardStale |-> FALSE, rd |-> "off", rdMax |-> 0, wr |-> "off"]

NewSnd ==
  [sndUna |-> 0, sndNxt |-> 0, sndRight |-> InitWindow, unacked |-> {},
   finQueued |-> FALSE, backoff |-> 0, dupAcks |-> 0, recover |-> 0,
   stale |-> FALSE, timerArmed |-> FALSE, running |-> FALSE, late |-> FALSE,
   sendCh |-> FALSE]

NewRcv ==
  [rcvNxt |-> 0, ooo |-> {}, rcvQueue |-> <<>>, rcvQueued |-> 0,
   rcvFin |-> FALSE, finWritten |-> FALSE, advRight |-> 0, ackPending |-> 0,
   ackTimerSet |-> FALSE, writeCh |-> FALSE]

Init ==
  /\ ctl = [e \in Ends |-> [NewCtl(0, "none") EXCEPT !.life = "none"]]
  /\ snd = [e \in Ends |-> NewSnd]
  /\ rcv = [e \in Ends |-> NewRcv]
  /\ net = [e \in Ends |-> {}]
  /\ pend = {}
  /\ stopped = FALSE
  /\ taken = [e \in Ends |-> 0]
  /\ batch = [e \in Ends |-> <<>>]
  /\ written = [e \in Ends |-> <<>>]

Alive(e) == ctl[e].life = "alive"
\* The stream is in the tcpStreams map: alive, or dead and lingering.
Known(e) == ctl[e].life \in {"alive", "finished", "aborted"}

-----------------------------------------------------------------------------
(* Outgoing frames.  fillAckLocked stamps every frame but an RST with the  *)
(* acknowledgement and the free window, and settles the delayed ACK.       *)

\* Mutant: the advertised window ignores what waits to be written.
FreeIgnoringQueue(e, r) == Window[e]

Free(e, r) == Larger(Window[e] - r.rcvQueued, 0)

FillAck(e, r) ==
  [r EXCEPT !.advRight = Larger(@, r.rcvNxt + Free(e, r)),
            !.ackPending = 0, !.ackTimerSet = FALSE]

\* Mutant: acknowledges the highest segment seen, not the first gap.
AckHighest(e, r, probe, outOfOrder) ==
  [typ |-> "ack", seq |-> 0, len |-> 0, lo |-> 0, src |-> 0,
   ack |-> Max({r.rcvNxt} \cup {SegEnd(g) : g \in r.ooo}), wnd |-> Free(e, r),
   probe |-> probe, outOfOrder |-> outOfOrder]

AckFrame(e, r, probe, outOfOrder) ==
  [typ |-> "ack", seq |-> 0, len |-> 0, lo |-> 0, src |-> 0,
   ack |-> r.rcvNxt, wnd |-> Free(e, r),
   probe |-> probe, outOfOrder |-> outOfOrder]

SegFrame(e, r, g) ==
  [typ |-> g.typ, seq |-> g.seq, len |-> g.len, lo |-> g.lo, src |-> g.src,
   ack |-> r.rcvNxt, wnd |-> Free(e, r), probe |-> FALSE, outOfOrder |-> FALSE]

RstFrame ==
  [typ |-> "rst", seq |-> 0, len |-> 0, lo |-> 0, src |-> 0, ack |-> 0,
   wnd |-> 0, probe |-> FALSE, outOfOrder |-> FALSE]

\* What is in flight towards e after sending it out: at most NetCap copies of one
\* segment, of ACKs and of RSTs; a copy beyond that replaces the earlier ones.
Carried(e, out) ==
  LET like(f) == {h \in net[e] : h.typ = f.typ /\ h.seq = f.seq}
      full == {f \in out : Cardinality(like(f) \cup {f}) > NetCap[e]}
  IN (net[e] \ UNION {like(f) : f \in full}) \cup out

\* Endpoint e sends the frames of out.
Send(e, out) == net' = [net EXCEPT ![Peer(e)] = Carried(Peer(e), out)]

\* armTimerLocked on a live stream.  running is the runtime's timer, which is
\* stopped only if timerArmed says that it runs.
ArmTimer(s) ==
  IF s.unacked = {} /\ (s.sndRight > s.sndNxt \/ s.finQueued)
  THEN [s EXCEPT !.timerArmed = FALSE, !.running = @ /\ ~s.timerArmed]
  ELSE [s EXCEPT !.timerArmed = TRUE, !.running = TRUE]

ArmTimerIfOff(s) == IF s.timerArmed THEN s ELSE ArmTimer(s)

NewSegment(s, typ, len, lo, src) ==
  [typ |-> typ, seq |-> s.sndNxt, len |-> len, lo |-> lo, src |-> src]

\* Mutant: a new segment does not start the retransmission timer.
QueueWithoutTimer(s, g) ==
  [s EXCEPT !.unacked = @ \cup {g}, !.sndNxt = SegEnd(g),
            !.finQueued = @ \/ g.typ = "fin"]

\* queueSegmentLocked: g becomes unacknowledged and the timer runs.
QueueSegment(s, g) ==
  ArmTimerIfOff([s EXCEPT !.unacked = @ \cup {g}, !.sndNxt = SegEnd(g),
                          !.finQueued = @ \/ g.typ = "fin"])

First(segs) == CHOOSE g \in segs : \A h \in segs : g.seq <= h.seq

-----------------------------------------------------------------------------
(* processAckLocked: what the peer received, and the window it grants.     *)

Advances(s, f) == s.sndUna < f.ack /\ f.ack <= s.sndNxt
DupAck(s, f) == f.ack = s.sndUna /\ f.outOfOrder /\ s.unacked # {}

\* dupAcks counts on past DupThresh in the code, to no effect.
NoteAck(s, f) ==
  IF Advances(s, f)
    THEN ArmTimer([s EXCEPT !.unacked = {g \in @ : SegEnd(g) > f.ack},
                            !.sndUna = f.ack, !.backoff = 0, !.dupAcks = 0,
                            !.stale = FALSE])
  ELSE IF DupAck(s, f)
    THEN [s EXCEPT !.dupAcks = Smaller(@ + 1, DupThresh + 1),
                   !.recover = IF s.dupAcks + 1 = DupThresh THEN s.sndNxt ELSE @]
  ELSE s

\* Mutant: the window opens without waking readLoop.
NoteWindowSilently(s, f) ==
  IF f.ack + f.wnd > s.sndRight
  THEN ArmTimerIfOff([s EXCEPT !.sndRight = f.ack + f.wnd]) ELSE s

NoteWindow(s, f) ==
  LET opened == f.ack + f.wnd > s.sndRight
      s1 == IF opened THEN ArmTimerIfOff([s EXCEPT !.sndRight = f.ack + f.wnd])
            ELSE s
  IN [s1 EXCEPT !.sendCh = @ \/ s1.sndRight > s1.sndNxt]

ProcessAck(s, f) == IF f.ack > s.sndNxt THEN s ELSE NoteWindow(NoteAck(s, f), f)

\* The partial ACK or the DupThresh-th out-of-order ACK resends the first hole,
\* unless it was sent too recently (aged is FALSE).
FastRetransmits(s, f, aged) ==
  /\ aged /\ f.ack <= s.sndNxt
  /\ ProcessAck(s, f).unacked # {}
  /\ \/ Advances(s, f) /\ f.ack < s.recover
     \/ ~Advances(s, f) /\ DupAck(s, f) /\ s.dupAcks + 1 = DupThresh

-----------------------------------------------------------------------------
(* processSegmentLocked and deliverLocked.                                 *)

SegOf(f) == [typ |-> f.typ, seq |-> f.seq, len |-> f.len, lo |-> f.lo, src |-> f.src]

Covers(g, q) == g.seq <= q /\ q < SegEnd(g)

\* The first position at or after n that no segment of ooo covers: where the loop
\* that drains ooo stops, the segments of one sender being cut alike every time.
\* No segment in ooo ends more than a window after rcvNxt, hence after n.
ChainEnd(e, ooo, n) ==
  Min({p \in n .. n + Window[e] : \A g \in ooo : ~Covers(g, p)})

ByteAt(got, q) ==
  LET g == CHOOSE g \in got : Covers(g, q) IN <<g.src, g.lo + (q - g.seq)>>

\* The payload bytes of the segments got at positions from .. to - 1.
Payload(got, from, to) == [i \in 1 .. to - from |-> ByteAt(got, from + i - 1)]

\* The segments got, which cover rcvNxt .. end - 1, reach the receive side.  An
\* OPEN is the first segment of its stream and a FIN the last.
DeliverAll(r, got, end) ==
  LET open == \E g \in got : g.typ = "open"
      fin == \E g \in got : g.typ = "fin"
      bytes == Payload(got, IF open THEN r.rcvNxt + 1 ELSE r.rcvNxt,
                            IF fin THEN end - 1 ELSE end)
  IN [r EXCEPT !.rcvNxt = end, !.ooo = @ \ got,
               !.rcvQueue = @ \o bytes, !.rcvQueued = @ + Len(bytes),
               !.rcvFin = @ \/ fin,
               !.writeCh = @ \/ fin \/ bytes # <<>>]

\* An immediate ACK: the receive side after it, and the frame.
Acknowledge(e, r, outOfOrder) ==
  [r |-> FillAck(e, r), out |-> {AckFrame(e, r, FALSE, outOfOrder)}]

\* A segment ahead of a gap waits in ooo if it fits in the window.
StoreAhead(e, r, g) ==
  IF /\ g.seq > r.rcvNxt /\ SegEnd(g) <= r.rcvNxt + Window[e]
     /\ \A h \in r.ooo : h.seq # g.seq
  THEN [r EXCEPT !.ooo = @ \cup {g}] ELSE r

BeyondWindow(e, r, g) == g.typ = "data" /\ r.rcvQueued + g.len > Window[e] + Mss

\* The segments of ooo that follow the in-order segment g without a gap.
Follow(e, r, g) == {h \in r.ooo : h.seq < ChainEnd(e, r.ooo, SegEnd(g))}

TakeInOrder(e, r, g) ==
  DeliverAll(r, {g} \cup Follow(e, r, g), ChainEnd(e, r.ooo, SegEnd(g)))

\* The first DATA frame in order is acknowledged late, the second at once.
DelayAck(r) == [r EXCEPT !.ackPending = 1, !.ackTimerSet = TRUE]

\* Mutant: an old segment counts as the next one.
ProcessOldSegment(e, r, f) ==
  LET g == SegOf(f)
  IN IF g.seq > r.rcvNxt THEN Acknowledge(e, StoreAhead(e, r, g), TRUE)
     ELSE Acknowledge(e, TakeInOrder(e, r, g), FALSE)

ProcessSegment(e, r, f) ==
  LET g == SegOf(f)
  IN IF SegEnd(g) <= r.rcvNxt THEN Acknowledge(e, r, FALSE)
     ELSE IF g.seq # r.rcvNxt THEN Acknowledge(e, StoreAhead(e, r, g), TRUE)
     ELSE IF BeyondWindow(e, r, g) THEN [r |-> r, out |-> {}]
     ELSE IF Follow(e, r, g) # {} \/ g.typ # "data" \/ r.ackPending + 1 >= 2
       THEN Acknowledge(e, TakeInOrder(e, r, g), FALSE)
       ELSE [r |-> DelayAck(TakeInOrder(e, r, g)), out |-> {}]

-----------------------------------------------------------------------------
(* The end of a stream.  x is [c, s, r, out]: the three parts of one end's *)
(* stream and the frames its critical section sends.                       *)

\* endLocked: both loops see done (or a closed connection) and return, but for a
\* write that is under way, and a late onTimer finds the stream dead.  Fields
\* nothing reads any more are cleared.
EndCtl(c, life) ==
  [c EXCEPT !.life = life, !.rd = "off", !.rdMax = 0, !.heardStale = FALSE,
            !.wr = IF c.wr = "write" THEN "write" ELSE "off"]

EndSnd(s) ==
  [NewSnd EXCEPT !.sndUna = s.sndUna, !.sndNxt = s.sndNxt, !.finQueued = s.finQueued]

EndRcv(r) ==
  [NewRcv EXCEPT !.rcvNxt = r.rcvNxt, !.rcvQueued = r.rcvQueued, !.advRight = r.advRight,
                 !.rcvFin = r.rcvFin, !.finWritten = r.finWritten]

EndStream(x, life) ==
  [c |-> EndCtl(x.c, life), s |-> EndSnd(x.s), r |-> EndRcv(x.r), out |-> x.out]

Abort(x, notifyPeer) ==
  IF x.c.life # "alive" THEN x
  ELSE EndStream([x EXCEPT !.out = IF notifyPeer THEN @ \cup {RstFrame} ELSE @],
                 "aborted")

\* Mutant: finishes before the peer acknowledged the FIN.
FinishUnacked(x) ==
  IF x.c.life = "alive" /\ x.s.finQueued /\ x.r.finWritten
  THEN EndStream(x, "finished") ELSE x

MaybeFinish(x) ==
  IF /\ x.c.life = "alive" /\ x.s.finQueued
     /\ x.s.sndUna = x.s.sndNxt /\ x.r.finWritten
  THEN EndStream(x, "finished") ELSE x

\* Mutant: a finished stream no longer acknowledges.
StaySilentWhenDead(e, x, f) ==
  IF f.typ # "rst" /\ x.c.life = "aborted"
  THEN [x EXCEPT !.out = @ \cup {RstFrame}] ELSE x

\* handleFrame on a stream that has ended and still lingers.
HandleFrameDead(e, x, f) ==
  IF f.typ = "rst" THEN x
  ELSE IF x.c.life = "aborted" THEN [x EXCEPT !.out = @ \cup {RstFrame}]
  ELSE IF f.typ # "ack" \/ f.probe
    THEN [x EXCEPT !.out = @ \cup {AckFrame(e, x.r, FALSE, FALSE)}, !.r = FillAck(e, @)]
  ELSE x

\* handleFrame on a live stream: the ACK first, then the segment, then the probe.
TakeAck(e, x, f, aged) ==
  IF FastRetransmits(x.s, f, aged)
  THEN [x EXCEPT !.s = ProcessAck(@, f), !.r = FillAck(e, @),
                 !.out = @ \cup {SegFrame(e, x.r, First(ProcessAck(x.s, f).unacked))}]
  ELSE [x EXCEPT !.s = ProcessAck(@, f)]

\* The first OPEN makes tcp_forward dial the target.
Dials(e, x, f) ==
  e = "server" /\ ~x.c.opened /\ f.typ = "open" /\ f.seq = x.r.rcvNxt

TakeSegment(e, x, f) ==
  IF f.typ \notin SegTypes THEN x
  ELSE LET p == ProcessSegment(e, x.r, f)
       IN [x EXCEPT !.r = p.r, !.out = @ \cup p.out,
                    !.c = IF Dials(e, x, f)
                          THEN [@ EXCEPT !.opened = TRUE, !.conn = "dialing"] ELSE @]

TakeProbe(e, x, f) ==
  IF f.probe /\ x.out = {}
  THEN [x EXCEPT !.r = FillAck(e, @), !.out = {AckFrame(e, x.r, FALSE, FALSE)}]
  ELSE x

Heard(x) == [x EXCEPT !.c.heardStale = FALSE]

HandleFrame(e, x, f, aged) ==
  IF x.c.life # "alive" THEN HandleFrameDead(e, x, f)
  ELSE IF f.typ = "rst" THEN Abort(Heard(x), FALSE)
  ELSE MaybeFinish(TakeProbe(e, TakeSegment(e, TakeAck(e, Heard(x), f, aged), f), f))

Stream(e) == [c |-> ctl[e], s |-> snd[e], r |-> rcv[e], out |-> {}]

\* Stores the parts of e's stream at the end of a critical section.
Store(e, x) ==
  /\ ctl' = [ctl EXCEPT ![e] = x.c]
  /\ snd' = [snd EXCEPT ![e] = x.s]
  /\ rcv' = [rcv EXCEPT ![e] = x.r]

\* unlockAndFlush: stores e's stream and sends what was queued.
Flush(e, x) == Store(e, x) /\ Send(e, x.out)

-----------------------------------------------------------------------------
(* Frames reach an endpoint: handlePacket.  A frame that is delivered      *)
(* stays in flight, for a duplicate may come later, until it leaves the    *)
(* line: Leave covers both its consumption and its loss.                   *)

\* The stream is known: its handleFrame runs.  aged tells the cases of
\* FastRetransmits apart, and nothing else.
DeliverKnown(e, f, aged) ==
  /\ Known(e)
  /\ aged => FastRetransmits(snd[e], f, TRUE)
  /\ Flush(e, HandleFrame(e, Stream(e), f, aged))
  /\ UNCHANGED <<pend, stopped, taken, batch, written>>

\* An unknown stream that may not be created is reset; an RST is ignored.
DeliverUnknown(e, f) ==
  /\ ~Known(e)
  /\ f.typ = "ack" \/ (f.typ # "rst" /\ (e = "client" \/ stopped))
  /\ Send(e, {RstFrame})
  /\ UNCHANGED <<ctl, snd, rcv, pend, stopped, taken, batch, written>>

\* handlePacket passed the stopped check and is about to create the stream.
DeliverNew(f) ==
  /\ ~Known("server") /\ ~stopped
  /\ f.typ \in SegTypes
  /\ Cardinality(pend) < MaxPend
  /\ pend' = pend \cup {f}
  /\ UNCHANGED <<ctl, snd, rcv, net, stopped, taken, batch, written>>

\* LoadOrStore: the first creator stores its stream, the others use it.
CreateStream(f, aged) ==
  /\ pend' = pend \ {f}
  /\ \/ /\ Known("server")
        /\ Flush("server", HandleFrame("server", Stream("server"), f, aged))
        /\ UNCHANGED conns
     \/ /\ ~Known("server")
        /\ ctl["server"].src < MaxStreams
        /\ Flush("server",
                 HandleFrame("server",
                             [c |-> NewCtl(ctl["server"].src + 1, "none"),
                              s |-> NewSnd, r |-> NewRcv, out |-> {}],
                             f, aged))
        /\ taken' = [taken EXCEPT !["server"] = 0]
        /\ batch' = [batch EXCEPT !["server"] = <<>>]
        /\ written' = [written EXCEPT !["server"] = <<>>]
  /\ UNCHANGED stopped

Deliver(e, f) ==
  \/ \E aged \in BOOLEAN : DeliverKnown(e, f, aged)
  \/ DeliverUnknown(e, f)
  \/ e = "server" /\ DeliverNew(f)

\* f leaves the line towards e.
Leave(e, f) ==
  /\ net' = [net EXCEPT ![e] = @ \ {f}]
  /\ UNCHANGED <<ctl, snd, rcv, pend, stopped, taken, batch, written>>

-----------------------------------------------------------------------------
(* The endpoints' own calls and the goroutines of a stream.                *)

\* readLoop up to its next blocking point: with room in the peer's window it reads
\* from conn, else it arms the probe timer and waits for sendCh.
ReadTop(x) ==
  LET space == x.s.sndRight - x.s.sndNxt
  IN IF space >= Mss \/ (space > 0 /\ x.s.unacked = {})
     THEN [x EXCEPT !.c = [@ EXCEPT !.rd = "read", !.rdMax = Smaller(space, Mss)]]
     ELSE [x EXCEPT !.c.rd = "wait", !.s = ArmTimerIfOff(@)]

\* startLocked: readLoop and writeLoop begin on an established connection;
\* writeLoop finds what is queued already.
StartLoops(x) ==
  ReadTop([x EXCEPT !.c = [@ EXCEPT !.conn = "up", !.wr = "wait"], !.r.writeCh = TRUE])

\* open: tcp_listen accepted a connection; the OPEN is the first segment.
Open ==
  /\ ctl["client"].life = "none"
  /\ LET g == NewSegment(NewSnd, "open", 1, 0, 1)
         x == [c |-> NewCtl(1, "none"), s |-> QueueSegment(NewSnd, g),
               r |-> FillAck("client", NewRcv), out |-> {SegFrame("client", NewRcv, g)}]
     IN Flush("client", StartLoops(x))
  /\ UNCHANGED <<pend, stopped, taken, batch, written>>

\* dial on tcp_forward: refused, or connected to a stream that may be dead by now.
DialFail ==
  /\ MayFail /\ ctl["server"].conn = "dialing"
  /\ Flush("server", Abort([Stream("server") EXCEPT !.c.conn = "none"], TRUE))
  /\ UNCHANGED <<pend, stopped, taken, batch, written>>

DialDone ==
  /\ ctl["server"].conn = "dialing"
  /\ LET x == Stream("server")
     IN Store("server", IF Alive("server") THEN StartLoops(x)
                        ELSE [x EXCEPT !.c.conn = "none"])
  /\ UNCHANGED <<net, pend, stopped, taken, batch, written>>

\* sendCh wakes readLoop.
ReadWake(e) ==
  /\ Alive(e) /\ ctl[e].rd = "wait" /\ snd[e].sendCh
  /\ Store(e, ReadTop([Stream(e) EXCEPT !.s.sendCh = FALSE]))
  /\ UNCHANGED <<net, pend, stopped, taken, batch, written>>

\* The stream of e after readLoop queued segment g.
Queued(e, g) ==
  [Stream(e) EXCEPT !.s = QueueSegment(@, g), !.r = FillAck(e, @),
                    !.out = {SegFrame(e, rcv[e], g)}]

\* conn.Read returned n bytes.
ReadData(e, n) ==
  /\ Alive(e) /\ ctl[e].rd = "read"
  /\ n <= ctl[e].rdMax /\ taken[e] + n <= AppBytes[e]
  /\ LET g == NewSegment(snd[e], "data", n, taken[e] + 1, ctl[e].src)
     IN Flush(e, ReadTop(Queued(e, g)))
  /\ taken' = [taken EXCEPT ![e] = @ + n]
  /\ UNCHANGED <<pend, stopped, batch, written>>

\* conn.Read returned io.EOF: the FIN, which needs no room in the window.
ReadEOF(e) ==
  /\ e \in Closes /\ Alive(e) /\ ctl[e].rd = "read"
  /\ LET g == NewSegment(snd[e], "fin", 1, 0, ctl[e].src)
     IN Flush(e, MaybeFinish([Queued(e, g) EXCEPT !.c.rd = "off"]))
  /\ UNCHANGED <<pend, stopped, taken, batch, written>>

\* conn.Read or bufs.WriteTo failed.
ConnError(e) ==
  /\ MayFail
  /\ ctl[e].rd = "read" \/ ctl[e].wr = "write"
  /\ Flush(e, [Abort(Stream(e), TRUE) EXCEPT !.c.wr = "off"])
  /\ batch' = [batch EXCEPT ![e] = <<>>]
  /\ UNCHANGED <<pend, stopped, taken, written>>

\* Mutants of WriteTop: the queue stays queued while it is written, or the FIN
\* overtakes the bytes that wait before it.
WriteKeepingQueue(x) ==
  [x EXCEPT !.c.wr = IF x.c.life # "alive" THEN "off"
                     ELSE IF x.r.rcvQueue # <<>> THEN "write"
                     ELSE IF x.r.rcvFin THEN "close" ELSE "wait"]

CloseBeforeWriting(x) ==
  [x EXCEPT !.r.rcvQueue = <<>>,
            !.c.wr = IF x.c.life # "alive" THEN "off"
                     ELSE IF x.r.rcvFin THEN "close"
                     ELSE IF x.r.rcvQueue # <<>> THEN "write" ELSE "wait"]

\* writeLoop up to its next blocking point: takes the whole queue and writes it,
\* closes the write side after the FIN, or waits for writeCh.
WriteTop(x) ==
  [x EXCEPT !.r.rcvQueue = <<>>,
            !.c.wr = IF x.c.life # "alive" THEN "off"
                     ELSE IF x.r.rcvQueue # <<>> THEN "write"
                     ELSE IF x.r.rcvFin THEN "close" ELSE "wait"]

\* writeCh wakes writeLoop.
WriteWake(e) ==
  /\ Alive(e) /\ ctl[e].wr = "wait" /\ rcv[e].writeCh
  /\ Store(e, WriteTop([Stream(e) EXCEPT !.r.writeCh = FALSE]))
  /\ batch' = [batch EXCEPT ![e] = rcv[e].rcvQueue]
  /\ UNCHANGED <<net, pend, stopped, taken, written>>

\* bufs.WriteTo returned: the window opens, and the sender is told once it has
\* opened by a quarter, even if the stream was aborted meanwhile.
WriteDone(e) ==
  /\ ctl[e].wr = "write"
  /\ LET r == [rcv[e] EXCEPT !.rcvQueued = @ - Len(batch[e])]
         tell == r.rcvNxt + Free(e, r) >= r.advRight + Window[e] \div 4
         x == [Stream(e) EXCEPT
                 !.r = IF tell THEN FillAck(e, r) ELSE r,
                 !.out = IF tell THEN {AckFrame(e, r, FALSE, FALSE)} ELSE {}]
     IN Flush(e, WriteTop(x))
  /\ written' = [written EXCEPT ![e] = @ \o batch[e]]
  /\ batch' = [batch EXCEPT ![e] = rcv[e].rcvQueue]
  /\ UNCHANGED <<pend, stopped, taken>>

\* closeWrite returned: the local application sees the end of the stream.
CloseWriteDone(e) ==
  /\ Alive(e) /\ ctl[e].wr = "close"
  /\ Flush(e, MaybeFinish([Stream(e) EXCEPT !.c.wr = "off", !.r.finWritten = TRUE]))
  /\ UNCHANGED <<pend, stopped, taken, batch, written>>

-----------------------------------------------------------------------------
(* Timers.                                                                 *)

\* The runtime starts the callback of the retransmission timer; it may reach
\* the lock only after the timer was stopped or reset.
Expire(e) ==
  /\ snd[e].running /\ ~snd[e].late
  /\ snd' = [snd EXCEPT ![e].running = FALSE, ![e].late = TRUE]
  /\ UNCHANGED <<ctl, rcv, net, pend, stopped, taken, batch, written>>

\* Mutants of TimerFired: the backoff is not capped, or the timer not set again.
TimerFiredUncapped(e, x) ==
  [x EXCEPT !.s = ArmTimer([@ EXCEPT !.backoff = @ + 1]), !.r = FillAck(e, @),
            !.out = {SegFrame(e, x.r, g) : g \in x.s.unacked}]

TimerFiredOnce(e, x) ==
  [x EXCEPT !.s.backoff = Smaller(@ + 1, MaxBackoff), !.r = FillAck(e, @),
            !.out = {SegFrame(e, x.r, g) : g \in x.s.unacked}]

\* The live stream x of e after onTimer: reset, retransmission or window probe.
TimerFired(e, x) ==
  LET s == [x.s EXCEPT !.backoff = Smaller(@ + 1, MaxBackoff)]
      resent == {SegFrame(e, x.r, g) : g \in x.s.unacked}
  IN IF x.s.unacked # {} /\ x.s.stale THEN Abort(x, TRUE)
     ELSE IF x.s.unacked = {} /\ x.c.heardStale THEN Abort(x, TRUE)
     ELSE [x EXCEPT !.s = ArmTimer(s), !.r = FillAck(e, @),
                    !.out = IF x.s.unacked # {} THEN resent
                            ELSE {AckFrame(e, x.r, TRUE, FALSE)}]

OnTimer(e) ==
  /\ Alive(e) /\ snd[e].late
  /\ Flush(e, TimerFired(e, [Stream(e) EXCEPT !.s = [@ EXCEPT !.late = FALSE, !.timerArmed = FALSE]]))
  /\ UNCHANGED <<pend, stopped, taken, batch, written>>

\* A callback that comes late finds a newer delayed ACK, which it sends early, or
\* none: it does what this action does, or nothing.
OnAckTimer(e) ==
  /\ rcv[e].ackTimerSet
  /\ LET x == [Stream(e) EXCEPT !.r.ackTimerSet = FALSE]
     IN Flush(e, IF rcv[e].ackPending > 0
                 THEN [x EXCEPT !.r = FillAck(e, @), !.out = {AckFrame(e, x.r, FALSE, FALSE)}]
                 ELSE x)
  /\ UNCHANGED <<pend, stopped, taken, batch, written>>

\* OpenTimeout after its creation a server stream still has no OPEN.
CheckOpened ==
  /\ MayLinger /\ Alive("server") /\ ~ctl["server"].opened
  /\ Flush("server", Abort(Stream("server"), TRUE))
  /\ UNCHANGED <<pend, stopped, taken, batch, written>>

\* More than the configured timeout passes at e without an acknowledged segment
\* (lastProgress) and without a frame (lastHeard).  A running timer has fired
\* often enough by then to reach the backoff's cap.
TimePasses(e) ==
  /\ MayIdle /\ Alive(e)
  /\ snd[e].running \/ snd[e].late => snd[e].backoff = MaxBackoff
  /\ snd' = [snd EXCEPT ![e].stale = TRUE]
  /\ ctl' = [ctl EXCEPT ![e].heardStale = TRUE]
  /\ UNCHANGED <<rcv, net, pend, stopped, taken, batch, written>>

\* Linger after its end a stream is forgotten.  No frame stays in flight, no
\* creator, dial or write stays pending, for that long.
LingerExpire(e) ==
  /\ MayLinger /\ ctl[e].life \in {"finished", "aborted"}
  /\ net = [d \in Ends |-> {}] /\ pend = {}
  /\ ctl[e].conn # "dialing" /\ ctl[e].wr = "off"
  /\ ctl' = [ctl EXCEPT ![e].life = "gone"]
  /\ UNCHANGED <<snd, rcv, net, pend, stopped, taken, batch, written>>

\* stop: the endpoint resets its streams, and tcp_forward creates no more.
Stop(e) ==
  /\ MayFail
  /\ IF e = "server" THEN ~stopped ELSE Alive(e)
  /\ stopped' = (stopped \/ e = "server")
  /\ Flush(e, Abort(Stream(e), TRUE))
  /\ UNCHANGED <<pend, taken, batch, written>>

-----------------------------------------------------------------------------
Network == \E e \in Ends : \E f \in net[e] : Deliver(e, f) \/ Leave(e, f)

Loops(e) ==
  \/ ReadWake(e) \/ ReadEOF(e) \/ (\E n \in 1 .. Mss : ReadData(e, n))
  \/ WriteWake(e) \/ WriteDone(e) \/ CloseWriteDone(e) \/ ConnError(e)

Timers(e) ==
  \/ Expire(e) \/ OnTimer(e) \/ OnAckTimer(e)
  \/ TimePasses(e) \/ LingerExpire(e)

Next ==
  \/ Open \/ DialFail \/ DialDone \/ CheckOpened
  \/ Network
  \/ \E f \in pend, aged \in BOOLEAN : CreateStream(f, aged)
  \/ \E e \in Ends : Loops(e) \/ Timers(e) \/ Stop(e)

Spec == Init /\ [][Next]_vars

(***************************************************************************)
(* Fairness.  The goroutines and timers run, and connections make          *)
(* progress.  Lines lose frames, but not every copy of one that is sent    *)
(* again and again: if the sender's oldest unacknowledged segment or its   *)
(* up-to-date ACK (FairSpec), or an RST (FairResetSpec) is in flight       *)
(* infinitely often, it is delivered.  Faults, losses and idle time are    *)
(* never forced.                                                           *)
(***************************************************************************)
UpToDate(e, f) ==
  f.ack = rcv[Peer(e)].rcvNxt /\ f.wnd = Free(Peer(e), rcv[Peer(e)])

OldestTo(e) ==
  {f \in net[e] : f.typ \in SegTypes /\ f.seq = snd[Peer(e)].sndUna /\ UpToDate(e, f)}
AcksTo(e) == {f \in net[e] : f.typ = "ack" /\ UpToDate(e, f)}
RstsTo(e) == {f \in net[e] : f.typ = "rst"}

DeliverOldest(e) == \E f \in OldestTo(e) : Deliver(e, f)
DeliverAck(e) == \E f \in AcksTo(e) : Deliver(e, f)
DeliverRst(e) == \E f \in RstsTo(e) : Deliver(e, f)

\* Delivering f to e changes something: ENABLED <<Deliver(e, f)>>_vars.
Effective(e, f) ==
  LET x == HandleFrame(e, Stream(e), f, FALSE)
      creates == e = "server" /\ ~stopped /\ f.typ \in SegTypes
  IN IF Known(e)
     THEN [x EXCEPT !.out = {}] # Stream(e) \/ Carried(Peer(e), x.out) # net[Peer(e)]
     ELSE IF creates THEN f \notin pend /\ Cardinality(pend) < MaxPend
     ELSE f.typ # "rst" /\ RstFrame \notin net[Peer(e)]

\* Strong fairness of the deliveries, their enabling conditions spelled out.
LineFairness(e) ==
  /\ []<>(\E f \in OldestTo(e) : Effective(e, f)) => []<><<DeliverOldest(e)>>_vars
  /\ []<>(\E f \in AcksTo(e) : Effective(e, f)) => []<><<DeliverAck(e)>>_vars

FairSpec ==
  /\ Spec
  /\ WF_vars(Open \/ DialDone \/ \E f \in pend, aged \in BOOLEAN : CreateStream(f, aged))
  /\ \A e \in Ends :
       /\ WF_vars(ReadWake(e) \/ ReadEOF(e) \/ \E n \in 1 .. Mss : ReadData(e, n))
       /\ WF_vars(WriteWake(e) \/ WriteDone(e) \/ CloseWriteDone(e))
       /\ WF_vars(Expire(e) \/ OnTimer(e)) /\ WF_vars(OnAckTimer(e))
       /\ LineFairness(e)

FairResetSpec ==
  /\ FairSpec
  /\ \A e \in Ends :
       []<>(\E f \in RstsTo(e) : Effective(e, f)) => []<><<DeliverRst(e)>>_vars

-----------------------------------------------------------------------------
(* Properties.                                                             *)

Lives == {"none", "alive", "finished", "aborted", "gone"}

CtlType ==
  [life : Lives, opened : BOOLEAN, conn : {"none", "dialing", "up"}, src : Nat,
   heardStale : BOOLEAN, rd : {"off", "wait", "read"}, rdMax : Nat,
   wr : {"off", "wait", "write", "close"}]

SndType ==
  [sndUna : Nat, sndNxt : Nat, sndRight : Nat, unacked : SUBSET Segment,
   finQueued : BOOLEAN, backoff : 0 .. MaxBackoff, dupAcks : 0 .. DupThresh + 1,
   recover : Nat, stale : BOOLEAN, timerArmed : BOOLEAN, running : BOOLEAN,
   late : BOOLEAN, sendCh : BOOLEAN]

RcvType ==
  [rcvNxt : Nat, ooo : SUBSET Segment, rcvQueue : Seq(Bytes), rcvQueued : Int,
   rcvFin : BOOLEAN, finWritten : BOOLEAN, advRight : Nat, ackPending : {0, 1},
   ackTimerSet : BOOLEAN, writeCh : BOOLEAN]

\* Every variable keeps its type; in particular at most one frame is ever left
\* unacknowledged by the delayed ACK, and the backoff stays under its cap.
TypeOK ==
  /\ ctl \in [Ends -> CtlType]
  /\ snd \in [Ends -> SndType]
  /\ rcv \in [Ends -> RcvType]
  /\ net \in [Ends -> SUBSET Frame]
  /\ pend \in SUBSET Frame
  /\ stopped \in BOOLEAN
  /\ taken \in [Ends -> Nat]
  /\ batch \in [Ends -> Seq(Bytes)]
  /\ written \in [Ends -> Seq(Bytes)]

Received(e) == written[e] \o batch[e] \o rcv[e].rcvQueue

\* The server stream is the first one, or one that this client's OPEN reached.
Paired == ctl["server"].src <= 1 \/ ctl["server"].opened

\* The receiver drops duplicates and reorders: what was written, is being written
\* and waits to be written to a connection is the peer connection's bytes
\* 1, 2, 3... without a gap, a repetition or bytes of another connection.
InOrderExactlyOnce ==
  \A e \in Ends : LET w == Received(e) IN
    \E k \in 0 .. MaxStreams : \A i \in 1 .. Len(w) : w[i] = <<k, i>>

\* The sender forgets a segment only when the peer holds it, and the peer never
\* acknowledges what was not sent.
AckedIsReceived ==
  \A e \in Ends :
    Paired /\ Alive(e) /\ Alive(Peer(e)) =>
      /\ snd[e].sndUna <= rcv[Peer(e)].rcvNxt
      /\ rcv[Peer(e)].rcvNxt <= snd[e].sndNxt

\* Payload bytes a stream holds in memory for its connection.
Buffered(e) ==
  rcv[e].rcvQueued
    + Cardinality({q \in 0 .. snd[Peer(e)].sndNxt :
                     \E g \in rcv[e].ooo : g.typ = "data" /\ g.seq <= q /\ q < SegEnd(g)})

\* "A per-stream window bounds the bytes in flight and buffered"
\* (tcp_stream.go:22): no more bytes wait at a receiver than its window.
BufferedWithinWindow == \A e \in Ends : Alive(e) => Buffered(e) <= Window[e]

\* onTimer will run: its timer does, or its callback waits for the lock.
TimerDue(s) == s.running \/ s.late

\* No goroutine of a live stream sleeps without something that will wake it:
\* unacknowledged data has a timer that really runs, whatever callbacks came late,
\* a blocked reader a timer or a signal, a delayed ACK its timer, a writer with
\* work a signal.
NoLostWakeup ==
  \A e \in Ends : Alive(e) =>
    /\ snd[e].unacked # {} => TimerDue(snd[e])
    /\ ctl[e].rd = "wait" => TimerDue(snd[e]) \/ snd[e].sendCh
    /\ rcv[e].ackPending > 0 => rcv[e].ackTimerSet
    /\ ctl[e].wr = "wait" /\ (rcv[e].rcvQueue # <<>> \/ rcv[e].rcvFin) => rcv[e].writeCh

\* A connection sees the end of the stream only after the peer's connection
\* ended and all its bytes were written: a reset is never shown as an EOF.
EOFIsComplete ==
  \A e \in Ends :
    Paired /\ (ctl[e].wr = "close" \/ rcv[e].finWritten) =>
      snd[Peer(e)].finQueued /\ Len(written[e]) = taken[Peer(e)]

\* A stream that finished gracefully has delivered all it read, FIN included.
FinishedIsDelivered ==
  \A e \in Ends :
    Paired /\ ctl[e].life = "finished" => rcv[Peer(e)].rcvNxt = snd[e].sndNxt

\* "reset the connection when unacknowledged data makes no progress for this many
\* seconds" (docs/tcp_listen_en.md, timeout): onTimer never resets a stream over
\* segments it has not retransmitted once.
ResetOnlyAfterRetransmitting ==
  [][\A e \in Ends :
       OnTimer(e) /\ ctl'[e].life = "aborted" /\ snd[e].unacked # {} =>
         snd[e].backoff > 0]_vars

\* Retransmission, window probes and wake-ups carry every byte through: all that
\* one connection offers is eventually written to the other.
EventuallyWritten ==
  <>(\A e \in Ends : Len(written[Peer(e)]) = AppBytes[e])

\* Once both connections have ended, both ends close gracefully, whichever of the
\* last FINs and ACKs are lost.
EventuallyFinished ==
  (\A e \in Ends : snd[e].finQueued) ~> (\A e \in Ends : ctl[e].life = "finished")

\* "every frame is sequenced ... the sender retransmits what is not acknowledged"
\* (tcp_stream.go:20): an end that reset the stream gets the other end to end it too.
ResetReachesPeer ==
  \A e \in Ends : (ctl[e].life = "aborted") ~> ~Alive(Peer(e))
=============================================================================
