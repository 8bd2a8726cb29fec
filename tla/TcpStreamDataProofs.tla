------------------------- MODULE TcpStreamDataProofs -------------------------
(***************************************************************************)
(* What TcpStream's receivers get, for every size of windows, segments and *)
(* inputs: bytes in order and once, acknowledgements that are true, buffers *)
(* within their window, an EOF only after all bytes.                       *)
(*                                                                         *)
(* Each end is described by its view: what it has sent so far and how far  *)
(* it has received.  A receiver is compared with the view P of its peer.   *)
(* Views only grow, so what fits a view keeps fitting it.  P is the view   *)
(* of the peer's stream as it is now, but for one case (Cut): a server     *)
(* stream that was created again without the client's OPEN sends nothing,  *)
(* and the client still holds what an earlier one sent.                    *)
(***************************************************************************)
EXTENDS TcpStreamProofs, FiniteSetTheorems

\* No end assumes more of its peer's window than the peer has (tcpStreamInitWindow).
Wide == \A e \in Ends : InitWindow <= Window[e]

\* The position of the first payload byte: the client's OPEN takes position 0.
Base(e) == IF e = "client" THEN 1 ELSE 0

\* What end e with stream x has sent and received after it read t bytes: nxt and
\* last are the positions after its last segment and its last payload byte, edge
\* the right edge of its receive window.
ViewOf(e, x, t) ==
  [src |-> IF e = "client" THEN 1 ELSE x.c.src, nxt |-> x.s.sndNxt,
   last |-> Base(e) + t, fin |-> x.s.finQueued, rcv |-> x.r.rcvNxt,
   edge |-> x.r.rcvNxt + (Window[e] - x.r.rcvQueued)]

View(e) == ViewOf(e, Stream(e), taken[e])

ViewType ==
  [src : Nat, nxt : Nat, last : Nat, fin : BOOLEAN, rcv : Nat, edge : Int]

ViewOK(e, V) ==
  /\ V \in ViewType
  /\ Base(e) <= V.last /\ Window[e] <= V.edge
  /\ V.fin => V.nxt = V.last + 1
  /\ ~V.fin => V.nxt <= V.last

\* A stream of end e went on from view V to view W.
Grows(V, W) ==
  /\ W.src = V.src /\ V.nxt <= W.nxt /\ V.last <= W.last
  /\ V.rcv <= W.rcv /\ V.edge <= W.edge
  /\ V.fin => W.fin /\ W.nxt = V.nxt /\ W.last = V.last

\* Segment g is one that end e with view V sent.
IsSegOf(e, V, g) ==
  /\ g.src = V.src /\ SegEnd(g) <= V.nxt
  /\ \/ g.typ = "open" /\ e = "client" /\ g.seq = 0 /\ g.len = 1
     \/ /\ g.typ = "data" /\ Base(e) <= g.seq /\ SegEnd(g) <= V.last
        /\ g.lo = (g.seq - Base(e)) + 1
     \/ g.typ = "fin" /\ V.fin /\ g.seq = V.last /\ g.len = 1

\* Frame f is one that end e with view V may have sent: it acknowledges what e
\* holds, grants what e has room for, and carries a segment of e.
FrameFits(e, V, f) ==
  /\ f.ack <= V.rcv /\ f.wnd <= Window[e]
  /\ Wide => f.ack + f.wnd <= V.edge
  /\ f.typ \in SegTypes => IsSegOf(e, V, SegOf(f)) /\ (e = "server" => 1 <= f.ack)

\* The send side of end e: everything before sndNxt is the OPEN, the bytes read so
\* far and the FIN, and the segments not acknowledged are segments of that.
SndOK(e, x, t) ==
  /\ x.s.finQueued => x.s.sndNxt = Base(e) + t + 1
  /\ ~x.s.finQueued => x.s.sndNxt <= Base(e) + t
  /\ x.c.life = "alive" /\ ~x.s.finQueued => x.s.sndNxt = Base(e) + t
  /\ x.s.sndUna <= x.s.sndNxt
  /\ \A g \in x.s.unacked : IsSegOf(e, ViewOf(e, x, t), g) /\ x.s.sndUna < SegEnd(g)
  /\ x.c.life = "finished" => x.s.sndUna = x.s.sndNxt
  /\ x.c.life # "none" => 1 <= x.c.src /\ (e = "client" => x.c.src = 1)

\* How far e may send to a peer with view P: an acknowledgement that counts also
\* tells the window, so before the first one it is the peer's whole window.
Right(e, x, P) == IF x.s.sndUna = 0 THEN Window[Peer(e)] ELSE P.edge

\* What e has sent, may send and is about to read lies within the peer's window.
SndWindow(e, x, t, P) ==
  /\ Wide => /\ Base(e) + t <= Right(e, x, P)
             /\ x.c.life = "alive" => x.s.sndRight <= Right(e, x, P)
  /\ x.c.life = "alive" /\ x.c.rd = "read" => x.s.sndNxt + x.c.rdMax <= x.s.sndRight

\* q is a run of the bytes of connection k that follow the first n.
Run(q, k, n) == \A i \in 1 .. Len(q) : q[i] = <<k, n + i>>

\* The payload bytes that a receiver of what end d sends has taken in order.
Passed(d, r) == Larger(r.rcvNxt - Base(d) - (IF r.rcvFin THEN 1 ELSE 0), 0)

\* The receive side r of a stream that gets what end d with view P sends, w written
\* and b being written to its connection.
RcvData(d, r, w, b, P) ==
  /\ r.rcvNxt <= P.nxt
  /\ \A g \in r.ooo : IsSegOf(d, P, g)
  /\ Run(w, P.src, 0) /\ Run(b, P.src, Len(w))
  /\ Run(r.rcvQueue, P.src, Len(w) + Len(b))
  /\ Len(w) + Len(b) + Len(r.rcvQueue) <= Passed(d, r)
  /\ r.rcvFin => P.fin /\ r.rcvNxt = P.nxt
  /\ ~r.rcvFin => r.rcvNxt <= P.last

\* While the stream lives nothing that was taken is missing.
Complete(d, r, w, b) == Len(w) + Len(b) + Len(r.rcvQueue) = Passed(d, r)

\* rcvQueued counts at least what is queued, and never more than the window.
RcvCount(e, r, b) ==
  /\ Len(b) + Len(r.rcvQueue) <= r.rcvQueued /\ r.rcvQueued <= r.rcvNxt
  /\ Wide => r.rcvQueued <= Window[e]

\* A stream closes its connection's write side when it has written everything.
CloseOK(d, c, r, w, b, P) ==
  /\ c.wr # "write" => b = <<>>
  /\ c.wr = "close" \/ r.finWritten =>
       r.rcvFin /\ r.rcvQueue = <<>> /\ b = <<>> /\ Len(w) = P.last - Base(d)

RcvOK(e, x, w, b, P) ==
  /\ RcvData(Peer(e), x.r, w, b, P)
  /\ x.c.life = "alive" => Complete(Peer(e), x.r, w, b)
  /\ RcvCount(e, x.r, b)
  /\ CloseOK(Peer(e), x.c, x.r, w, b, P)

\* tcp_forward takes and sends nothing before the OPEN.
OpenFirst(e, x) ==
  e = "server" =>
    /\ x.c.opened => 1 <= x.r.rcvNxt /\ 1 <= x.c.src
    /\ ~x.c.opened => x.r.rcvNxt = 0 /\ x.s.sndNxt = 0

-----------------------------------------------------------------------------
(* Views, segments and runs.                                               *)

\* The ends.
LEMMA PeerIsEnd ==
  ASSUME NEW e \in Ends
  PROVE  Peer(e) \in Ends /\ Peer(Peer(e)) = e /\ Peer(e) # e
  BY DEF Ends, Peer

\* A segment stays one of its sender's.
LEMMA SegGrows ==
  ASSUME NEW e \in Ends, NEW V \in ViewType, NEW W \in ViewType, Grows(V, W),
         NEW g \in Segment, IsSegOf(e, V, g)
  PROVE  IsSegOf(e, W, g)
<1>1. SegEnd(g) \in Nat /\ g.seq \in Nat
  BY DEF SegEnd, Segment
<1>2. V.nxt \in Nat /\ W.nxt \in Nat /\ V.last \in Nat /\ W.last \in Nat
  BY DEF ViewType
<1>3. SegEnd(g) <= W.nxt /\ g.src = W.src
  BY <1>1, <1>2 DEF IsSegOf, Grows
<1>4. g.typ = "data" /\ SegEnd(g) <= V.last => SegEnd(g) <= W.last
  BY <1>1, <1>2 DEF Grows
<1>5. g.typ = "fin" /\ V.fin /\ g.seq = V.last => W.fin /\ g.seq = W.last
  BY DEF Grows
<1>6. QED
  BY <1>3, <1>4, <1>5, Zenon DEF IsSegOf

\* A frame stays one its sender may have sent.
LEMMA FitsGrows ==
  ASSUME NEW e \in Ends, NEW V \in ViewType, NEW W \in ViewType, Grows(V, W),
         NEW f \in Frame, FrameFits(e, V, f)
  PROVE  FrameFits(e, W, f)
<1>1. f.ack \in Nat /\ f.wnd \in Nat
  BY FrameFields
<1>2. V.rcv \in Nat /\ W.rcv \in Nat /\ V.edge \in Int /\ W.edge \in Int
  BY DEF ViewType
<1>3. f.ack <= W.rcv /\ f.wnd <= Window[e]
  BY <1>1, <1>2 DEF FrameFits, Grows
<1>4. Wide => f.ack + f.wnd <= W.edge
  <2>1. V.edge <= W.edge
    BY DEF Grows
  <2>2. Wide => f.ack + f.wnd <= V.edge
    BY Zenon DEF FrameFits
  <2>3. QED
    BY <1>1, <1>2, <2>1, <2>2
<1>5. f.typ \in SegTypes => IsSegOf(e, W, SegOf(f))
  BY SegOfTyped, SegGrows, Zenon DEF FrameFits
<1>6. QED
  BY <1>3, <1>4, <1>5, Zenon DEF FrameFits

\* What a receiver has fits the grown view too.
LEMMA RcvGrows ==
  ASSUME NEW e \in Ends, NEW x, x.r \in RcvType, NEW w, NEW b,
         NEW V, NEW W, ViewOK(Peer(e), V), ViewOK(Peer(e), W), Grows(V, W),
         RcvOK(e, x, w, b, V)
  PROVE  RcvOK(e, x, w, b, W)
<1> DEFINE d == Peer(e)
           r == x.r
<1>1. d \in Ends /\ V \in ViewType /\ W \in ViewType /\ r.rcvNxt \in Nat
      /\ r.ooo \in SUBSET Segment
  BY PeerIsEnd DEF ViewOK, RcvType
<1>2. RcvData(d, r, w, b, V) /\ CloseOK(d, x.c, r, w, b, V)
  BY DEF RcvOK
<1> HIDE DEF d, r
<1>3. \A g \in r.ooo : IsSegOf(d, W, g)
  BY <1>1, <1>2, SegGrows DEF RcvData
<1>4. /\ r.rcvNxt <= W.nxt /\ W.src = V.src
      /\ r.rcvFin => W.fin /\ r.rcvNxt = W.nxt
      /\ ~r.rcvFin => r.rcvNxt <= W.last
      /\ r.rcvFin => W.last = V.last
  BY <1>1, <1>2 DEF RcvData, Grows, ViewType
<1>5. RcvData(d, r, w, b, W)
  BY <1>2, <1>3, <1>4, Zenon DEF RcvData
<1>6. CloseOK(d, x.c, r, w, b, W)
  BY <1>2, <1>4, Zenon DEF CloseOK
<1>7. QED
  BY <1>5, <1>6, Zenon DEF RcvOK, d, r

\* Two runs, one after the other, are a run.
LEMMA RunAppend ==
  ASSUME NEW p \in Seq(Bytes), NEW q \in Seq(Bytes), NEW k, NEW n \in Nat,
         Run(p, k, n), Run(q, k, n + Len(p))
  PROVE  /\ p \o q \in Seq(Bytes) /\ Len(p \o q) = Len(p) + Len(q)
         /\ Run(p \o q, k, n)
<1>1. p \o q \in Seq(Bytes) /\ Len(p \o q) = Len(p) + Len(q)
  OBVIOUS
<1>2. ASSUME NEW i \in 1 .. Len(p \o q) PROVE (p \o q)[i] = <<k, n + i>>
  <2>1. CASE i <= Len(p)
    <3>1. (p \o q)[i] = p[i] /\ i \in 1 .. Len(p)
      BY <2>1, <1>1
    <3>2. QED
      BY <3>1 DEF Run
  <2>2. CASE ~(i <= Len(p))
    <3>1. (p \o q)[i] = q[i - Len(p)] /\ i - Len(p) \in 1 .. Len(q)
      BY <2>2, <1>1
    <3>2. q[i - Len(p)] = <<k, (n + Len(p)) + (i - Len(p))>>
      BY <3>1 DEF Run
    <3>3. (n + Len(p)) + (i - Len(p)) = n + i
      BY <1>1
    <3>4. QED
      BY <3>1, <3>2, <3>3
  <2>3. QED
    BY <2>1, <2>2
<1>3. QED
  BY <1>1, <1>2 DEF Run

-----------------------------------------------------------------------------
(* Taking segments.                                                        *)

\* What a segment of end e holds at position q.
LEMMA SegAt ==
  ASSUME NEW e \in Ends, NEW V, ViewOK(e, V),
         NEW g \in Segment, IsSegOf(e, V, g), NEW q \in Nat, Covers(g, q)
  PROVE  /\ q < V.nxt
         /\ g.typ = "open" => e = "client" /\ q = 0
         /\ g.typ = "fin" => V.fin /\ q = V.last
         /\ g.typ \notin {"open", "fin"} =>
              /\ Base(e) <= q /\ q < V.last
              /\ <<g.src, g.lo + (q - g.seq)>> = <<V.src, (q - Base(e)) + 1>>
<1>1. g.seq \in Nat /\ g.len \in Nat \ {0} /\ g.lo \in Nat /\ g.typ \in SegTypes
  BY DEF Segment
<1>2. V.nxt \in Nat /\ V.last \in Nat /\ Base(e) \in Nat
  BY DEF ViewOK, ViewType, Base
<1>3. /\ g.seq <= q /\ q < g.seq + g.len /\ g.seq + g.len <= V.nxt
      /\ g.src = V.src
  BY <1>1, <1>2 DEF Covers, SegEnd, IsSegOf
<1>4. CASE g.typ = "open" /\ e = "client" /\ g.seq = 0 /\ g.len = 1
  BY <1>1, <1>2, <1>3, <1>4
<1>5. CASE /\ g.typ = "data" /\ Base(e) <= g.seq /\ SegEnd(g) <= V.last
           /\ g.lo = (g.seq - Base(e)) + 1
  <2>1. g.lo + (q - g.seq) = (q - Base(e)) + 1 /\ Base(e) <= q /\ q < V.last /\ q < V.nxt
    BY <1>1, <1>2, <1>3, <1>5 DEF SegEnd
  <2>2. QED
    BY <1>3, <1>5, <2>1
<1>6. CASE g.typ = "fin" /\ V.fin /\ g.seq = V.last /\ g.len = 1
  BY <1>1, <1>2, <1>3, <1>6
<1>7. QED
  BY <1>4, <1>5, <1>6, Zenon DEF IsSegOf

\* The payload of positions that segments of end e cover, the OPEN and the FIN
\* excluded, is the run of the bytes read at these positions.
LEMMA PayloadRuns ==
  ASSUME NEW e \in Ends, NEW V, ViewOK(e, V), NEW got \in SUBSET Segment,
         \A g \in got : IsSegOf(e, V, g),
         NEW from \in Nat, NEW to \in Nat, Base(e) <= from, from <= to, to <= V.last,
         Covered(got, from, to)
  PROVE  LET p == Payload(got, from, to) IN
         /\ p \in Seq(Bytes) /\ Len(p) = to - from
         /\ Run(p, V.src, from - Base(e))
<1> DEFINE p == Payload(got, from, to)
<1>1. p \in Seq(Bytes)
  BY PayloadTyped
<1>2. p = [i \in 1 .. to - from |-> ByteAt(got, from + i - 1)]
  BY DEF Payload
<1> HIDE DEF p
<1>3. Len(p) = to - from
  <2>1. DOMAIN p = 1 .. to - from /\ to - from \in Nat
    BY <1>2
  <2>2. Len(p) \in Nat /\ DOMAIN p = 1 .. Len(p)
    BY <1>1
  <2>3. QED
    BY <2>1, <2>2
<1>4. ASSUME NEW i \in 1 .. Len(p) PROVE p[i] = <<V.src, (from - Base(e)) + i>>
  <2> DEFINE q == from + i - 1
             g == CHOOSE g \in got : Covers(g, q)
  <2>1. i \in 1 .. to - from /\ Base(e) \in Nat /\ V.last \in Nat
    BY <1>3 DEF Base, ViewOK, ViewType
  <2>2. q \in from .. to - 1 /\ q \in Nat /\ p[i] = ByteAt(got, q)
    BY <1>2, <2>1
  <2>3. g \in got /\ Covers(g, q)
    BY <2>2, Zenon DEF Covered
  <2>4. ByteAt(got, q) = <<g.src, g.lo + (q - g.seq)>>
    BY Zenon DEF ByteAt
  <2>5. (q - Base(e)) + 1 = (from - Base(e)) + i /\ Base(e) <= q /\ q < V.last
    BY <2>1
  <2> HIDE DEF g, q
  <2>6. /\ g.typ = "open" => e = "client" /\ q = 0
        /\ g.typ = "fin" => V.fin /\ q = V.last
        /\ g.typ \notin {"open", "fin"} =>
             <<g.src, g.lo + (q - g.seq)>> = <<V.src, (q - Base(e)) + 1>>
    BY <2>2, <2>3, SegAt
  <2>7. g.typ \notin {"open", "fin"}
    BY <2>1, <2>2, <2>5, <2>6 DEF Base
  <2>8. QED
    BY <2>2, <2>4, <2>5, <2>6, <2>7
<1>5. QED
  BY <1>1, <1>3, <1>4 DEF Run, p

\* The receive side after a segment arrived in order: it takes everything up to the
\* next gap, once, and the window's right edge does not move back.
LEMMA TakeInOrderData ==
  ASSUME NEW e \in Ends, NEW r \in RcvType, InWindow(e, r),
         NEW P, ViewOK(Peer(e), P), NEW g \in Segment, IsSegOf(Peer(e), P, g),
         g.seq = r.rcvNxt,
         NEW w \in Seq(Bytes), NEW b \in Seq(Bytes),
         RcvData(Peer(e), r, w, b, P), Complete(Peer(e), r, w, b), RcvCount(e, r, b)
  PROVE  LET z == TakeInOrder(e, r, g) IN
         /\ z \in RcvType
         /\ RcvData(Peer(e), z, w, b, P) /\ Complete(Peer(e), z, w, b)
         /\ r.rcvNxt < z.rcvNxt /\ z.ooo \subseteq r.ooo
         /\ ~r.rcvFin /\ z.finWritten = r.finWritten
         /\ z.rcvQueued - r.rcvQueued <= z.rcvNxt - r.rcvNxt
         /\ z.rcvQueued - r.rcvQueued <= P.last - r.rcvNxt
         /\ Len(b) + Len(z.rcvQueue) <= z.rcvQueued
<1> DEFINE d == Peer(e)
           k == ChainEnd(e, r.ooo, SegEnd(g))
           got == {g} \cup Follow(e, r, g)
           z == TakeInOrder(e, r, g)
           open == \E h \in got : h.typ = "open"
           fin == \E h \in got : h.typ = "fin"
           from == IF open THEN r.rcvNxt + 1 ELSE r.rcvNxt
           to == IF fin THEN k - 1 ELSE k
           bytes == Payload(got, from, to)
<1>1. /\ SegEnd(g) \in Nat /\ r.rcvNxt < SegEnd(g) /\ r.rcvNxt \in Nat
      /\ g.typ \in SegTypes
  BY DEF SegEnd, Segment, RcvType
<1>2. /\ k \in Nat /\ SegEnd(g) <= k
      /\ \A h \in r.ooo : ~Covers(h, k)
      /\ \A q \in SegEnd(g) .. k - 1 : \E h \in r.ooo : Covers(h, q)
  BY <1>1, ChainEndProperty
<1>3. /\ d \in Ends /\ P.nxt \in Nat /\ P.last \in Nat /\ Base(d) \in {0, 1}
      /\ Base(d) <= P.last /\ (P.fin => P.nxt = P.last + 1) /\ (~P.fin => P.nxt <= P.last)
      /\ d = "client" <=> Base(d) = 1
  BY PeerIsEnd DEF ViewOK, ViewType, Base, Ends
<1>4. /\ got \in SUBSET Segment /\ g \in got
      /\ \A h \in r.ooo : h.seq < k => h \in got
      /\ \A h \in got : h.seq < k /\ r.rcvNxt <= h.seq /\ IsSegOf(d, P, h)
  <2>1. \A h \in Follow(e, r, g) : h \in r.ooo /\ h.seq < k
    BY DEF Follow
  <2>2. \A h \in r.ooo : h \in Segment /\ h.seq \in Nat /\ r.rcvNxt < h.seq /\ IsSegOf(d, P, h)
    BY DEF RcvType, InWindow, RcvData, Segment
  <2>3. g.seq < k
    BY <1>1, <1>2
  <2>4. QED
    BY <1>1, <2>1, <2>2, <2>3 DEF Follow
<1>5. z = [r EXCEPT !.rcvNxt = k, !.ooo = r.ooo \ got,
                    !.rcvQueue = r.rcvQueue \o bytes,
                    !.rcvQueued = r.rcvQueued + Len(bytes),
                    !.rcvFin = r.rcvFin \/ fin,
                    !.writeCh = r.writeCh \/ fin \/ bytes # <<>>]
  BY Zenon DEF TakeInOrder, DeliverAll
<1>6. z \in RcvType
  BY TakeInOrderKeeps
<1>7. /\ z.rcvNxt = k /\ z.ooo = r.ooo \ got /\ z.rcvQueue = r.rcvQueue \o bytes
      /\ z.rcvQueued = r.rcvQueued + Len(bytes) /\ z.rcvFin = (r.rcvFin \/ fin)
      /\ z.finWritten = r.finWritten
  BY <1>5, Zenon DEF RcvType
<1> HIDE DEF d, k, got, z, bytes
<1>8. Covered(got, r.rcvNxt, k)
  <2>1. ASSUME NEW q \in r.rcvNxt .. k - 1 PROVE \E h \in got : Covers(h, q)
    <3>1. CASE q < SegEnd(g)
      BY <1>1, <1>2, <1>4, <3>1 DEF Covers
    <3>2. CASE ~(q < SegEnd(g))
      <4>1. q \in SegEnd(g) .. k - 1
        BY <1>1, <1>2, <3>2
      <4>2. PICK h \in r.ooo : Covers(h, q)
        BY <1>2, <4>1
      <4>3. h.seq < k
        <5>1. h.seq \in Nat /\ h.seq <= q
          BY <4>2 DEF Covers, RcvType, Segment
        <5>2. q \in Nat /\ q < k
          BY <1>1, <1>2, <4>1
        <5>3. QED
          BY <1>2, <5>1, <5>2
      <4>4. QED
        BY <1>4, <4>2, <4>3
    <3>3. QED
      BY <3>1, <3>2
  <2>2. QED
    BY <2>1 DEF Covered
\* Nothing beyond what the peer sent is covered.
<1>9. k <= P.nxt
  <2>1. k - 1 \in r.rcvNxt .. k - 1 /\ k - 1 \in Nat
    BY <1>1, <1>2
  <2>2. PICK h \in got : Covers(h, k - 1)
    BY <1>8, <2>1 DEF Covered
  <2>3. k - 1 < P.nxt
    BY <1>3, <1>4, <2>1, <2>2, SegAt DEF d
  <2>4. QED
    BY <1>2, <1>3, <2>3
<1>10. ~r.rcvFin /\ r.rcvNxt <= P.last
  <2>1. r.rcvNxt < P.nxt
    BY <1>1, <1>2, <1>3, <1>9
  <2>2. QED
    BY <1>1, <1>3, <2>1 DEF RcvData
\* An OPEN is delivered exactly when the next position is the client's first.
<1>11. open <=> r.rcvNxt < Base(d)
  <2>1. ASSUME open PROVE r.rcvNxt < Base(d)
    <3>1. PICK h \in got : h.typ = "open"
      BY <2>1
    <3>2. d = "client" /\ h.seq = 0
      BY <1>4, <3>1 DEF IsSegOf
    <3>3. QED
      BY <1>1, <1>3, <1>4, <3>2
  <2>2. ASSUME r.rcvNxt < Base(d) PROVE open
    <3>1. d = "client" /\ g.seq = 0 /\ Base(d) = 1
      BY <1>1, <1>3, <2>2
    <3>2. IsSegOf(d, P, g)
      BY <1>4
    <3>3. g.typ = "open"
      BY <1>3, <3>1, <3>2 DEF IsSegOf
    <3>4. QED
      BY <1>4, <3>3
  <2>3. QED
    BY <2>1, <2>2
\* A FIN is delivered exactly when everything is.
<1>12. fin <=> k = P.last + 1
  <2>1. ASSUME fin PROVE k = P.last + 1
    <3>1. PICK h \in got : h.typ = "fin"
      BY <2>1
    <3>2. P.fin /\ h.seq = P.last /\ h.seq < k
      BY <1>4, <3>1 DEF IsSegOf
    <3>3. QED
      BY <1>2, <1>3, <1>9, <3>2
  <2>2. ASSUME k = P.last + 1 PROVE fin
    <3>1. P.last \in r.rcvNxt .. k - 1
      BY <1>1, <1>3, <1>10, <2>2
    <3>2. PICK h \in got : Covers(h, P.last)
      BY <1>8, <3>1 DEF Covered
    <3>3. h \in Segment /\ IsSegOf(d, P, h)
      BY <1>4, <3>2
    <3>4. /\ h.typ = "open" => d = "client" /\ P.last = 0
          /\ h.typ \notin {"open", "fin"} => P.last < P.last
      BY <1>3, <3>2, <3>3, SegAt DEF d
    <3>5. h.typ = "fin"
      BY <1>3, <3>4
    <3>6. QED
      BY <3>2, <3>5
  <2>3. QED
    BY <2>1, <2>2
<1>13. /\ from = Larger(r.rcvNxt, Base(d)) /\ to = Smaller(k, P.last)
       /\ from \in Nat /\ to \in Nat /\ from <= to
       /\ r.rcvNxt <= from /\ to <= k /\ Base(d) <= from /\ to <= P.last
  <2>1. from = Larger(r.rcvNxt, Base(d))
    BY <1>1, <1>3, <1>11 DEF Larger
  <2>2. to = Smaller(k, P.last)
    BY <1>2, <1>3, <1>9, <1>12 DEF Smaller
  <2>3. QED
    BY <1>1, <1>2, <1>3, <1>10, <2>1, <2>2 DEF Larger, Smaller
<1>14. Passed(d, r) = from - Base(d) /\ Passed(d, z) = to - Base(d)
  <2>1. Base(d) \in Int /\ k \in Int /\ r.rcvNxt \in Int /\ P.last \in Int
    BY <1>1, <1>2, <1>3
  <2>2. Passed(d, r) = Larger(r.rcvNxt - Base(d), 0)
    BY <1>10, <2>1 DEF Passed
  <2>3. Passed(d, z) = Larger(to - Base(d), 0)
    <3>1. z.rcvNxt = k /\ (z.rcvFin <=> fin)
      BY <1>7, <1>10
    <3>2. k - Base(d) - (IF z.rcvFin THEN 1 ELSE 0) = to - Base(d)
      BY <2>1, <3>1
    <3>3. QED
      BY <3>1, <3>2, Zenon DEF Passed
  <2>4. QED
    BY <1>13, <2>1, <2>2, <2>3 DEF Larger
<1> HIDE DEF open, fin, from, to
\* The same without the operators, for arithmetic.
<1>a. /\ from \in Int /\ to \in Int /\ from <= to /\ to <= k /\ to <= P.last
      /\ r.rcvNxt <= from /\ Base(d) \in Int /\ k \in Int
      /\ r.rcvNxt \in Int /\ P.last \in Int /\ r.rcvNxt < k
  BY <1>1, <1>2, <1>3, <1>13
<1>15. Covered(got, from, to)
  BY <1>1, <1>2, <1>8, <1>13 DEF Covered
<1>16. /\ bytes \in Seq(Bytes) /\ Len(bytes) = to - from
       /\ Run(bytes, P.src, from - Base(d))
  <2>1. ViewOK(d, P) /\ (\A h \in got : IsSegOf(d, P, h)) /\ d \in Ends
    BY <1>3, <1>4 DEF d
  <2>2. QED
    BY <1>4, <1>13, <1>15, <2>1, PayloadRuns DEF bytes
<1>17. /\ r.rcvQueue \in Seq(Bytes) /\ Len(r.rcvQueue) \in Nat
       /\ Len(w) \in Nat /\ Len(b) \in Nat /\ r.rcvQueued \in Int
       /\ Len(w) + Len(b) + Len(r.rcvQueue) = from - Base(d)
       /\ Run(r.rcvQueue, P.src, Len(w) + Len(b))
  BY <1>14 DEF RcvType, Complete, RcvData, d
<1>18. /\ Len(z.rcvQueue) = Len(r.rcvQueue) + Len(bytes)
       /\ Run(z.rcvQueue, P.src, Len(w) + Len(b))
  <2>1. (Len(w) + Len(b)) + Len(r.rcvQueue) = from - Base(d)
    BY <1>17
  <2>2. Run(bytes, P.src, (Len(w) + Len(b)) + Len(r.rcvQueue))
    BY <1>16, <2>1
  <2>3. Len(w) + Len(b) \in Nat
    BY <1>17
  <2> DEFINE q == r.rcvQueue
             n == Len(w) + Len(b)
  <2>4. q \in Seq(Bytes) /\ Run(q, P.src, n) /\ n \in Nat
    BY <1>17, <2>3
  <2>5. Run(bytes, P.src, n + Len(q))
    BY <2>2
  <2>6. z.rcvQueue = q \o bytes
    BY <1>7
  <2> HIDE DEF q, n
  <2>7. Len(q \o bytes) = Len(q) + Len(bytes) /\ Run(q \o bytes, P.src, n)
    BY <1>16, <2>4, <2>5, RunAppend
  <2>8. QED
    BY <2>6, <2>7 DEF q, n
<1>19. Len(w) + Len(b) + Len(z.rcvQueue) = Passed(d, z)
  <2>1. from \in Int /\ to \in Int /\ Base(d) \in Int
    BY <1>a
  <2>2. /\ Len(w) + Len(b) + Len(r.rcvQueue) = from - Base(d)
        /\ Len(z.rcvQueue) = Len(r.rcvQueue) + (to - from)
    BY <1>16, <1>17, <1>18
  <2>3. Len(w) \in Int /\ Len(b) \in Int /\ Len(r.rcvQueue) \in Int
    BY <1>17
  <2> DEFINE n == Passed(d, z)
             m == Len(z.rcvQueue)
             lw == Len(w)
             lb == Len(b)
             lq == Len(r.rcvQueue)
             base == Base(d)
  <2>4. /\ n = to - base /\ m = lq + (to - from) /\ lw + lb + lq = from - base
        /\ lw \in Int /\ lb \in Int /\ lq \in Int /\ base \in Int
    BY <1>14, <2>1, <2>2, <2>3
  <2> HIDE DEF n, m, lw, lb, lq, base
  <2>5. lw + lb + m = n
    BY <2>1, <2>4
  <2>6. QED
    BY <2>5 DEF n, m, lw, lb
<1>20. /\ z.rcvFin => P.fin /\ z.rcvNxt = P.nxt
       /\ ~z.rcvFin => z.rcvNxt <= P.last
  <2>1. z.rcvFin = fin
    BY <1>7, <1>10 DEF fin
  <2>2. fin => P.fin /\ k = P.nxt
    BY <1>2, <1>3, <1>9, <1>12
  <2>3. ~fin => k <= P.last
    BY <1>2, <1>3, <1>9, <1>12
  <2>4. QED
    BY <1>7, <2>1, <2>2, <2>3
<1>21. RcvData(d, z, w, b, P)
  <2>1. \A h \in z.ooo : IsSegOf(d, P, h)
    BY <1>7 DEF RcvData, d
  <2>2. Run(w, P.src, 0) /\ Run(b, P.src, Len(w))
    BY DEF RcvData
  <2>3. Len(w) + Len(b) + Len(z.rcvQueue) <= Passed(d, z)
    <3> DEFINE n == Passed(d, z)
    <3>1. n \in Int
      BY <1>a, <1>14
    <3> DEFINE m == Len(w) + Len(b) + Len(z.rcvQueue)
    <3>2. m = n
      BY <1>19
    <3> HIDE DEF n, m
    <3>3. m <= n
      BY <3>1, <3>2
    <3>4. QED
      BY <3>3 DEF n, m
  <2>4. QED
    BY <1>7, <1>9, <1>18, <1>20, <2>1, <2>2, <2>3, Zenon DEF RcvData
<1>22. /\ r.rcvNxt < z.rcvNxt /\ z.ooo \subseteq r.ooo
       /\ z.rcvQueued - r.rcvQueued <= z.rcvNxt - r.rcvNxt
       /\ z.rcvQueued - r.rcvQueued <= P.last - r.rcvNxt
       /\ Len(b) + Len(z.rcvQueue) <= z.rcvQueued
  <2>1. Len(bytes) \in Int /\ Len(bytes) <= k - r.rcvNxt /\ Len(bytes) <= P.last - r.rcvNxt
    BY <1>a, <1>16
  <2>2. r.rcvNxt < k /\ z.ooo \subseteq r.ooo
    BY <1>a, <1>7
  <2>3. Len(b) + Len(r.rcvQueue) <= r.rcvQueued
    BY DEF RcvCount
  <2>4. QED
    <3>1. z.rcvNxt = k /\ z.rcvQueued = r.rcvQueued + Len(bytes)
      BY <1>7
    <3>2. Len(z.rcvQueue) = Len(r.rcvQueue) + Len(bytes)
      BY <1>18
    <3> DEFINE m == Len(z.rcvQueue)
               n == z.rcvQueued
               lq == Len(r.rcvQueue)
               lb == Len(b)
               more == Len(bytes)
               old == r.rcvQueued
    <3>3. /\ m = lq + more /\ n = old + more /\ lb + lq <= old
          /\ more \in Int /\ more <= k - r.rcvNxt /\ more <= P.last - r.rcvNxt
          /\ lq \in Int /\ lb \in Int /\ old \in Int
      BY <1>17, <2>1, <2>3, <3>1, <3>2
    <3> HIDE DEF m, n, lq, lb, more, old
    <3>4. /\ n - old <= k - r.rcvNxt /\ n - old <= P.last - r.rcvNxt
          /\ lb + m <= n
      BY <1>a, <3>3
    <3>5. QED
      BY <2>2, <3>1, <3>4 DEF m, n, lb, old
<1>23. QED
  BY <1>6, <1>7, <1>10, <1>19, <1>21, <1>22 DEF Complete, d, z

\* What of a receive side matters here: fillAckLocked and the delayed ACK touch
\* none of it.
SameData(r, q) ==
  /\ q.rcvNxt = r.rcvNxt /\ q.ooo = r.ooo /\ q.rcvQueue = r.rcvQueue
  /\ q.rcvQueued = r.rcvQueued /\ q.rcvFin = r.rcvFin /\ q.finWritten = r.finWritten

\* Frame f tells the truth about the receive side r of end e.
Told(e, r, f) ==
  /\ f.ack <= r.rcvNxt /\ f.wnd <= Window[e]
  /\ Wide => f.ack + f.wnd <= r.rcvNxt + (Window[e] - r.rcvQueued)

\* The frames a receive side builds tell the truth about it.
LEMMA FramesTell ==
  ASSUME NEW e \in Ends, NEW r \in RcvType, NEW b \in Seq(Bytes), RcvCount(e, r, b)
  PROVE  /\ \A p, o \in BOOLEAN : Told(e, r, AckFrame(e, r, p, o))
         /\ \A g : Told(e, r, SegFrame(e, r, g))
         /\ 0 <= r.rcvQueued
<1> DEFINE lb == Len(b)
           lq == Len(r.rcvQueue)
<1>1. lb \in Nat /\ lq \in Nat /\ lb + lq <= r.rcvQueued
  BY DEF RcvCount, RcvType
<1>2. /\ r.rcvQueued \in Int /\ r.rcvNxt \in Nat /\ Window[e] \in Nat
      /\ (Wide => r.rcvQueued <= Window[e])
  BY WindowAssumption DEF RcvType, RcvCount
<1> HIDE DEF lb, lq
<1>3. 0 <= r.rcvQueued
  BY <1>1, <1>2
<1>4. /\ Free(e, r) \in Nat /\ Free(e, r) <= Window[e]
      /\ Wide => Free(e, r) = Window[e] - r.rcvQueued
  BY <1>2, <1>3 DEF Free, Larger
<1>5. ASSUME NEW f, f.ack = r.rcvNxt, f.wnd = Free(e, r) PROVE Told(e, r, f)
  BY <1>2, <1>4, <1>5 DEF Told
<1>6. ASSUME NEW p, NEW o PROVE Told(e, r, AckFrame(e, r, p, o))
  BY <1>5 DEF AckFrame
<1>7. ASSUME NEW g PROVE Told(e, r, SegFrame(e, r, g))
  BY <1>5 DEF SegFrame
<1>8. QED
  BY <1>3, <1>6, <1>7

\* fillAckLocked and the delayed ACK leave the data as it was.
LEMMA FillAckData ==
  ASSUME NEW e \in Ends, NEW r \in RcvType
  PROVE  FillAck(e, r) \in RcvType /\ SameData(r, FillAck(e, r))
<1>1. SameData(r, FillAck(e, r))
  BY Zenon DEF FillAck, SameData, RcvType
<1>2. QED
  BY <1>1, FillAckKeeps

\* The receive side's invariants speak of the data only.
LEMMA DataKeeps ==
  ASSUME NEW e, NEW r, NEW q, SameData(r, q), NEW w, NEW b, NEW P
  PROVE  /\ RcvData(Peer(e), r, w, b, P) => RcvData(Peer(e), q, w, b, P)
         /\ Complete(Peer(e), r, w, b) => Complete(Peer(e), q, w, b)
         /\ RcvCount(e, r, b) => RcvCount(e, q, b)
         /\ \A f : Told(e, r, f) => Told(e, q, f)
  BY Zenon DEF SameData, RcvData, Complete, RcvCount, Passed, Told

\* What a receive side r has become after it took a segment.
Took(e, r, q) ==
  /\ r.rcvNxt <= q.rcvNxt
  /\ r.rcvNxt + (Window[e] - r.rcvQueued) <= q.rcvNxt + (Window[e] - q.rcvQueued)
  /\ r.rcvFin => q.rcvFin /\ q.rcvQueue = r.rcvQueue
  /\ q.finWritten = r.finWritten

\* Storing a segment ahead of a gap.
LEMMA StoreAheadData ==
  ASSUME NEW e \in Ends, NEW r \in RcvType, NEW P, NEW g \in Segment,
         IsSegOf(Peer(e), P, g), NEW w, NEW b,
         RcvData(Peer(e), r, w, b, P), Complete(Peer(e), r, w, b), RcvCount(e, r, b)
  PROVE  LET z == StoreAhead(e, r, g) IN
         /\ RcvData(Peer(e), z, w, b, P) /\ Complete(Peer(e), z, w, b)
         /\ RcvCount(e, z, b) /\ Took(e, r, z) /\ z.rcvNxt = r.rcvNxt
<1> DEFINE z == StoreAhead(e, r, g)
           y == [r EXCEPT !.ooo = r.ooo \cup {g}]
<1>1. z = r \/ z = y
  BY Zenon DEF StoreAhead
<1>2. /\ y.rcvNxt = r.rcvNxt /\ y.ooo = r.ooo \cup {g} /\ y.rcvQueue = r.rcvQueue
      /\ y.rcvQueued = r.rcvQueued /\ y.rcvFin = r.rcvFin /\ y.finWritten = r.finWritten
  BY Zenon DEF RcvType
<1> HIDE DEF y, z
<1>3. \A h \in y.ooo : IsSegOf(Peer(e), P, h)
  BY <1>2 DEF RcvData
<1>4. /\ RcvData(Peer(e), y, w, b, P) /\ Complete(Peer(e), y, w, b)
      /\ RcvCount(e, y, b)
  BY <1>2, <1>3, Zenon DEF RcvData, Complete, RcvCount, Passed
<1>5. r.rcvNxt \in Nat /\ r.rcvQueued \in Int /\ Window[e] \in Nat
  BY WindowAssumption DEF RcvType
<1>6. Took(e, r, y) /\ Took(e, r, r)
  BY <1>2, <1>5 DEF Took
<1>7. QED
  BY <1>1, <1>2, <1>4, <1>6, Zenon DEF z

\* Taking a segment in order, as Took and RcvCount say it.
LEMMA TakeInOrderTook ==
  ASSUME NEW e \in Ends, NEW r \in RcvType, InWindow(e, r),
         NEW P, ViewOK(Peer(e), P), NEW g \in Segment, IsSegOf(Peer(e), P, g),
         g.seq = r.rcvNxt,
         NEW w \in Seq(Bytes), NEW b \in Seq(Bytes),
         RcvData(Peer(e), r, w, b, P), Complete(Peer(e), r, w, b), RcvCount(e, r, b),
         Wide => P.last <= r.rcvNxt + (Window[e] - r.rcvQueued)
  PROVE  LET z == TakeInOrder(e, r, g) IN
         /\ z \in RcvType
         /\ RcvData(Peer(e), z, w, b, P) /\ Complete(Peer(e), z, w, b)
         /\ RcvCount(e, z, b) /\ Took(e, r, z) /\ r.rcvNxt < z.rcvNxt
<1> DEFINE z == TakeInOrder(e, r, g)
<1>1. /\ z \in RcvType
      /\ RcvData(Peer(e), z, w, b, P) /\ Complete(Peer(e), z, w, b)
      /\ r.rcvNxt < z.rcvNxt
      /\ ~r.rcvFin /\ z.finWritten = r.finWritten
      /\ z.rcvQueued - r.rcvQueued <= z.rcvNxt - r.rcvNxt
      /\ z.rcvQueued - r.rcvQueued <= P.last - r.rcvNxt
      /\ Len(b) + Len(z.rcvQueue) <= z.rcvQueued
  BY TakeInOrderData
<1> HIDE DEF z
<1>2. /\ r.rcvNxt \in Int /\ r.rcvQueued \in Int /\ z.rcvNxt \in Int
      /\ z.rcvQueued \in Int /\ P.last \in Int /\ Window[e] \in Int
      /\ r.rcvQueued <= r.rcvNxt
  BY <1>1, WindowAssumption DEF RcvType, ViewOK, ViewType, RcvCount
<1>3. z.rcvQueued <= z.rcvNxt /\ (Wide => z.rcvQueued <= Window[e])
  BY <1>1, <1>2
<1>4. RcvCount(e, z, b)
  BY <1>1, <1>3, Zenon DEF RcvCount
<1>5. r.rcvNxt + (Window[e] - r.rcvQueued) <= z.rcvNxt + (Window[e] - z.rcvQueued)
  BY <1>1, <1>2
<1>6. r.rcvNxt <= z.rcvNxt
  BY <1>1, <1>2
<1>7. Took(e, r, z)
  BY <1>1, <1>5, <1>6, Zenon DEF Took
<1>8. QED
  BY <1>1, <1>4, <1>7 DEF z

\* processSegmentLocked keeps what was received right, and what it sends is true.
LEMMA ProcessSegmentData ==
  ASSUME NEW e \in Ends, NEW r \in RcvType, InWindow(e, r),
         NEW P, ViewOK(Peer(e), P), NEW f \in Frame, f.typ \in SegTypes,
         IsSegOf(Peer(e), P, SegOf(f)),
         NEW w \in Seq(Bytes), NEW b \in Seq(Bytes),
         RcvData(Peer(e), r, w, b, P), Complete(Peer(e), r, w, b), RcvCount(e, r, b),
         Wide /\ f.seq = r.rcvNxt => P.last <= r.rcvNxt + (Window[e] - r.rcvQueued)
  PROVE  LET p == ProcessSegment(e, r, f) IN
         /\ RcvData(Peer(e), p.r, w, b, P) /\ Complete(Peer(e), p.r, w, b)
         /\ RcvCount(e, p.r, b) /\ Took(e, r, p.r)
         /\ p.r.rcvNxt # r.rcvNxt => f.seq = r.rcvNxt
         /\ f.seq = r.rcvNxt /\ f.typ = "open" => r.rcvNxt < p.r.rcvNxt
         /\ \A h \in p.out : h.typ = "ack" /\ Told(e, p.r, h)
<1> DEFINE g == SegOf(f)
           p == ProcessSegment(e, r, f)
           t == TakeInOrder(e, r, g)
           ahead == StoreAhead(e, r, g)
<1>1. g \in Segment /\ g.seq = f.seq /\ g.typ = f.typ /\ IsSegOf(Peer(e), P, g)
  BY SegOfTyped DEF SegOf
<1>2. ~(g.seq = r.rcvNxt /\ SegEnd(g) <= r.rcvNxt)
  BY <1>1 DEF SegEnd, Segment, RcvType
<1> HIDE DEF g
<1>3. \/ p = Acknowledge(e, r, FALSE) /\ g.seq # r.rcvNxt
      \/ p = Acknowledge(e, ahead, TRUE) /\ g.seq # r.rcvNxt
      \/ p = [r |-> r, out |-> {}] /\ g.seq = r.rcvNxt /\ g.typ = "data"
      \/ p = Acknowledge(e, t, FALSE) /\ g.seq = r.rcvNxt
      \/ p = [r |-> DelayAck(t), out |-> {}] /\ g.seq = r.rcvNxt
  BY <1>2, Zenon DEF ProcessSegment, BeyondWindow, g
<1>4. Took(e, r, r)
  BY WindowAssumption DEF RcvType, Took
<1>5. /\ ahead \in RcvType
      /\ RcvData(Peer(e), ahead, w, b, P) /\ Complete(Peer(e), ahead, w, b)
      /\ RcvCount(e, ahead, b) /\ Took(e, r, ahead) /\ ahead.rcvNxt = r.rcvNxt
  BY <1>1, StoreAheadKeeps, StoreAheadData
<1>6. g.seq = r.rcvNxt =>
        /\ t \in RcvType
        /\ RcvData(Peer(e), t, w, b, P) /\ Complete(Peer(e), t, w, b)
        /\ RcvCount(e, t, b) /\ Took(e, r, t) /\ r.rcvNxt < t.rcvNxt
  BY <1>1, TakeInOrderTook
<1> HIDE DEF p, t, ahead
\* An ACK of q, whose data is right, is right.
<1>7. ASSUME NEW q \in RcvType, NEW o \in BOOLEAN, p = Acknowledge(e, q, o),
             RcvData(Peer(e), q, w, b, P), Complete(Peer(e), q, w, b),
             RcvCount(e, q, b), Took(e, r, q)
      PROVE  /\ RcvData(Peer(e), p.r, w, b, P) /\ Complete(Peer(e), p.r, w, b)
             /\ RcvCount(e, p.r, b) /\ Took(e, r, p.r) /\ p.r.rcvNxt = q.rcvNxt
             /\ \A h \in p.out : h.typ = "ack" /\ Told(e, p.r, h)
  <2> DEFINE z == FillAck(e, q)
             a == AckFrame(e, q, FALSE, o)
  <2>1. p.r = z /\ p.out = {a}
    BY <1>7 DEF Acknowledge
  <2>2. SameData(q, z)
    BY FillAckData
  <2>3. a.typ = "ack" /\ Told(e, q, a)
    BY <1>7, FramesTell DEF AckFrame
  <2> HIDE DEF a, z
  <2>4. Took(e, r, z) /\ z.rcvNxt = q.rcvNxt
    BY <1>7, <2>2, Zenon DEF Took, SameData
  <2>5. QED
    BY <1>7, <2>1, <2>2, <2>3, <2>4, DataKeeps, Zenon
<1>8. CASE p = Acknowledge(e, r, FALSE) /\ g.seq # r.rcvNxt
  BY <1>1, <1>4, <1>7, <1>8 DEF p
<1>9. CASE p = Acknowledge(e, ahead, TRUE) /\ g.seq # r.rcvNxt
  BY <1>1, <1>5, <1>7, <1>9 DEF p
<1>10. CASE p = [r |-> r, out |-> {}] /\ g.seq = r.rcvNxt /\ g.typ = "data"
  BY <1>1, <1>4, <1>10 DEF p
<1>11. CASE p = Acknowledge(e, t, FALSE) /\ g.seq = r.rcvNxt
  BY <1>1, <1>6, <1>7, <1>11 DEF p
<1>12. CASE p = [r |-> DelayAck(t), out |-> {}] /\ g.seq = r.rcvNxt
  <2>1. SameData(t, DelayAck(t))
    BY <1>6, <1>12, Zenon DEF DelayAck, SameData, RcvType
  <2>2. p.r = DelayAck(t) /\ p.out = {}
    BY <1>12
  <2>3. Took(e, r, p.r) /\ p.r.rcvNxt = t.rcvNxt
    BY <1>6, <1>12, <2>1, <2>2, Zenon DEF Took, SameData
  <2>4. /\ RcvData(Peer(e), p.r, w, b, P) /\ Complete(Peer(e), p.r, w, b)
        /\ RcvCount(e, p.r, b)
    BY <1>6, <1>12, <2>1, <2>2, DataKeeps, Zenon
  <2>5. QED
    BY <1>1, <1>6, <1>12, <2>2, <2>3, <2>4 DEF p
<1>13. QED
  BY <1>3, <1>8, <1>9, <1>10, <1>11, <1>12, Zenon

-----------------------------------------------------------------------------
(* Acknowledgements.                                                       *)

\* armTimerLocked touches the timer only.
LEMMA ArmTimerData ==
  ASSUME NEW s \in SndType
  PROVE  /\ ArmTimer(s).sndUna = s.sndUna /\ ArmTimer(s).sndNxt = s.sndNxt
         /\ ArmTimer(s).sndRight = s.sndRight /\ ArmTimer(s).unacked = s.unacked
         /\ ArmTimer(s).finQueued = s.finQueued
         /\ ArmTimerIfOff(s).sndUna = s.sndUna /\ ArmTimerIfOff(s).sndNxt = s.sndNxt
         /\ ArmTimerIfOff(s).sndRight = s.sndRight
         /\ ArmTimerIfOff(s).unacked = s.unacked
         /\ ArmTimerIfOff(s).finQueued = s.finQueued
<1>1. /\ ArmTimer(s).sndUna = s.sndUna /\ ArmTimer(s).sndNxt = s.sndNxt
      /\ ArmTimer(s).sndRight = s.sndRight /\ ArmTimer(s).unacked = s.unacked
      /\ ArmTimer(s).finQueued = s.finQueued
  BY Zenon DEF ArmTimer, SndType
<1>2. ArmTimerIfOff(s) = s \/ ArmTimerIfOff(s) = ArmTimer(s)
  BY Zenon DEF ArmTimerIfOff
<1>3. QED
  BY <1>1, <1>2, Zenon

\* What an acknowledgement changes: sndUna moves to it if it lies between sndUna and
\* sndNxt, and what lies before it is forgotten.
LEMMA NoteAckData ==
  ASSUME NEW s \in SndType, NEW f \in Frame, f.ack <= s.sndNxt,
         s.sndUna <= s.sndNxt, \A g \in s.unacked : s.sndUna < SegEnd(g)
  PROVE  LET u == NoteAck(s, f) IN
         /\ u \in SndType
         /\ u.sndNxt = s.sndNxt /\ u.finQueued = s.finQueued /\ u.sndRight = s.sndRight
         /\ u.unacked \subseteq s.unacked
         /\ s.sndUna <= u.sndUna /\ u.sndUna <= s.sndNxt
         /\ u.sndUna = s.sndUna \/ u.sndUna = f.ack
         /\ f.ack <= u.sndUna
         /\ \A g \in u.unacked : u.sndUna < SegEnd(g)
<1> DEFINE u == NoteAck(s, f)
<1>1. s.sndUna \in Nat /\ s.sndNxt \in Nat /\ f.ack \in Nat
  BY FrameFields DEF SndType
<1>2. CASE Advances(s, f)
  <2> DEFINE v == [s EXCEPT !.unacked = {g \in @ : SegEnd(g) > f.ack},
                            !.sndUna = f.ack, !.backoff = 0, !.dupAcks = 0,
                            !.stale = FALSE]
  <2>1. 0 \in 0 .. MaxBackoff /\ 0 \in 0 .. DupThresh + 1
    BY SizesAssumption
  <2>2. {g \in s.unacked : SegEnd(g) > f.ack} \in SUBSET Segment
    BY Zenon DEF SndType
  <2>3. v \in SndType
    BY <2>1, <2>2, FrameFields, Zenon DEF SndType
  <2>4. /\ v.finQueued = s.finQueued /\ v.sndUna = f.ack /\ v.sndNxt = s.sndNxt
        /\ v.sndRight = s.sndRight /\ v.unacked = {g \in s.unacked : SegEnd(g) > f.ack}
    BY Zenon DEF SndType
  <2>5. u = ArmTimer(v)
    BY <1>2, Zenon DEF NoteAck
  <2> HIDE DEF u, v
  <2>6. /\ u \in SndType /\ u.sndUna = f.ack /\ u.sndNxt = s.sndNxt
        /\ u.sndRight = s.sndRight /\ u.finQueued = s.finQueued
        /\ u.unacked = {g \in s.unacked : SegEnd(g) > f.ack}
    BY <2>3, <2>4, <2>5, ArmTimerData, ArmTimerKeeps
  <2>7. s.sndUna < f.ack /\ f.ack <= s.sndNxt
    BY <1>2 DEF Advances
  <2>8. \A g \in u.unacked : g \in s.unacked /\ u.sndUna < SegEnd(g)
    <3>1. \A g \in s.unacked : SegEnd(g) \in Nat
      BY DEF SndType, Segment, SegEnd
    <3>2. QED
      BY <1>1, <2>6, <3>1
  <2>9. s.sndUna <= u.sndUna /\ u.sndUna <= s.sndNxt /\ f.ack <= u.sndUna
    BY <1>1, <2>6, <2>7
  <2>10. u.unacked \subseteq s.unacked
    BY <2>8
  <2>11. QED
    BY <2>6, <2>8, <2>9, <2>10, Zenon DEF u
<1>3. CASE ~Advances(s, f)
  <2>1. f.ack <= s.sndUna
    BY <1>1, <1>3 DEF Advances
  <2>2. u = s \/ u = [s EXCEPT !.dupAcks = Smaller(@ + 1, DupThresh + 1),
                               !.recover = IF s.dupAcks + 1 = DupThresh THEN s.sndNxt ELSE @]
    BY <1>3, Zenon DEF NoteAck
  <2>3. /\ Smaller(s.dupAcks + 1, DupThresh + 1) \in 0 .. DupThresh + 1
        /\ (IF s.dupAcks + 1 = DupThresh THEN s.sndNxt ELSE s.recover) \in Nat
    BY SizesAssumption DEF Smaller, SndType
  <2>4. /\ u \in SndType /\ u.sndUna = s.sndUna /\ u.sndNxt = s.sndNxt
        /\ u.sndRight = s.sndRight /\ u.finQueued = s.finQueued
        /\ u.unacked = s.unacked
    BY <2>2, <2>3, Zenon DEF SndType
  <2> HIDE DEF u
  <2>5. s.sndUna <= u.sndUna /\ u.sndUna <= s.sndNxt /\ f.ack <= u.sndUna
    BY <1>1, <2>1, <2>4
  <2>6. QED
    BY <2>4, <2>5, Zenon DEF u
<1>4. QED
  BY <1>2, <1>3, Zenon

\* u is what processAckLocked may make of s on frame f: sndUna moves to the
\* acknowledgement, the window's right edge to the one the frame tells, or both stay.
Acked(s, f, u) ==
  /\ u.sndNxt = s.sndNxt /\ u.finQueued = s.finQueued
  /\ u.unacked \subseteq s.unacked
  /\ s.sndUna <= u.sndUna /\ u.sndUna <= s.sndNxt
  /\ u.sndUna = s.sndUna \/ u.sndUna = f.ack
  /\ f.ack <= s.sndNxt => f.ack <= u.sndUna
  /\ \A g \in u.unacked : u.sndUna < SegEnd(g)
  /\ s.sndRight <= u.sndRight
  /\ \/ u.sndRight = s.sndRight
     \/ f.ack <= s.sndNxt /\ u.sndRight = f.ack + f.wnd

\* processAckLocked does that.
LEMMA ProcessAckData ==
  ASSUME NEW s \in SndType, NEW f \in Frame,
         s.sndUna <= s.sndNxt, \A g \in s.unacked : s.sndUna < SegEnd(g)
  PROVE  Acked(s, f, ProcessAck(s, f))
<1> DEFINE a == NoteAck(s, f)
           n == NoteWindow(a, f)
           right == f.ack + f.wnd
           v == [a EXCEPT !.sndRight = right]
           s1 == IF right > a.sndRight THEN ArmTimerIfOff(v) ELSE a
<1>1. s.sndUna \in Nat /\ s.sndNxt \in Nat /\ s.sndRight \in Nat /\ f.ack \in Nat
      /\ right \in Nat
  BY FrameFields DEF SndType
<1>2. CASE f.ack > s.sndNxt
  <2>1. ProcessAck(s, f) = s
    BY <1>2, Zenon DEF ProcessAck
  <2>2. ~(f.ack <= s.sndNxt)
    BY <1>1, <1>2
  <2>3. s.sndUna <= s.sndUna /\ s.sndRight <= s.sndRight
    BY <1>1
  <2>4. Acked(s, f, s)
    BY <2>2, <2>3 DEF Acked
  <2>5. QED
    BY <2>1, <2>4, Zenon
<1>3. CASE ~(f.ack > s.sndNxt)
  <2>1. ProcessAck(s, f) = n /\ f.ack <= s.sndNxt
    BY <1>1, <1>3 DEF ProcessAck
  <2>2. /\ a \in SndType
        /\ a.sndNxt = s.sndNxt /\ a.finQueued = s.finQueued /\ a.sndRight = s.sndRight
        /\ a.unacked \subseteq s.unacked
        /\ s.sndUna <= a.sndUna /\ a.sndUna <= s.sndNxt
        /\ a.sndUna = s.sndUna \/ a.sndUna = f.ack
        /\ f.ack <= a.sndUna
        /\ \A g \in a.unacked : a.sndUna < SegEnd(g)
    BY <2>1, NoteAckData
  <2> HIDE DEF a
  <2>3. /\ v \in SndType /\ v.sndUna = a.sndUna /\ v.sndNxt = a.sndNxt
        /\ v.sndRight = right /\ v.finQueued = a.finQueued /\ v.unacked = a.unacked
    BY <1>1, <2>2, Zenon DEF SndType
  <2>4. n = [s1 EXCEPT !.sendCh = s1.sendCh \/ s1.sndRight > s1.sndNxt]
    BY Zenon DEF NoteWindow
  <2> HIDE DEF v, right
  <2>5. /\ s1.sndUna = a.sndUna /\ s1.sndNxt = a.sndNxt
        /\ s1.finQueued = a.finQueued /\ s1.unacked = a.unacked
        /\ s1.sndRight = IF right > a.sndRight THEN right ELSE a.sndRight
    BY <2>3, ArmTimerData, Zenon
  <2>6. s1 \in SndType
    <3>1. ArmTimer(v) \in SndType
      BY <2>3, ArmTimerKeeps
    <3>2. QED
      BY <2>2, <2>3, <3>1, Zenon DEF ArmTimerIfOff
  <2> HIDE DEF s1
  <2>7. /\ n.sndUna = s1.sndUna /\ n.sndNxt = s1.sndNxt /\ n.sndRight = s1.sndRight
        /\ n.finQueued = s1.finQueued /\ n.unacked = s1.unacked
    BY <2>4, <2>6, Zenon DEF SndType
  <2> HIDE DEF n
  <2>8. /\ s.sndRight <= n.sndRight
        /\ n.sndRight = s.sndRight \/ n.sndRight = right
    BY <1>1, <2>2, <2>5, <2>7
  <2>9. /\ n.sndNxt = s.sndNxt /\ n.finQueued = s.finQueued
        /\ n.unacked = a.unacked /\ n.sndUna = a.sndUna
    BY <2>2, <2>5, <2>7, Zenon
  <2>10. /\ n.unacked \subseteq s.unacked
         /\ s.sndUna <= n.sndUna /\ n.sndUna <= s.sndNxt
         /\ n.sndUna = s.sndUna \/ n.sndUna = f.ack
         /\ f.ack <= n.sndUna
         /\ \A g \in n.unacked : n.sndUna < SegEnd(g)
    BY <2>2, <2>9, Zenon
  <2>11. Acked(s, f, n)
    BY <2>1, <2>8, <2>9, <2>10 DEF right, Acked
  <2>12. QED
    BY <2>1, <2>11, Zenon
<1>4. QED
  BY <1>2, <1>3, Zenon

-----------------------------------------------------------------------------
(* A critical section that takes the stream of end e from o to x.          *)

\* The stream x of end e, which read t bytes, wrote w and is writing b, fits the
\* peer's view P.
DataOK(e, x, t, w, b, P) ==
  /\ SndOK(e, x, t) /\ SndWindow(e, x, t, P) /\ RcvOK(e, x, w, b, P) /\ OpenFirst(e, x)
  /\ x.s.sndUna <= P.rcv

\* What x sends fits it, and its segments are among segs.
OutOK(e, x, t, segs) ==
  \A f \in x.out : /\ FrameFits(e, ViewOf(e, x, t), f)
                   /\ f.typ \in SegTypes => SegOf(f) \in segs

\* So far the section read and wrote nothing.
Section(e, o, x, t, w, b, P) ==
  /\ DataOK(e, x, t, w, b, P) /\ OutOK(e, x, t, o.s.unacked)
  /\ x.s.unacked \subseteq o.s.unacked /\ o.s.sndUna <= x.s.sndUna
  /\ Grows(ViewOf(e, o, t), ViewOf(e, x, t))

SameSnd(s, u) ==
  /\ u.sndUna = s.sndUna /\ u.sndNxt = s.sndNxt /\ u.unacked = s.unacked
  /\ u.finQueued = s.finQueued /\ u.sndRight = s.sndRight

SameCtl(c, k) ==
  /\ k.life = c.life /\ k.src = c.src /\ k.opened = c.opened /\ k.wr = c.wr
  /\ k.rd = c.rd /\ k.rdMax = c.rdMax /\ k.conn = c.conn

\* The view of a sound stream is one.
LEMMA ViewTyped ==
  ASSUME NEW e \in Ends, NEW x \in XType, NEW t \in Nat, NEW w, NEW b, NEW P,
         SndOK(e, x, t), RcvOK(e, x, w, b, P)
  PROVE  ViewOK(e, ViewOf(e, x, t))
<1> DEFINE V == ViewOf(e, x, t)
<1>1. /\ x.s.sndNxt \in Nat /\ x.s.finQueued \in BOOLEAN /\ x.r.rcvNxt \in Nat
      /\ x.r.rcvQueued \in Int /\ x.c.src \in Nat
  BY Zenon DEF XType, SndType, RcvType, CtlType
<1>2. /\ Window[e] \in Nat /\ Base(e) \in Nat
      /\ x.r.rcvQueued <= x.r.rcvNxt
  BY WindowAssumption DEF Base, RcvOK, RcvCount
<1>3. /\ V.src = (IF e = "client" THEN 1 ELSE x.c.src) /\ V.nxt = x.s.sndNxt
      /\ V.last = Base(e) + t /\ V.fin = x.s.finQueued /\ V.rcv = x.r.rcvNxt
      /\ V.edge = x.r.rcvNxt + (Window[e] - x.r.rcvQueued)
  BY Zenon DEF ViewOf
<1>4. /\ Base(e) <= V.last /\ Window[e] <= V.edge /\ V.last \in Nat /\ V.edge \in Int
  BY <1>1, <1>2, <1>3
<1>5. V \in ViewType
  <2>1. (IF e = "client" THEN 1 ELSE x.c.src) \in Nat
    BY <1>1
  <2>2. QED
    BY <1>1, <1>3, <1>4, <2>1, Zenon DEF ViewOf, ViewType
<1>6. (V.fin => V.nxt = V.last + 1) /\ (~V.fin => V.nxt <= V.last)
  BY <1>3, Zenon DEF SndOK
<1> HIDE DEF V
<1>7. QED
  BY <1>4, <1>5, <1>6 DEF ViewOK, V

\* A stream whose data is the same is as sound, and its view the same.
LEMMA SameOK ==
  ASSUME NEW e, NEW x, NEW y,
         SameCtl(x.c, y.c), SameSnd(x.s, y.s), SameData(x.r, y.r),
         NEW t, NEW w, NEW b, NEW P
  PROVE  /\ ViewOf(e, y, t) = ViewOf(e, x, t)
         /\ DataOK(e, x, t, w, b, P) => DataOK(e, y, t, w, b, P)
<1>1. ViewOf(e, y, t) = ViewOf(e, x, t)
  BY Zenon DEF ViewOf, SameCtl, SameSnd, SameData
<1>2. SndOK(e, x, t) => SndOK(e, y, t)
  BY <1>1, Zenon DEF SndOK, SameCtl, SameSnd
<1>3. SndWindow(e, x, t, P) => SndWindow(e, y, t, P)
  BY Zenon DEF SndWindow, Right, SameCtl, SameSnd
<1>4. RcvOK(e, x, w, b, P) => RcvOK(e, y, w, b, P)
  <2>1. CloseOK(Peer(e), x.c, x.r, w, b, P) => CloseOK(Peer(e), y.c, y.r, w, b, P)
    BY Zenon DEF CloseOK, SameCtl, SameData
  <2>2. y.c.life = x.c.life
    BY DEF SameCtl
  <2>3. QED
    BY <2>1, <2>2, DataKeeps, Zenon DEF RcvOK
<1>5. OpenFirst(e, x) => OpenFirst(e, y)
  BY Zenon DEF OpenFirst, SameCtl, SameSnd, SameData
<1>6. QED
  BY <1>1, <1>2, <1>3, <1>4, <1>5, Zenon DEF DataOK, SameSnd

\* A frame that tells the truth about x.r fits x if it carries no segment or one that
\* x has not seen acknowledged.
LEMMA ToldFits ==
  ASSUME NEW e \in Ends, NEW x \in XType, NEW t \in Nat, SndOK(e, x, t), OpenFirst(e, x),
         NEW f, Told(e, x.r, f)
  PROVE  /\ f.typ \notin SegTypes => FrameFits(e, ViewOf(e, x, t), f)
         /\ f.ack = x.r.rcvNxt /\ SegOf(f) \in x.s.unacked =>
              FrameFits(e, ViewOf(e, x, t), f)
<1> DEFINE V == ViewOf(e, x, t)
<1>1. V.rcv = x.r.rcvNxt /\ V.edge = x.r.rcvNxt + (Window[e] - x.r.rcvQueued)
  BY Zenon DEF ViewOf
<1>2. f.ack <= V.rcv /\ f.wnd <= Window[e] /\ (Wide => f.ack + f.wnd <= V.edge)
  BY <1>1, Zenon DEF Told
<1>3. ASSUME f.ack = x.r.rcvNxt, SegOf(f) \in x.s.unacked
      PROVE  IsSegOf(e, V, SegOf(f)) /\ (e = "server" => 1 <= f.ack)
  <2>1. IsSegOf(e, V, SegOf(f))
    BY <1>3, Zenon DEF SndOK
  <2>2. SegOf(f) \in Segment /\ x.s.sndNxt \in Nat
    BY <1>3, Zenon DEF XType, SndType
  <2>3. V.nxt = x.s.sndNxt
    BY Zenon DEF ViewOf
  <2>4. x.s.sndNxt # 0
    <3>1. SegEnd(SegOf(f)) \in Nat \ {0}
      BY <2>2 DEF SegEnd, Segment
    <3>2. SegEnd(SegOf(f)) <= x.s.sndNxt
      BY <2>1, <2>3, Zenon DEF IsSegOf
    <3>3. QED
      BY <2>2, <3>1, <3>2
  <2>5. e = "server" => 1 <= x.r.rcvNxt
    BY <2>4, Zenon DEF OpenFirst
  <2>6. QED
    BY <1>3, <2>1, <2>5, Zenon
<1> HIDE DEF V
<1>4. QED
  BY <1>2, <1>3, Zenon DEF FrameFits, V

\* Rearranged in the timers and the like, with more to send, the section is as sound.
LEMMA SectionSame ==
  ASSUME NEW e \in Ends, NEW o, NEW x \in XType, NEW y, NEW t \in Nat,
         NEW w, NEW b, NEW P, Section(e, o, x, t, w, b, P),
         SameCtl(x.c, y.c), SameSnd(x.s, y.s), SameData(x.r, y.r),
         \A f \in y.out :
           \/ f \in x.out
           \/ Told(e, x.r, f) /\ f.typ \notin SegTypes
           \/ Told(e, x.r, f) /\ f.ack = x.r.rcvNxt /\ SegOf(f) \in x.s.unacked
  PROVE  Section(e, o, y, t, w, b, P)
<1>1. ViewOf(e, y, t) = ViewOf(e, x, t) /\ DataOK(e, y, t, w, b, P)
  BY SameOK, Zenon DEF Section
<1>2. SndOK(e, x, t) /\ OpenFirst(e, x)
  BY Zenon DEF Section, DataOK
<1>3. ASSUME NEW f \in y.out
      PROVE  /\ FrameFits(e, ViewOf(e, y, t), f)
             /\ f.typ \in SegTypes => SegOf(f) \in o.s.unacked
  <2>1. CASE f \in x.out
    BY <1>1, <2>1, Zenon DEF Section, OutOK
  <2>2. CASE Told(e, x.r, f) /\ f.typ \notin SegTypes
    BY <1>1, <1>2, <2>2, ToldFits
  <2>3. CASE Told(e, x.r, f) /\ f.ack = x.r.rcvNxt /\ SegOf(f) \in x.s.unacked
    <3>1. FrameFits(e, ViewOf(e, x, t), f)
      BY <1>2, <2>3, ToldFits
    <3>2. SegOf(f) \in o.s.unacked
      BY <2>3 DEF Section
    <3>3. QED
      BY <1>1, <3>1, <3>2
  <2>4. QED
    BY <2>1, <2>2, <2>3
<1>4. OutOK(e, y, t, o.s.unacked)
  BY <1>3 DEF OutOK
<1>5. QED
  BY <1>1, <1>4, Zenon DEF Section, SameSnd

\* The frame that carries a segment.
LEMMA SegFrameCarries ==
  ASSUME NEW e, NEW r, NEW g \in Segment
  PROVE  SegOf(SegFrame(e, r, g)) = g /\ SegFrame(e, r, g).ack = r.rcvNxt
  BY DEF SegOf, SegFrame, Segment

\* The ACK of a frame that fits the peer's view.
LEMMA TakeAckData ==
  ASSUME NEW e \in Ends, NEW o \in XType, NEW x, StreamOK(e, x), x.c.life = "alive",
         NEW t \in Nat, NEW w \in Seq(Bytes), NEW b \in Seq(Bytes),
         NEW P, ViewOK(Peer(e), P), Section(e, o, x, t, w, b, P),
         NEW f \in Frame, FrameFits(Peer(e), P, f), NEW aged \in BOOLEAN
  PROVE  LET y == TakeAck(e, x, f, aged) IN
         /\ Section(e, o, y, t, w, b, P) /\ SameCtl(x.c, y.c) /\ SameData(x.r, y.r)
         /\ f.ack <= x.s.sndNxt => f.ack <= y.s.sndUna
<1> DEFINE u == ProcessAck(x.s, f)
           v == [x EXCEPT !.s = u]
           q == FillAck(e, x.r)
           h == SegFrame(e, x.r, First(u.unacked))
           z == [x EXCEPT !.s = u, !.r = q, !.out = @ \cup {h}]
           y == TakeAck(e, x, f, aged)
<1>1. /\ x \in XType /\ x.c \in CtlType /\ x.s \in SndType /\ x.r \in RcvType
      /\ SndAwake(x.c, x.s)
  BY Zenon DEF StreamOK, XType
<1>2. /\ SndOK(e, x, t) /\ SndWindow(e, x, t, P) /\ RcvOK(e, x, w, b, P)
      /\ OpenFirst(e, x) /\ x.s.sndUna <= P.rcv
  BY Zenon DEF Section, DataOK
<1>3. u \in SndType
  BY <1>1, ProcessAckAwake
<1>4. Acked(x.s, f, u)
  BY <1>1, <1>2, ProcessAckData DEF SndOK
<1>5. y = v \/ (y = z /\ u.unacked # {})
  BY Zenon DEF TakeAck, FastRetransmits
<1> HIDE DEF u, y
<1>6. v \in XType /\ v.c = x.c /\ v.s = u /\ v.r = x.r /\ v.out = x.out
  BY <1>1, <1>3, Zenon DEF XType
<1> HIDE DEF v
<1>7. ViewOf(e, v, t) = ViewOf(e, x, t)
  BY <1>4, <1>6, Zenon DEF ViewOf, Acked
<1>8. SndOK(e, v, t)
  <2>1. \A g \in u.unacked : IsSegOf(e, ViewOf(e, v, t), g) /\ u.sndUna < SegEnd(g)
    BY <1>2, <1>4, <1>7 DEF SndOK, Acked
  <2>2. x.c.life # "finished"
    OBVIOUS
  <2>3. QED
    BY <1>2, <1>4, <1>6, <2>1, <2>2, Zenon DEF SndOK, Acked
<1>9. SndWindow(e, v, t, P)
  <2>1. /\ x.s.sndUna \in Nat /\ u.sndUna \in Nat /\ f.ack \in Nat /\ f.wnd \in Nat
        /\ Window[Peer(e)] \in Nat /\ P.edge \in Int /\ Window[Peer(e)] <= P.edge
        /\ x.s.sndRight \in Nat /\ u.sndRight \in Nat /\ Base(e) \in Nat
        /\ x.s.sndNxt \in Nat /\ x.c.rdMax \in Nat
    BY <1>1, <1>3, FrameFields, PeerIsEnd, WindowAssumption
       DEF SndType, ViewOK, ViewType, Base, CtlType
  <2>2. Right(e, x, P) <= Right(e, v, P) /\ Right(e, x, P) \in Int /\ Right(e, v, P) \in Int
    BY <1>4, <1>6, <2>1 DEF Right, Acked
  <2>3. ASSUME Wide PROVE u.sndRight <= Right(e, v, P)
    <3>1. CASE u.sndRight = x.s.sndRight
      <4>1. x.s.sndRight <= Right(e, x, P)
        BY <1>2, <2>3, Zenon DEF SndWindow
      <4>2. QED
        BY <2>1, <2>2, <3>1, <4>1
    <3>2. CASE f.ack <= x.s.sndNxt /\ u.sndRight = f.ack + f.wnd
      <4>1. f.ack + f.wnd <= P.edge /\ f.wnd <= Window[Peer(e)]
        BY <2>3, Zenon DEF FrameFits
      <4>2. f.ack <= u.sndUna
        BY <1>4, <3>2, Zenon DEF Acked
      <4>3. QED
        BY <1>6, <2>1, <3>2, <4>1, <4>2 DEF Right
    <3>3. QED
      BY <1>4, <3>1, <3>2, Zenon DEF Acked
  <2>4. Wide => Base(e) + t <= Right(e, v, P)
    <3>1. Wide => Base(e) + t <= Right(e, x, P)
      BY <1>2, Zenon DEF SndWindow
    <3>2. QED
      BY <2>1, <2>2, <3>1
  <2>5. x.c.rd = "read" => u.sndNxt + x.c.rdMax <= u.sndRight
    <3>1. x.c.rd = "read" => x.s.sndNxt + x.c.rdMax <= x.s.sndRight
      BY <1>2, Zenon DEF SndWindow
    <3>2. u.sndNxt = x.s.sndNxt /\ x.s.sndRight <= u.sndRight
      BY <1>4, Zenon DEF Acked
    <3>3. QED
      BY <2>1, <3>1, <3>2
  <2>6. QED
    BY <1>6, <2>3, <2>4, <2>5, Zenon DEF SndWindow
<1>10. v.s.sndUna <= P.rcv
  BY <1>2, <1>4, <1>6, Zenon DEF Acked, FrameFits
<1>11. RcvOK(e, v, w, b, P) /\ OpenFirst(e, v)
  BY <1>2, <1>4, <1>6, Zenon DEF RcvOK, OpenFirst, Acked
<1>12. Section(e, o, v, t, w, b, P)
  <2>1. u.unacked \subseteq o.s.unacked
    BY <1>4 DEF Acked, Section
  <2>2. OutOK(e, v, t, o.s.unacked)
    BY <1>6, <1>7, Zenon DEF OutOK, Section
  <2>3. o.s.sndUna <= u.sndUna
    <3>1. o.s.sndUna <= x.s.sndUna /\ x.s.sndUna <= u.sndUna
      BY <1>4, Zenon DEF Acked, Section
    <3>2. o.s.sndUna \in Int /\ x.s.sndUna \in Int /\ u.sndUna \in Int
      BY <1>1, <1>3 DEF SndType, XType
    <3>3. QED
      BY <3>1, <3>2
  <2>4. QED
    BY <1>6, <1>7, <1>8, <1>9, <1>10, <1>11, <2>1, <2>2, <2>3, Zenon DEF Section, DataOK
<1>13. f.ack <= x.s.sndNxt => f.ack <= v.s.sndUna
  BY <1>4, <1>6, Zenon DEF Acked
<1>14. SameCtl(x.c, v.c) /\ SameData(x.r, v.r)
  BY <1>6, Zenon DEF SameCtl, SameData
<1>15. CASE y = v
  BY <1>12, <1>13, <1>14, <1>15, Zenon DEF y
<1>16. CASE y = z /\ u.unacked # {}
  <2> DEFINE g == First(u.unacked)
  <2>1. g \in u.unacked /\ g \in Segment
    <3>1. u.unacked \in SUBSET Segment
      BY <1>3, Zenon DEF SndType
    <3>2. QED
      BY <1>16, <3>1, FirstProperty
  <2>2. Told(e, x.r, h) /\ SegOf(h) = g /\ h.ack = x.r.rcvNxt
    <3>1. RcvCount(e, x.r, b)
      BY <1>2, Zenon DEF RcvOK
    <3>2. \A k : Told(e, x.r, SegFrame(e, x.r, k))
      BY <1>1, <3>1, FramesTell
    <3>3. QED
      BY <2>1, <3>2, SegFrameCarries
  <2>3. SameData(x.r, q)
    BY <1>1, FillAckData
  <2> HIDE DEF h, q, g
  <2>4. z.c = x.c /\ z.s = u /\ z.r = q /\ z.out = x.out \cup {h}
    BY <1>1, Zenon DEF XType
  <2> HIDE DEF z
  <2>5. SameCtl(v.c, z.c) /\ SameSnd(v.s, z.s) /\ SameData(v.r, z.r)
    BY <1>6, <2>3, <2>4, Zenon DEF SameCtl, SameSnd
  <2>6. ASSUME NEW k \in z.out
        PROVE  \/ k \in v.out
               \/ Told(e, v.r, k) /\ k.typ \notin SegTypes
               \/ Told(e, v.r, k) /\ k.ack = v.r.rcvNxt /\ SegOf(k) \in v.s.unacked
    BY <1>6, <2>1, <2>2, <2>4, Zenon
  <2>7. Section(e, o, z, t, w, b, P)
    BY <1>6, <1>12, <2>5, <2>6, SectionSame
  <2>8. SameCtl(x.c, z.c) /\ SameData(x.r, z.r)
    BY <2>3, <2>4, Zenon DEF SameCtl
  <2>9. f.ack <= x.s.sndNxt => f.ack <= z.s.sndUna
    BY <1>4, <2>4, Zenon DEF Acked
  <2>10. QED
    BY <1>16, <2>7, <2>8, <2>9, Zenon DEF y
<1>17. QED
  BY <1>5, <1>15, <1>16

\* Views that grow, one after the other.
LEMMA GrowsOn ==
  ASSUME NEW U \in ViewType, NEW V \in ViewType, NEW W \in ViewType,
         Grows(U, V), Grows(V, W)
  PROVE  Grows(U, W)
<1>1. /\ U.nxt \in Nat /\ V.nxt \in Nat /\ W.nxt \in Nat
      /\ U.last \in Nat /\ V.last \in Nat /\ W.last \in Nat
      /\ U.rcv \in Nat /\ V.rcv \in Nat /\ W.rcv \in Nat
      /\ U.edge \in Int /\ V.edge \in Int /\ W.edge \in Int
  BY DEF ViewType
<1>2. /\ U.nxt <= W.nxt /\ U.last <= W.last /\ U.rcv <= W.rcv /\ U.edge <= W.edge
  BY <1>1 DEF Grows
<1>3. QED
  BY <1>2, Zenon DEF Grows

\* The view of a sound stream grows into itself.
LEMMA GrowsSame ==
  ASSUME NEW V \in ViewType
  PROVE  Grows(V, V)
  BY DEF Grows, ViewType

\* An RST tells nothing wrong.
LEMMA RstTold ==
  ASSUME NEW e \in Ends, NEW r \in RcvType, NEW b, RcvCount(e, r, b)
  PROVE  Told(e, r, RstFrame) /\ RstFrame.typ \notin SegTypes /\ RstFrame \in Frame
<1>1. r.rcvNxt \in Nat /\ r.rcvQueued \in Int /\ Window[e] \in Nat
      /\ r.rcvQueued <= r.rcvNxt
  BY WindowAssumption DEF RcvType, RcvCount
<1>2. RstFrame.ack = 0 /\ RstFrame.wnd = 0 /\ RstFrame.typ = "rst"
  BY DEF RstFrame
<1>3. 0 <= r.rcvNxt /\ 0 <= Window[e] /\ 0 <= r.rcvNxt + (Window[e] - r.rcvQueued)
  BY <1>1
<1>4. Told(e, r, RstFrame)
  BY <1>2, <1>3 DEF Told
<1>5. QED
  BY <1>2, <1>4 DEF RstFrame, SegTypes, Frame, ControlFrames

\* A section begins.
LEMMA SectionStart ==
  ASSUME NEW e \in Ends, NEW x \in XType, x.out = {}, NEW t \in Nat,
         NEW w, NEW b, NEW P, DataOK(e, x, t, w, b, P)
  PROVE  Section(e, x, x, t, w, b, P)
<1>1. ViewOf(e, x, t) \in ViewType
  BY ViewTyped DEF DataOK, ViewOK
<1>2. x.s.sndUna <= x.s.sndUna
  BY DEF XType, SndType
<1>3. QED
  BY <1>1, <1>2, GrowsSame DEF Section, OutOK

\* The segment of a frame that fits the peer's view.
LEMMA TakeSegmentData ==
  ASSUME NEW e \in Ends, NEW o \in XType, NEW x, StreamOK(e, x), x.c.life = "alive",
         NEW t \in Nat, NEW w \in Seq(Bytes), NEW b \in Seq(Bytes),
         NEW P, ViewOK(Peer(e), P), ViewOf(e, o, t) \in ViewType,
         Section(e, o, x, t, w, b, P),
         NEW f \in Frame, FrameFits(Peer(e), P, f),
         Wide /\ f.typ \in SegTypes /\ f.seq = x.r.rcvNxt
           => P.last <= x.r.rcvNxt + (Window[e] - x.r.rcvQueued)
  PROVE  LET y == TakeSegment(e, x, f) IN
         /\ Section(e, o, y, t, w, b, P)
         /\ y.s = x.s /\ y.c.src = x.c.src /\ y.c.life = "alive"
         /\ y.c.wr = x.c.wr /\ (x.c.conn = "up" => y.c.conn = "up")
         /\ y.c.conn = "up" => x.c.conn = "up"
         /\ f.typ \notin SegTypes => y = x
         /\ y.c.opened /\ ~x.c.opened => f.typ = "open"
<1> DEFINE y == TakeSegment(e, x, f)
           p == ProcessSegment(e, x.r, f)
           c1 == [x.c EXCEPT !.opened = TRUE, !.conn = "dialing"]
           c2 == IF Dials(e, x, f) THEN c1 ELSE x.c
           d == Peer(e)
           V == ViewOf(e, x, t)
           W == ViewOf(e, y, t)
<1>1. /\ x \in XType /\ x.c \in CtlType /\ x.s \in SndType /\ x.r \in RcvType
      /\ InWindow(e, x.r) /\ x.out \in SUBSET Frame
  BY Zenon DEF StreamOK, XType
<1>2. /\ SndOK(e, x, t) /\ SndWindow(e, x, t, P) /\ RcvOK(e, x, w, b, P)
      /\ OpenFirst(e, x) /\ x.s.sndUna <= P.rcv
  BY Zenon DEF Section, DataOK
<1>3. CASE f.typ \notin SegTypes
  <2>1. y = x
    BY <1>3, Zenon DEF TakeSegment
  <2> HIDE DEF y
  <2>2. QED
    BY <1>3, <2>1, Zenon DEF y
<1>4. CASE f.typ \in SegTypes
  <2>1. IsSegOf(d, P, SegOf(f))
    BY <1>4 DEF FrameFits
  <2>2. /\ RcvData(d, x.r, w, b, P) /\ Complete(d, x.r, w, b) /\ RcvCount(e, x.r, b)
        /\ CloseOK(d, x.c, x.r, w, b, P)
    BY <1>2, Zenon DEF RcvOK
  <2>3. /\ RcvData(d, p.r, w, b, P) /\ Complete(d, p.r, w, b)
        /\ RcvCount(e, p.r, b) /\ Took(e, x.r, p.r)
        /\ p.r.rcvNxt # x.r.rcvNxt => f.seq = x.r.rcvNxt
        /\ f.seq = x.r.rcvNxt /\ f.typ = "open" => x.r.rcvNxt < p.r.rcvNxt
        /\ \A h \in p.out : h.typ = "ack" /\ Told(e, p.r, h)
    BY <1>1, <1>4, <2>1, <2>2, ProcessSegmentData
  <2>4. AckTimed(x.r)
    BY DEF StreamOK, RcvAwake
  <2>5. p.r \in RcvType /\ p.out \in SUBSET Frame
    BY <1>1, <1>4, <2>4, ProcessSegmentKeeps
  <2>6. y = [x EXCEPT !.r = p.r, !.out = @ \cup p.out, !.c = c2]
    BY <1>4, Zenon DEF TakeSegment
  <2>7. /\ c2 \in CtlType /\ c2.life = x.c.life /\ c2.rd = x.c.rd /\ c2.wr = x.c.wr
        /\ c2.rdMax = x.c.rdMax /\ c2.src = x.c.src
        /\ c2.opened <=> x.c.opened \/ Dials(e, x, f)
        /\ c2.conn = "up" <=> x.c.conn = "up"
    <3>1. Dials(e, x, f) => x.c.conn # "up"
      <4>1. DialOK(e, x.c)
        BY DEF StreamOK
      <4>2. QED
        BY <4>1 DEF DialOK, Dials
    <3>2. c1.conn = "dialing"
      BY <1>1, Zenon DEF CtlType
    <3>3. QED
      BY <1>1, <3>1, <3>2, Zenon DEF CtlType
  <2> HIDE DEF p, c2
  <2>8. /\ y \in XType /\ y.r = p.r /\ y.s = x.s /\ y.c = c2
        /\ y.out = x.out \cup p.out
    BY <1>1, <2>5, <2>6, <2>7, Zenon DEF XType
  <2> HIDE DEF y
  <2>9. /\ W.src = V.src /\ W.nxt = V.nxt /\ W.last = V.last /\ W.fin = V.fin
    BY <2>7, <2>8, Zenon DEF ViewOf
  <2>10. \A g \in x.s.unacked : IsSegOf(e, W, g)
    BY <1>2, <2>9, Zenon DEF SndOK, IsSegOf
  <2>11. SndOK(e, y, t)
    BY <1>2, <2>7, <2>8, <2>10, Zenon DEF SndOK
  <2>12. SndWindow(e, y, t, P)
    BY <1>2, <2>7, <2>8, Zenon DEF SndWindow, Right
  <2>13. CloseOK(d, c2, p.r, w, b, P)
    BY <2>2, <2>3, <2>7, Zenon DEF CloseOK, Took
  <2>14. RcvOK(e, y, w, b, P)
    BY <2>3, <2>8, <2>13, Zenon DEF RcvOK
  <2>15. OpenFirst(e, y)
    <3> SUFFICES ASSUME e = "server"
                 PROVE  /\ y.c.opened => 1 <= y.r.rcvNxt /\ 1 <= y.c.src
                        /\ ~y.c.opened => y.r.rcvNxt = 0 /\ y.s.sndNxt = 0
      BY Zenon DEF OpenFirst
    <3>1. x.r.rcvNxt \in Nat /\ p.r.rcvNxt \in Nat /\ x.r.rcvNxt <= p.r.rcvNxt
      BY <1>1, <2>3, <2>5 DEF RcvType, Took
    <3>2. ASSUME y.c.opened PROVE 1 <= y.r.rcvNxt
      <4>1. x.c.opened => 1 <= x.r.rcvNxt
        BY Zenon, <1>2 DEF OpenFirst
      <4>2. Dials(e, x, f) => x.r.rcvNxt < p.r.rcvNxt
        BY <2>3, Zenon DEF Dials
      <4>3. x.c.opened \/ Dials(e, x, f)
        BY <2>7, <2>8, <3>2
      <4>4. QED
        BY <2>8, <3>1, <4>1, <4>2, <4>3
    <3>3. 1 <= y.c.src
      BY <1>2, <2>7, <2>8, Zenon DEF SndOK
    <3>4. ASSUME ~y.c.opened PROVE y.r.rcvNxt = 0 /\ y.s.sndNxt = 0
      <4>1. ~x.c.opened /\ ~Dials(e, x, f)
        BY <2>7, <2>8, <3>4
      <4>2. x.r.rcvNxt = 0 /\ x.s.sndNxt = 0
        BY <1>2, <4>1, Zenon DEF OpenFirst
      <4>3. ~(f.seq = 0 /\ f.typ = "open")
        BY <4>1, <4>2, Zenon DEF Dials
      <4>4. f.seq # 0
        <5>1. /\ f.typ = "data" => Base(d) <= f.seq
              /\ f.typ = "fin" => f.seq = P.last
              /\ f.typ \in {"open", "data", "fin"}
          BY <1>4, <2>1 DEF IsSegOf, SegOf, SegTypes
        <5>2. Base(d) = 1 /\ Base(d) <= P.last
          BY DEF Base, Peer, ViewOK
        <5>3. QED
          BY <4>3, <5>1, <5>2
      <4>5. QED
        BY <2>3, <2>8, <4>2, <4>4
    <3>5. QED
      BY <3>2, <3>3, <3>4
  <2>16. DataOK(e, y, t, w, b, P)
    BY <1>2, <2>8, <2>11, <2>12, <2>14, <2>15, Zenon DEF DataOK
  <2>17. V \in ViewType /\ W \in ViewType
    BY <1>1, <1>2, <2>8, <2>11, <2>14, ViewTyped DEF ViewOK
  <2>18. Grows(V, W)
    <3>1. V.nxt <= W.nxt /\ V.last <= W.last
      BY <2>9, <2>17 DEF ViewType
    <3>2. V.rcv <= W.rcv /\ V.edge <= W.edge
      BY <2>3, <2>8, Zenon DEF ViewOf, Took
    <3>3. QED
      BY <2>9, <3>1, <3>2, Zenon DEF Grows
  <2>19. Grows(ViewOf(e, o, t), W)
    BY <2>17, <2>18, GrowsOn DEF Section
  <2>20. ASSUME NEW h \in y.out
         PROVE  /\ FrameFits(e, W, h)
                /\ h.typ \in SegTypes => SegOf(h) \in o.s.unacked
    <3>1. CASE h \in x.out
      <4>1. h \in Frame /\ FrameFits(e, V, h)
        BY <1>1, <3>1, Zenon DEF Section, OutOK
      <4>2. FrameFits(e, W, h)
        BY <2>17, <2>18, <4>1, FitsGrows
      <4>3. QED
        BY <3>1, <4>2, Zenon DEF Section, OutOK
    <3>2. CASE h \in p.out
      <4>1. Told(e, y.r, h) /\ h.typ \notin SegTypes
        BY <2>3, <2>8, <3>2 DEF SegTypes
      <4>2. QED
        BY <2>8, <2>11, <2>15, <4>1, ToldFits
    <3>3. QED
      BY <2>8, <3>1, <3>2
  <2>21. OutOK(e, y, t, o.s.unacked)
    BY <2>20, Zenon DEF OutOK
  <2>22. Section(e, o, y, t, w, b, P)
    BY <2>8, <2>16, <2>19, <2>21, Zenon DEF Section
  <2>23. y.c.opened /\ ~x.c.opened => f.typ = "open"
    BY <2>7, <2>8, Zenon DEF Dials
  <2>24. QED
    BY <1>4, <2>7, <2>8, <2>22, <2>23, Zenon DEF y
<1>5. QED
  BY <1>3, <1>4, Zenon

\* The answer to a window probe.
LEMMA TakeProbeData ==
  ASSUME NEW e \in Ends, NEW o, NEW x \in XType, NEW t \in Nat,
         NEW w, NEW b \in Seq(Bytes), NEW P, Section(e, o, x, t, w, b, P), NEW f
  PROVE  LET y == TakeProbe(e, x, f) IN
         Section(e, o, y, t, w, b, P) /\ y.c = x.c /\ y.s = x.s /\ SameData(x.r, y.r)
<1> DEFINE a == AckFrame(e, x.r, FALSE, FALSE)
           q == FillAck(e, x.r)
           z == [x EXCEPT !.r = q, !.out = {a}]
           y == TakeProbe(e, x, f)
<1>1. x.r \in RcvType /\ RcvCount(e, x.r, b)
  BY Zenon DEF XType, Section, DataOK, RcvOK
<1>2. Told(e, x.r, a) /\ a.typ \notin SegTypes /\ SameData(x.r, q)
  BY <1>1, FramesTell, FillAckData DEF AckFrame, SegTypes
<1>3. y = x \/ y = z
  BY Zenon DEF TakeProbe
<1> HIDE DEF a, q, y
<1>4. z.c = x.c /\ z.s = x.s /\ z.r = q /\ z.out = {a}
  BY Zenon DEF XType
<1> HIDE DEF z
<1>5. SameCtl(x.c, z.c) /\ SameSnd(x.s, z.s) /\ SameData(x.r, z.r)
  BY <1>2, <1>4, Zenon DEF SameCtl, SameSnd
<1>6. Section(e, o, z, t, w, b, P)
  BY <1>2, <1>4, <1>5, SectionSame
<1>7. SameData(x.r, x.r)
  BY DEF SameData
<1>8. QED
  BY <1>3, <1>4, <1>5, <1>6, <1>7, Zenon DEF y

\* What the end of the stream x leaves of it.
Ended(x, y) ==
  /\ y.c.life \in {"finished", "aborted"} /\ y.c.src = x.c.src
  /\ y.c.opened = x.c.opened /\ y.c.conn = x.c.conn
  /\ y.c.wr = (IF x.c.wr = "write" THEN "write" ELSE "off") /\ y.c.rd = "off"
  /\ y.r.rcvNxt = x.r.rcvNxt /\ y.r.ooo = {} /\ y.s.sndUna = x.s.sndUna
  /\ y.r.rcvQueue = <<>> /\ ~y.r.ackTimerSet /\ ~y.s.running

\* The end of a stream forgets what it no longer needs.
LEMMA EndStreamData ==
  ASSUME NEW e \in Ends, NEW o, NEW x \in XType, x.c.life = "alive", NEW t \in Nat,
         NEW w \in Seq(Bytes), NEW b \in Seq(Bytes), NEW P,
         Section(e, o, x, t, w, b, P), NEW life \in {"finished", "aborted"},
         life = "finished" => x.s.sndUna = x.s.sndNxt,
         NEW y, y.c = EndCtl(x.c, life), y.s = EndSnd(x.s), y.r = EndRcv(x.r),
         \A f \in y.out : f \in x.out \/ f = RstFrame
  PROVE  Section(e, o, y, t, w, b, P) /\ Ended(x, y)
<1> DEFINE c1 == EndCtl(x.c, life)
           s1 == EndSnd(x.s)
           r1 == EndRcv(x.r)
<1>1. x.c \in CtlType /\ x.s \in SndType /\ x.r \in RcvType
  BY Zenon DEF XType
<1>2. /\ SndOK(e, x, t) /\ SndWindow(e, x, t, P) /\ RcvOK(e, x, w, b, P)
      /\ OpenFirst(e, x) /\ x.s.sndUna <= P.rcv
  BY Zenon DEF Section, DataOK
<1>3. /\ c1.life = life /\ c1.src = x.c.src /\ c1.opened = x.c.opened
      /\ c1.rd = "off" /\ c1.conn = x.c.conn
      /\ c1.wr = (IF x.c.wr = "write" THEN "write" ELSE "off")
  BY <1>1, Zenon DEF EndCtl, CtlType
<1>4. /\ s1.sndUna = x.s.sndUna /\ s1.sndNxt = x.s.sndNxt /\ s1.finQueued = x.s.finQueued
      /\ s1.unacked = {} /\ ~s1.running
  BY DEF EndSnd, NewSnd
<1>5. /\ r1.rcvNxt = x.r.rcvNxt /\ r1.rcvQueued = x.r.rcvQueued /\ r1.rcvFin = x.r.rcvFin
      /\ r1.finWritten = x.r.finWritten /\ r1.ooo = {} /\ r1.rcvQueue = <<>>
      /\ ~r1.ackTimerSet
  BY DEF EndRcv, NewRcv
<1> HIDE DEF c1, s1, r1
<1>7. y.c = c1 /\ y.s = s1 /\ y.r = r1
  BY DEF c1, s1, r1
<1>8. life # "alive" /\ life # "none"
  OBVIOUS
<1>9. ViewOf(e, y, t) = ViewOf(e, x, t)
  BY <1>3, <1>4, <1>5, <1>7, Zenon DEF ViewOf
<1>10. SndOK(e, y, t)
  <2>1. \A g \in s1.unacked : IsSegOf(e, ViewOf(e, y, t), g) /\ s1.sndUna < SegEnd(g)
    BY <1>4
  <2>2. 1 <= x.c.src /\ (e = "client" => x.c.src = 1)
    BY <1>2, Zenon DEF SndOK
  <2>3. QED
    BY <1>2, <1>3, <1>4, <1>7, <1>8, <2>1, <2>2, Zenon DEF SndOK
<1>11. SndWindow(e, y, t, P)
  BY <1>2, <1>3, <1>4, <1>7, <1>8, Zenon DEF SndWindow, Right
<1>12. RcvOK(e, y, w, b, P)
  <2> DEFINE d == Peer(e)
             lw == Len(w)
             lb == Len(b)
             lq == Len(x.r.rcvQueue)
             n == Passed(d, x.r)
             m == x.r.rcvQueued
  <2>1. /\ RcvData(d, x.r, w, b, P) /\ RcvCount(e, x.r, b)
        /\ CloseOK(d, x.c, x.r, w, b, P)
    BY <1>2, Zenon DEF RcvOK
  <2>2. /\ lw \in Nat /\ lb \in Nat /\ lq \in Nat /\ n \in Int /\ m \in Int
        /\ lw + lb + lq <= n /\ lb + lq <= m
    <3>1. n \in Int
      BY <1>1 DEF Passed, Larger, Base, RcvType
    <3>2. lw \in Nat /\ lb \in Nat /\ lq \in Nat /\ m \in Int
      BY <1>1 DEF RcvType
    <3>3. QED
      BY <2>1, <3>1, <3>2, Zenon DEF RcvData, RcvCount
  <2>3. Passed(d, r1) = n
    BY <1>5, Zenon DEF Passed
  <2>4. Len(r1.rcvQueue) = 0
    BY <1>5
  <2> HIDE DEF lw, lb, lq, n, m, d
  <2>5. lw + lb + 0 <= n /\ lb + 0 <= m
    BY <2>2
  <2>6. Run(r1.rcvQueue, P.src, Len(w) + Len(b))
    BY <2>4 DEF Run
  <2>7. Len(w) + Len(b) + Len(r1.rcvQueue) <= Passed(d, r1)
    BY <2>3, <2>4, <2>5, Zenon DEF lw, lb
  <2>8. \A g \in r1.ooo : IsSegOf(d, P, g)
    BY <1>5
  <2>9. RcvData(d, r1, w, b, P)
    BY <1>5, <2>1, <2>6, <2>7, <2>8, Zenon DEF RcvData
  <2>10. RcvCount(e, r1, b)
    BY <1>5, <2>1, <2>4, <2>5, Zenon DEF RcvCount, lb, m
  <2>11. CloseOK(d, c1, r1, w, b, P)
    <3>1. c1.wr # "write" => x.c.wr # "write"
      BY <1>3
    <3>2. c1.wr # "close"
      BY <1>3
    <3>3. QED
      BY <1>5, <2>1, <3>1, <3>2, Zenon DEF CloseOK
  <2>12. QED
    BY <1>3, <1>7, <1>8, <2>9, <2>10, <2>11, Zenon DEF RcvOK, d
<1>13. OpenFirst(e, y)
  BY <1>2, <1>3, <1>4, <1>5, <1>7, Zenon DEF OpenFirst
<1>14. DataOK(e, y, t, w, b, P)
  BY <1>2, <1>4, <1>7, <1>10, <1>11, <1>12, <1>13, Zenon DEF DataOK
<1>15. OutOK(e, y, t, o.s.unacked)
  <2>1. ASSUME NEW f \in y.out
        PROVE  /\ FrameFits(e, ViewOf(e, y, t), f)
               /\ f.typ \in SegTypes => SegOf(f) \in o.s.unacked
    <3>1. CASE f \in x.out
      BY <1>9, <3>1, Zenon DEF Section, OutOK
    <3>2. CASE f = RstFrame
      <4>1. RcvCount(e, x.r, b)
        BY <1>2, Zenon DEF RcvOK
      <4>2. Told(e, x.r, f) /\ f.typ \notin SegTypes
        BY <1>1, <3>2, <4>1, RstTold
      <4>3. FrameFits(e, ViewOf(e, x, t), f)
        BY <1>2, <4>2, ToldFits
      <4>4. QED
        BY <1>9, <4>2, <4>3
    <3>3. QED
      BY <3>1, <3>2
  <2>2. QED
    BY <2>1, Zenon DEF OutOK
<1>16. Section(e, o, y, t, w, b, P)
  <2>1. y.s.unacked \subseteq o.s.unacked
    BY <1>4, <1>7
  <2>2. QED
    BY <1>4, <1>7, <1>9, <1>14, <1>15, <2>1, Zenon DEF Section
<1>17. QED
  BY <1>3, <1>4, <1>5, <1>7, <1>16 DEF Ended

\* abortLocked.
LEMMA AbortData ==
  ASSUME NEW e \in Ends, NEW o, NEW x \in XType, NEW t \in Nat,
         NEW w \in Seq(Bytes), NEW b \in Seq(Bytes), NEW P,
         Section(e, o, x, t, w, b, P), NEW notify \in BOOLEAN
  PROVE  LET y == Abort(x, notify) IN
         /\ Section(e, o, y, t, w, b, P)
         /\ x.c.life # "alive" => y = x
         /\ x.c.life = "alive" => Ended(x, y)
<1> DEFINE y == Abort(x, notify)
           v == [x EXCEPT !.out = IF notify THEN @ \cup {RstFrame} ELSE @]
           life == "aborted"
<1>1. CASE x.c.life # "alive"
  BY <1>1, Zenon DEF Abort
<1>2. CASE x.c.life = "alive"
  <2>1. y = EndStream(v, life)
    BY <1>2, Zenon DEF Abort
  <2>2. /\ v.c = x.c /\ v.s = x.s /\ v.r = x.r
        /\ \A f \in v.out : f \in x.out \/ f = RstFrame
    BY DEF XType
  <2>3. life \in {"finished", "aborted"} /\ life # "finished"
    OBVIOUS
  <2> HIDE DEF v, life, y
  <2>4. /\ y.c = EndCtl(x.c, life) /\ y.s = EndSnd(x.s) /\ y.r = EndRcv(x.r)
        /\ y.out = v.out
    BY <2>1, <2>2 DEF EndStream
  <2>5. \A f \in y.out : f \in x.out \/ f = RstFrame
    BY <2>2, <2>4
  <2>6. QED
    BY <1>2, <2>3, <2>4, <2>5, EndStreamData DEF y
<1>3. QED
  BY <1>1, <1>2, Zenon

\* maybeFinishLocked.
LEMMA MaybeFinishData ==
  ASSUME NEW e \in Ends, NEW o, NEW x \in XType, NEW t \in Nat,
         NEW w \in Seq(Bytes), NEW b \in Seq(Bytes), NEW P,
         Section(e, o, x, t, w, b, P)
  PROVE  LET y == MaybeFinish(x) IN
         /\ Section(e, o, y, t, w, b, P)
         /\ y = x \/ (x.c.life = "alive" /\ Ended(x, y))
<1> DEFINE y == MaybeFinish(x)
           life == "finished"
<1>1. y = x \/ (y = EndStream(x, life) /\ x.c.life = "alive" /\ x.s.sndUna = x.s.sndNxt)
  BY Zenon DEF MaybeFinish
<1>2. life \in {"finished", "aborted"}
  OBVIOUS
<1> HIDE DEF y, life
<1>3. ASSUME y = EndStream(x, life), x.c.life = "alive", x.s.sndUna = x.s.sndNxt
      PROVE  Section(e, o, y, t, w, b, P) /\ Ended(x, y)
  <2>1. /\ y.c = EndCtl(x.c, life) /\ y.s = EndSnd(x.s) /\ y.r = EndRcv(x.r)
        /\ y.out = x.out
    BY <1>3 DEF EndStream
  <2>2. \A f \in y.out : f \in x.out \/ f = RstFrame
    BY <2>1
  <2>3. QED
    BY <1>2, <1>3, <2>1, <2>2, EndStreamData
<1>4. QED
  BY <1>1, <1>3 DEF y

\* What a frame leaves of a stream that has ended.
HeardDead(x, y) ==
  /\ y.c = x.c /\ y.s = x.s /\ SameData(x.r, y.r)
  /\ y.r.ackTimerSet => x.r.ackTimerSet

\* A frame on a stream that has ended.
LEMMA HandleFrameDeadData ==
  ASSUME NEW e \in Ends, NEW o, NEW x \in XType, NEW t \in Nat,
         NEW w, NEW b \in Seq(Bytes), NEW P, Section(e, o, x, t, w, b, P), NEW f,
         NEW y, y = HandleFrameDead(e, x, f)
  PROVE  Section(e, o, y, t, w, b, P) /\ HeardDead(x, y)
<1> DEFINE a == AckFrame(e, x.r, FALSE, FALSE)
           q == FillAck(e, x.r)
           z == [x EXCEPT !.out = @ \cup {a}, !.r = q]
           v == [x EXCEPT !.out = @ \cup {RstFrame}]
<1>1. x.r \in RcvType /\ RcvCount(e, x.r, b)
  BY Zenon DEF XType, Section, DataOK, RcvOK
<1>2. Told(e, x.r, a) /\ a.typ \notin SegTypes /\ SameData(x.r, q) /\ ~q.ackTimerSet
  <2>1. Told(e, x.r, a) /\ a.typ \notin SegTypes /\ SameData(x.r, q)
    BY <1>1, FramesTell, FillAckData DEF AckFrame, SegTypes
  <2>2. ~q.ackTimerSet
    BY <1>1 DEF FillAck, RcvType
  <2>3. QED
    BY <2>1, <2>2
<1>3. Told(e, x.r, RstFrame) /\ RstFrame.typ \notin SegTypes
  BY <1>1, RstTold
<1>4. y = x \/ y = z \/ y = v
  BY Zenon DEF HandleFrameDead
<1> HIDE DEF a, q
<1>5. z.c = x.c /\ z.s = x.s /\ z.r = q /\ z.out = x.out \cup {a}
  BY Zenon DEF XType
<1>6. v.c = x.c /\ v.s = x.s /\ v.r = x.r /\ v.out = x.out \cup {RstFrame}
  BY Zenon DEF XType
<1> HIDE DEF z, v
<1>7. SameCtl(x.c, z.c) /\ SameSnd(x.s, z.s) /\ SameData(x.r, z.r)
  BY <1>2, <1>5, Zenon DEF SameCtl, SameSnd
<1>8. SameCtl(x.c, v.c) /\ SameSnd(x.s, v.s) /\ SameData(x.r, v.r)
  BY <1>6, Zenon DEF SameCtl, SameSnd, SameData
<1>9. Section(e, o, z, t, w, b, P)
  BY <1>2, <1>5, <1>7, SectionSame
<1>10. Section(e, o, v, t, w, b, P)
  BY <1>3, <1>6, <1>8, SectionSame
<1>11. SameData(x.r, x.r)
  BY DEF SameData
<1>12. HeardDead(x, x) /\ HeardDead(x, z) /\ HeardDead(x, v)
  BY <1>2, <1>5, <1>6, <1>7, <1>8, <1>11, Zenon DEF HeardDead
<1>13. QED
  BY <1>4, <1>9, <1>10, <1>12, Zenon

\* The loops and the timers of a stream that has ended: only a write may still be
\* under way.  There is no writer before the connection is up.
Quiet(x) ==
  /\ x.c.life # "alive" => /\ x.c.rd = "off" /\ ~x.s.running
                           /\ ~x.r.ackTimerSet /\ x.r.rcvQueue = <<>>
  /\ x.c.life \in {"none", "gone"} => x.c.wr = "off" /\ x.c.conn # "dialing"
  /\ x.c.conn # "up" => x.c.wr = "off"

\* Stream y is what handleFrame made of x on frame f: it takes nothing but segments,
\* after the acknowledgement they carry, and dials on an OPEN only.
Handled(x, f, y) ==
  /\ y.c.src = x.c.src
  /\ y.c.opened /\ ~x.c.opened => f.typ = "open"
  /\ \/ y.r.rcvNxt = x.r.rcvNxt /\ y.r.ooo \subseteq x.r.ooo
     \/ f.typ \in SegTypes /\ (f.ack <= x.s.sndNxt => f.ack <= y.s.sndUna)
  /\ f.typ = "rst" => y.s.sndUna = x.s.sndUna
  /\ x.c.life \notin {"none", "gone"} => y.c.life \notin {"none", "gone"}
  /\ Quiet(x) => Quiet(y)

\* What has ended is quiet.
LEMMA EndedIsQuiet ==
  ASSUME NEW x, NEW y, Ended(x, y), x.c.conn # "up" => x.c.wr = "off"
  PROVE  Quiet(y)
<1>1. y.c.life # "alive" /\ y.c.life \notin {"none", "gone"}
  BY DEF Ended
<1>2. y.c.conn # "up" => y.c.wr = "off"
  BY DEF Ended
<1>3. QED
  BY <1>1, <1>2, Zenon DEF Quiet, Ended

\* handleFrame on a frame that fits the peer's view.
LEMMA HandleFrameData ==
  ASSUME NEW e \in Ends, NEW x, StreamOK(e, x), x.out = {},
         NEW t \in Nat, NEW w \in Seq(Bytes), NEW b \in Seq(Bytes),
         NEW P, ViewOK(Peer(e), P), DataOK(e, x, t, w, b, P),
         NEW f \in Frame, FrameFits(Peer(e), P, f), NEW aged \in BOOLEAN,
         Wide /\ f.typ \in SegTypes /\ f.seq = x.r.rcvNxt
           => P.last <= x.r.rcvNxt + (Window[e] - x.r.rcvQueued)
  PROVE  LET y == HandleFrame(e, x, f, aged) IN
         Section(e, x, y, t, w, b, P) /\ Handled(x, f, y)
<1> DEFINE y == HandleFrame(e, x, f, aged)
<1>1. x \in XType /\ x.c \in CtlType /\ x.s \in SndType /\ x.r \in RcvType
  BY Zenon DEF StreamOK, XType
<1>2. Section(e, x, x, t, w, b, P)
  BY <1>1, SectionStart
<1>3. CASE x.c.life # "alive"
  <2>1. y = HandleFrameDead(e, x, f)
    BY <1>3, Zenon DEF HandleFrame
  <2> HIDE DEF y
  <2>2. Section(e, x, y, t, w, b, P) /\ HeardDead(x, y)
    BY <1>1, <1>2, <2>1, HandleFrameDeadData
  <2>3. Quiet(x) => Quiet(y)
    BY <2>2, Zenon DEF Quiet, SameData, HeardDead
  <2>4. y.r.rcvNxt = x.r.rcvNxt /\ y.r.ooo \subseteq x.r.ooo
    BY <2>2, Zenon DEF SameData, HeardDead
  <2>5. Handled(x, f, y)
    BY <2>2, <2>3, <2>4, Zenon DEF Handled, HeardDead
  <2>6. QED
    BY <2>2, <2>5 DEF y
<1>4. CASE x.c.life = "alive"
  <2> DEFINE h == Heard(x)
  <2>1. /\ h \in XType /\ h.s = x.s /\ h.r = x.r /\ h.out = x.out
        /\ SameCtl(x.c, h.c)
    BY <1>1, Zenon DEF Heard, XType, CtlType, SameCtl
  <2> HIDE DEF h
  <2>2. SameSnd(x.s, h.s) /\ SameData(x.r, h.r)
    BY <2>1, Zenon DEF SameSnd, SameData
  <2>3. Section(e, x, h, t, w, b, P)
    BY <1>1, <1>2, <2>1, <2>2, SectionSame
  <2>4. h.c.life = "alive"
    BY <1>4, <2>1 DEF SameCtl
  <2>5. CASE f.typ = "rst"
    <3>1. y = Abort(h, FALSE)
      BY <1>4, <2>5, Zenon DEF HandleFrame, h
    <3> HIDE DEF y
    <3>2. Section(e, x, y, t, w, b, P) /\ Ended(h, y)
      BY <2>1, <2>3, <2>4, <3>1, AbortData
    <3>3. /\ y.c.src = x.c.src /\ y.c.opened = x.c.opened /\ y.r.rcvNxt = x.r.rcvNxt
          /\ y.r.ooo \subseteq x.r.ooo /\ y.s.sndUna = x.s.sndUna
          /\ y.c.life \notin {"none", "gone"}
      BY <2>1, <3>2 DEF Ended, SameCtl
    <3>4. Quiet(x) => Quiet(y)
      <4>1. Quiet(x) => (h.c.conn # "up" => h.c.wr = "off")
        BY <2>1, Zenon DEF Quiet, SameCtl
      <4>2. QED
        BY <3>2, <4>1, EndedIsQuiet
    <3>5. Handled(x, f, y)
      BY <3>3, <3>4, Zenon DEF Handled
    <3>6. QED
      BY <3>2, <3>5 DEF y
  <2>6. CASE f.typ # "rst"
    <3> DEFINE a == TakeAck(e, h, f, aged)
               g == TakeSegment(e, a, f)
               q == TakeProbe(e, g, f)
    <3>1. y = MaybeFinish(q)
      BY <1>4, <2>6, Zenon DEF HandleFrame, h
    <3>2. StreamOK(e, h)
      <4>1. /\ SndAwake(x.c, x.s) /\ RcvAwake(x.c, x.r) /\ InWindow(e, x.r)
            /\ DialOK(e, x.c)
        BY <1>4, Zenon DEF StreamOK
      <4>2. SndAwake(h.c, h.s) /\ RcvAwake(h.c, h.r) /\ DialOK(e, h.c)
        BY <2>1, <4>1, Zenon DEF SndAwake, RcvAwake, DialOK, SameCtl
      <4>3. QED
        BY <2>1, <4>1, <4>2, Zenon DEF StreamOK
    <3>3. StreamOK(e, a) /\ a.c.life = "alive"
      BY <2>4, <3>2, TakeAckOK
    <3>4. /\ Section(e, x, a, t, w, b, P) /\ SameCtl(h.c, a.c) /\ SameData(h.r, a.r)
          /\ f.ack <= h.s.sndNxt => f.ack <= a.s.sndUna
      BY <1>1, <2>3, <2>4, <3>2, TakeAckData
    <3>5. StreamOK(e, g)
      BY <3>3, TakeSegmentOK
    <3>6. StreamOK(e, q)
      BY <3>5, TakeProbeOK
    <3> HIDE DEF y, q, g, a
    <3>7. Wide /\ f.typ \in SegTypes /\ f.seq = a.r.rcvNxt
            => P.last <= a.r.rcvNxt + (Window[e] - a.r.rcvQueued)
      <4>1. a.r.rcvNxt = x.r.rcvNxt /\ a.r.rcvQueued = x.r.rcvQueued
        BY <2>1, <3>4, Zenon DEF SameData
      <4>2. QED
        BY <4>1, Zenon
    <3>8. ViewOf(e, x, t) \in ViewType
      BY <1>1, ViewTyped DEF DataOK, ViewOK
    <3>9. /\ Section(e, x, g, t, w, b, P)
          /\ g.s = a.s /\ g.c.src = a.c.src /\ g.c.life = "alive"
          /\ g.c.wr = a.c.wr /\ (g.c.conn = "up" <=> a.c.conn = "up")
          /\ f.typ \notin SegTypes => g = a
          /\ g.c.opened /\ ~a.c.opened => f.typ = "open"
      BY <1>1, <3>3, <3>4, <3>7, <3>8, TakeSegmentData DEF g
    <3>10. Section(e, x, q, t, w, b, P) /\ q.c = g.c /\ q.s = g.s /\ SameData(g.r, q.r)
      <4>1. g \in XType
        BY <3>5, Zenon DEF StreamOK
      <4>2. QED
        BY <3>9, <4>1, TakeProbeData DEF q
    <3>11. Section(e, x, y, t, w, b, P) /\ (y = q \/ (q.c.life = "alive" /\ Ended(q, y)))
      <4>1. q \in XType
        BY <3>6, Zenon DEF StreamOK
      <4>2. QED
        BY <3>1, <3>10, <4>1, MaybeFinishData
    \* What q is, in terms of x.
    <3>12. /\ q.c.src = x.c.src /\ q.c.life = "alive" /\ q.c.wr = x.c.wr
           /\ q.c.conn = "up" <=> x.c.conn = "up"
           /\ q.c.opened /\ ~x.c.opened => f.typ = "open"
      BY <2>1, <3>4, <3>9, <3>10, Zenon DEF SameCtl
    <3>13. f.typ \notin SegTypes => q.r.rcvNxt = x.r.rcvNxt /\ q.r.ooo = x.r.ooo
      BY <2>1, <3>4, <3>9, <3>10, Zenon DEF SameData
    <3>14. f.ack <= x.s.sndNxt => f.ack <= q.s.sndUna
      BY <2>1, <3>4, <3>9, <3>10, Zenon
    <3>15. /\ y.c.src = q.c.src /\ y.c.opened = q.c.opened /\ y.r.rcvNxt = q.r.rcvNxt
           /\ y.r.ooo \subseteq q.r.ooo /\ y.s.sndUna = q.s.sndUna
           /\ y.c.life \notin {"none", "gone"}
      BY <3>11, <3>12 DEF Ended
    <3>16. Quiet(x) => Quiet(y)
      <4>1. Quiet(x) => (q.c.conn # "up" => q.c.wr = "off")
        BY <3>12, Zenon DEF Quiet
      <4>2. ASSUME Quiet(x), y = q PROVE Quiet(y)
        BY <3>12, <4>1, <4>2 DEF Quiet
      <4>3. QED
        BY <3>11, <4>1, <4>2, EndedIsQuiet
    <3>17. \/ y.r.rcvNxt = x.r.rcvNxt /\ y.r.ooo \subseteq x.r.ooo
           \/ f.typ \in SegTypes /\ (f.ack <= x.s.sndNxt => f.ack <= y.s.sndUna)
      BY <3>13, <3>14, <3>15, Zenon
    <3>18. Handled(x, f, y)
      BY <2>6, <3>12, <3>15, <3>16, <3>17, Zenon DEF Handled
    <3>19. QED
      BY <3>11, <3>18 DEF y
  <2>7. QED
    BY <2>5, <2>6
<1>5. QED
  BY <1>3, <1>4

-----------------------------------------------------------------------------
(* The loops.                                                              *)

\* y is x but for readLoop, the dial, the timers and the delayed ACK.
AtTop(x, y) ==
  /\ SameSnd(x.s, y.s) /\ SameData(x.r, y.r)
  /\ y.c.life = x.c.life /\ y.c.src = x.c.src /\ y.c.opened = x.c.opened
  /\ y.c.wr = x.c.wr

\* Then it is as sound, if readLoop reads no more than it may send.
LEMMA AtTopOK ==
  ASSUME NEW e, NEW x, NEW y, AtTop(x, y), NEW t, NEW w, NEW b, NEW P,
         y.c.life = "alive" /\ y.c.rd = "read" => y.s.sndNxt + y.c.rdMax <= y.s.sndRight
  PROVE  /\ ViewOf(e, y, t) = ViewOf(e, x, t)
         /\ DataOK(e, x, t, w, b, P) => DataOK(e, y, t, w, b, P)
<1>1. ViewOf(e, y, t) = ViewOf(e, x, t)
  BY Zenon DEF ViewOf, AtTop, SameSnd, SameData
<1>2. SndOK(e, x, t) => SndOK(e, y, t)
  BY <1>1, Zenon DEF SndOK, AtTop, SameSnd
<1>3. SndWindow(e, x, t, P) => SndWindow(e, y, t, P)
  BY Zenon DEF SndWindow, Right, AtTop, SameSnd
<1>4. RcvOK(e, x, w, b, P) => RcvOK(e, y, w, b, P)
  <2>1. CloseOK(Peer(e), x.c, x.r, w, b, P) => CloseOK(Peer(e), y.c, y.r, w, b, P)
    BY Zenon DEF CloseOK, AtTop, SameData
  <2>2. y.c.life = x.c.life /\ SameData(x.r, y.r)
    BY DEF AtTop
  <2>3. QED
    BY <2>1, <2>2, DataKeeps, Zenon DEF RcvOK
<1>5. OpenFirst(e, x) => OpenFirst(e, y)
  BY Zenon DEF OpenFirst, AtTop, SameSnd, SameData
<1>6. QED
  BY <1>1, <1>2, <1>3, <1>4, <1>5, Zenon DEF DataOK, AtTop, SameSnd

\* readLoop up to its next blocking point: it reads no more than the window takes.
\* v is x before readLoop looks at the window.
LEMMA ReadTopData ==
  ASSUME NEW e \in Ends, NEW x \in XType, NEW t \in Nat, NEW w, NEW b, NEW P,
         NEW v, AtTop(v, x), DataOK(e, v, t, w, b, P), NEW y, y = ReadTop(x)
  PROVE  /\ DataOK(e, y, t, w, b, P) /\ AtTop(x, y)
         /\ y.out = x.out /\ y.r = x.r /\ y.c.conn = x.c.conn
<1> DEFINE space == x.s.sndRight - x.s.sndNxt
           room == space >= Mss \/ (space > 0 /\ x.s.unacked = {})
           n == Smaller(space, Mss)
           c1 == [x.c EXCEPT !.rd = "read", !.rdMax = n]
           p == [x EXCEPT !.c = c1]
           s2 == ArmTimerIfOff(x.s)
           c2 == [x.c EXCEPT !.rd = "wait"]
           z == [x EXCEPT !.c.rd = "wait", !.s = s2]
<1>1. x.c \in CtlType /\ x.s \in SndType /\ x.r \in RcvType
  BY Zenon DEF XType
<1>2. x.s.sndRight \in Nat /\ x.s.sndNxt \in Nat /\ Mss \in Nat /\ Mss # 0
  BY <1>1, MssAssumption DEF SndType
<1>3. SameData(x.r, x.r)
  BY DEF SameData
<1>4. ASSUME NEW q, AtTop(x, q), q.out = x.out, q.r = x.r,
             q.c.rd = "read" => q.s.sndNxt + q.c.rdMax <= q.s.sndRight
      PROVE  DataOK(e, q, t, w, b, P)
  <2>1. AtTop(v, q)
    BY <1>4, Zenon DEF AtTop, SameSnd, SameData
  <2>2. QED
    BY <1>4, <2>1, AtTopOK
<1>5. CASE room
  <2>1. /\ c1.rd = "read" /\ c1.rdMax = n /\ c1.life = x.c.life /\ c1.src = x.c.src
        /\ c1.opened = x.c.opened /\ c1.conn = x.c.conn /\ c1.wr = x.c.wr
    BY <1>1, Zenon DEF CtlType
  <2>2. n <= space /\ space \in Int /\ n \in Int
    BY <1>2 DEF Smaller
  <2>3. x.s.sndNxt + n <= x.s.sndRight
    BY <1>2, <2>2
  <2>4. y = p
    BY <1>5, Zenon DEF ReadTop
  <2> HIDE DEF c1, n
  <2>5. p.c = c1 /\ p.s = x.s /\ p.r = x.r /\ p.out = x.out
    BY Zenon DEF XType
  <2> HIDE DEF p
  <2>6. AtTop(x, p)
    BY <1>3, <2>1, <2>5, Zenon DEF AtTop, SameSnd
  <2>7. p.s.sndNxt + p.c.rdMax <= p.s.sndRight
    BY <2>1, <2>3, <2>5
  <2>8. DataOK(e, p, t, w, b, P)
    BY <1>4, <2>5, <2>6, <2>7
  <2>9. QED
    BY <2>1, <2>4, <2>5, <2>6, <2>8
<1>6. CASE ~room
  <2>1. SameSnd(x.s, s2)
    BY <1>1, ArmTimerData DEF SameSnd
  <2>2. /\ c2.rd = "wait" /\ c2.life = x.c.life /\ c2.src = x.c.src
        /\ c2.opened = x.c.opened /\ c2.conn = x.c.conn /\ c2.wr = x.c.wr
    BY <1>1, Zenon DEF CtlType
  <2>3. y = z
    BY <1>6, Zenon DEF ReadTop
  <2> HIDE DEF s2
  <2>4. z.c = c2 /\ z.s = s2 /\ z.r = x.r /\ z.out = x.out
    BY Zenon DEF XType
  <2> HIDE DEF z, c2
  <2>5. AtTop(x, z)
    BY <1>3, <2>1, <2>2, <2>4, Zenon DEF AtTop
  <2>6. z.c.rd # "read"
    BY <2>2, <2>4
  <2>7. DataOK(e, z, t, w, b, P)
    BY <1>4, <2>4, <2>5, <2>6
  <2>8. QED
    BY <2>2, <2>3, <2>4, <2>5, <2>7
<1>7. QED
  BY <1>5, <1>6

\* startLocked on a stream that nothing was written for yet.
LEMMA StartLoopsData ==
  ASSUME NEW e \in Ends, NEW x \in XType, NEW t \in Nat, NEW w, NEW b, NEW P,
         x.c.life = "alive", x.c.wr = "off", DataOK(e, x, t, w, b, P),
         NEW y, y = StartLoops(x)
  PROVE  /\ DataOK(e, y, t, w, b, P) /\ SameSnd(x.s, y.s) /\ SameData(x.r, y.r)
         /\ y.out = x.out /\ y.c.life = "alive" /\ y.c.src = x.c.src
         /\ y.c.opened = x.c.opened /\ y.c.conn = "up"
<1> DEFINE c1 == [x.c EXCEPT !.conn = "up", !.wr = "wait"]
           c2 == [c1 EXCEPT !.rd = "off"]
           r1 == [x.r EXCEPT !.writeCh = TRUE]
           p == [x EXCEPT !.c = c1, !.r.writeCh = TRUE]
           v == [c |-> c2, s |-> x.s, r |-> x.r, out |-> {}]
<1>1. x.c \in CtlType /\ x.s \in SndType /\ x.r \in RcvType
  BY Zenon DEF XType
<1>2. /\ c1.conn = "up" /\ c1.wr = "wait" /\ c1.life = x.c.life /\ c1.src = x.c.src
      /\ c1.opened = x.c.opened /\ c1 \in CtlType
  BY <1>1, Zenon DEF CtlType
<1>3. /\ c2.conn = "up" /\ c2.wr = "wait" /\ c2.life = x.c.life /\ c2.src = x.c.src
      /\ c2.opened = x.c.opened /\ c2.rd = "off"
  BY <1>2, Zenon DEF CtlType
<1>4. SameData(x.r, r1) /\ r1 \in RcvType
  BY <1>1, Zenon DEF RcvType, SameData
<1>5. y = ReadTop(p)
  BY Zenon DEF StartLoops
<1> HIDE DEF c2
<1>6. v.c = c2 /\ v.s = x.s /\ v.r = x.r
  OBVIOUS
<1> HIDE DEF v
<1>7. p.c = c1 /\ p.s = x.s /\ p.r = r1 /\ p.out = x.out /\ p \in XType
  BY <1>1, <1>2, <1>4, Zenon DEF XType
<1> HIDE DEF p, c1, r1
<1>8. DataOK(e, v, t, w, b, P)
  <2>1. /\ SndOK(e, x, t) /\ SndWindow(e, x, t, P) /\ RcvOK(e, x, w, b, P)
        /\ OpenFirst(e, x) /\ x.s.sndUna <= P.rcv
    BY Zenon DEF DataOK
  <2>2. ViewOf(e, v, t) = ViewOf(e, x, t)
    BY <1>3, <1>6, Zenon DEF ViewOf
  <2>3. SndOK(e, v, t)
    BY <1>3, <1>6, <2>1, <2>2, Zenon DEF SndOK
  <2>4. SndWindow(e, v, t, P)
    <3>1. c2.rd # "read"
      BY <1>3
    <3>2. QED
      BY <1>3, <1>6, <2>1, <3>1, Zenon DEF SndWindow, Right
  <2>5. RcvOK(e, v, w, b, P)
    <3>1. x.c.wr # "write" /\ c2.wr # "close" /\ c2.wr # "write"
      BY <1>3
    <3>2. CloseOK(Peer(e), c2, x.r, w, b, P)
      BY <2>1, <3>1, Zenon DEF CloseOK, RcvOK
    <3>3. QED
      BY <1>3, <1>6, <2>1, <3>2, Zenon DEF RcvOK
  <2>6. OpenFirst(e, v)
    BY <1>3, <1>6, <2>1, Zenon DEF OpenFirst
  <2>7. QED
    BY <1>6, <2>1, <2>3, <2>4, <2>5, <2>6, Zenon DEF DataOK
<1>9. AtTop(v, p)
  BY <1>2, <1>3, <1>4, <1>6, <1>7, Zenon DEF AtTop, SameSnd
<1>10. /\ DataOK(e, y, t, w, b, P) /\ AtTop(p, y) /\ y.out = p.out /\ y.r = p.r
       /\ y.c.conn = p.c.conn
  BY <1>5, <1>7, <1>8, <1>9, ReadTopData
<1>11. QED
  BY <1>2, <1>4, <1>7, <1>10, Zenon DEF AtTop, SameSnd

\* queueSegmentLocked, but for the timer.
LEMMA QueueSegmentData ==
  ASSUME NEW s \in SndType, NEW g \in Segment
  PROVE  LET u == QueueSegment(s, g) IN
         /\ u.sndUna = s.sndUna /\ u.sndNxt = SegEnd(g) /\ u.sndRight = s.sndRight
         /\ u.unacked = s.unacked \cup {g}
         /\ u.finQueued <=> s.finQueued \/ g.typ = "fin"
<1> DEFINE v == [s EXCEPT !.unacked = @ \cup {g}, !.sndNxt = SegEnd(g),
                          !.finQueued = @ \/ g.typ = "fin"]
<1>1. SegEnd(g) \in Nat
  BY DEF SegEnd, Segment
<1>2. (s.finQueued \/ g.typ = "fin") \in BOOLEAN /\ s.unacked \cup {g} \in SUBSET Segment
  BY Zenon DEF SndType
<1>3. /\ v \in SndType /\ v.sndUna = s.sndUna /\ v.sndNxt = SegEnd(g)
      /\ v.sndRight = s.sndRight /\ v.unacked = s.unacked \cup {g}
      /\ v.finQueued <=> s.finQueued \/ g.typ = "fin"
  BY <1>1, <1>2, Zenon DEF SndType
<1>4. QueueSegment(s, g) = ArmTimerIfOff(v)
  BY Zenon DEF QueueSegment
<1> HIDE DEF v
<1>5. QED
  BY <1>3, <1>4, ArmTimerData, Zenon

\* Segment g is the next one of stream x after t bytes: DATA of n bytes, or the FIN.
NextSegment(x, g, t, n) ==
  /\ g \in Segment /\ g.seq = x.s.sndNxt /\ g.src = x.c.src
  /\ \/ g.typ = "data" /\ g.len = n /\ g.lo = t + 1
     \/ g.typ = "fin" /\ g.len = 1 /\ n = 0

\* readLoop has read n bytes, or the end of its connection.
HasRead(e, x, n) ==
  /\ x.c.life = "alive" /\ x.c.rd = "read" /\ ~x.s.finQueued
  /\ e = "server" => x.c.opened
  /\ n <= x.c.rdMax

\* v is x with segment g queued and sent.
WithSegment(e, x, g, v) ==
  /\ v.c.rd = "off" /\ v.c.life = x.c.life /\ v.c.src = x.c.src
  /\ v.c.opened = x.c.opened /\ v.c.wr = x.c.wr
  /\ v.s = QueueSegment(x.s, g) /\ v.r = FillAck(e, x.r)
  /\ v.out = {SegFrame(e, x.r, g)}

\* What that means: the view grows to t2 bytes, and g is the only new segment.
Extends(e, x, t, g, v, t2) ==
  /\ Grows(ViewOf(e, x, t), ViewOf(e, v, t2))
  /\ \A f \in v.out : FrameFits(e, ViewOf(e, v, t2), f) /\ SegOf(f) = g
  /\ v.s.unacked = x.s.unacked \cup {g} /\ v.s.sndUna = x.s.sndUna
  /\ SameData(x.r, v.r)

\* readLoop queues the next segment, which the window takes, and looks for room
\* again: v is the stream before it does.
LEMMA QueuedData ==
  ASSUME NEW e \in Ends, NEW x \in XType, NEW t \in Nat, NEW w, NEW b \in Seq(Bytes),
         NEW P, ViewOK(Peer(e), P), DataOK(e, x, t, w, b, P),
         NEW n \in Nat, HasRead(e, x, n), NEW g, NextSegment(x, g, t, n),
         NEW v \in XType, WithSegment(e, x, g, v)
  PROVE  DataOK(e, v, t + n, w, b, P) /\ Extends(e, x, t, g, v, t + n)
<1> SUFFICES
      ASSUME x.c.life = "alive", x.c.rd = "read", ~x.s.finQueued,
             e = "server" => x.c.opened, n <= x.c.rdMax,
             v.c.rd = "off", v.c.life = x.c.life, v.c.src = x.c.src,
             v.c.opened = x.c.opened, v.c.wr = x.c.wr,
             v.s = QueueSegment(x.s, g), v.r = FillAck(e, x.r),
             v.out = {SegFrame(e, x.r, g)}
      PROVE  DataOK(e, v, t + n, w, b, P) /\ Extends(e, x, t, g, v, t + n)
  BY DEF HasRead, WithSegment
<1> DEFINE V == ViewOf(e, x, t)
           W == ViewOf(e, v, t + n)
<1>1. x.c \in CtlType /\ x.s \in SndType /\ x.r \in RcvType
  BY Zenon DEF XType
<1>2. /\ SndOK(e, x, t) /\ SndWindow(e, x, t, P) /\ RcvOK(e, x, w, b, P)
      /\ OpenFirst(e, x) /\ x.s.sndUna <= P.rcv
  BY Zenon DEF DataOK
<1>3. /\ g \in Segment /\ g.seq = x.s.sndNxt /\ g.src = x.c.src
      /\ g.seq \in Nat /\ g.len \in Nat \ {0} /\ g.lo \in Nat
  BY DEF NextSegment, Segment
<1>4. /\ v.s.sndUna = x.s.sndUna /\ v.s.sndNxt = SegEnd(g) /\ v.s.sndRight = x.s.sndRight
      /\ v.s.unacked = x.s.unacked \cup {g}
      /\ v.s.finQueued <=> g.typ = "fin"
  BY <1>1, <1>3, QueueSegmentData
<1>5. SameData(x.r, v.r)
  BY <1>1, FillAckData
<1>6. /\ x.s.sndNxt \in Nat /\ x.s.sndUna \in Nat /\ x.s.sndRight \in Nat
      /\ x.c.rdMax \in Nat /\ Base(e) \in Nat /\ x.s.sndUna <= x.s.sndNxt
      /\ x.s.sndNxt = Base(e) + t
  BY <1>1, <1>2 DEF SndType, CtlType, Base, SndOK
<1>7. x.c.src = (IF e = "client" THEN 1 ELSE x.c.src) /\ 1 <= x.c.src
  BY <1>2 DEF SndOK
\* Where the segment lies.
<1>8. /\ SegEnd(g) = Base(e) + t + g.len /\ x.s.sndNxt < SegEnd(g) /\ x.s.sndUna < SegEnd(g)
      /\ SegEnd(g) \in Nat
  <2> DEFINE bs == Base(e)
             q == g.seq
             l == g.len
             u == x.s.sndUna
  <2>1. bs \in Nat /\ q \in Nat /\ l \in Nat \ {0} /\ u \in Nat /\ u <= q /\ q = bs + t
    BY <1>3, <1>6
  <2>2. SegEnd(g) = q + l /\ x.s.sndNxt = q
    BY <1>3 DEF SegEnd
  <2> HIDE DEF bs, q, l, u
  <2>3. q + l = bs + t + l /\ q < q + l /\ u < q + l /\ q + l \in Nat
    BY <2>1
  <2>4. QED
    BY <2>2, <2>3 DEF bs, l, u
<1>9. \/ /\ g.typ = "data" /\ SegEnd(g) = Base(e) + (t + n) /\ g.lo = (g.seq - Base(e)) + 1
      \/ g.typ = "fin" /\ g.len = 1 /\ n = 0 /\ SegEnd(g) = Base(e) + (t + n) + 1
  <2>1. CASE g.typ = "data" /\ g.len = n /\ g.lo = t + 1
    BY <1>3, <1>6, <1>8, <2>1
  <2>2. CASE g.typ = "fin" /\ g.len = 1 /\ n = 0
    BY <1>6, <1>8, <2>2
  <2>3. QED
    BY <2>1, <2>2 DEF NextSegment
<1>10. /\ V.src = (IF e = "client" THEN 1 ELSE x.c.src) /\ V.nxt = x.s.sndNxt
       /\ V.last = Base(e) + t /\ V.fin = x.s.finQueued /\ V.rcv = x.r.rcvNxt
       /\ V.edge = x.r.rcvNxt + (Window[e] - x.r.rcvQueued)
  BY Zenon DEF ViewOf
<1>11. /\ W.src = V.src /\ W.nxt = SegEnd(g) /\ W.last = Base(e) + (t + n)
       /\ W.fin <=> g.typ = "fin"
       /\ W.rcv = V.rcv /\ W.edge = V.edge
  BY <1>4, <1>5, <1>10, Zenon DEF ViewOf, SameData
<1>12. V \in ViewType
  BY <1>2, ViewTyped DEF ViewOK
<1>13. W \in ViewType
  <2>1. /\ W.src \in Nat /\ W.nxt \in Nat /\ W.last \in Nat /\ W.rcv \in Nat /\ W.edge \in Int
    <3>1. Base(e) + (t + n) \in Nat
      BY <1>6
    <3>2. V.src \in Nat /\ V.rcv \in Nat /\ V.edge \in Int
      BY <1>12, Zenon DEF ViewType
    <3> HIDE DEF V, W
    <3>3. QED
      BY <1>8, <1>11, <3>1, <3>2, Zenon
  <2>2. v.s.finQueued \in BOOLEAN
    BY Zenon DEF XType, SndType
  <2>3. QED
    BY <2>1, <2>2, Zenon DEF ViewOf, ViewType
<1>14. Grows(V, W)
  <2>1. V.nxt <= W.nxt /\ V.last <= W.last /\ V.rcv <= W.rcv /\ V.edge <= W.edge
    BY <1>6, <1>8, <1>10, <1>11, <1>12 DEF ViewType
  <2>2. QED
    BY <1>10, <1>11, <2>1, Zenon DEF Grows
<1> HIDE DEF V, W
<1>15. IsSegOf(e, W, g)
  <2>1. g.src = W.src /\ SegEnd(g) <= W.nxt
    BY <1>3, <1>7, <1>8, <1>10, <1>11
  <2>2. \/ /\ g.typ = "data" /\ Base(e) <= g.seq /\ SegEnd(g) <= W.last
           /\ g.lo = (g.seq - Base(e)) + 1
        \/ g.typ = "fin" /\ W.fin /\ g.seq = W.last /\ g.len = 1
    BY <1>3, <1>6, <1>8, <1>9, <1>11
  <2>3. QED
    BY <2>1, <2>2, Zenon DEF IsSegOf
<1>16. SndOK(e, v, t + n)
  <2>1. ASSUME NEW h \in v.s.unacked PROVE IsSegOf(e, W, h) /\ v.s.sndUna < SegEnd(h)
    <3>1. CASE h = g
      BY <1>4, <1>8, <1>15, <3>1
    <3>2. CASE h \in x.s.unacked
      <4>1. IsSegOf(e, V, h) /\ x.s.sndUna < SegEnd(h)
        BY <1>2, <3>2, Zenon DEF SndOK, V
      <4>2. h \in Segment
        BY <1>1, <3>2, Zenon DEF SndType
      <4>3. QED
        BY <1>4, <1>12, <1>13, <1>14, <4>1, <4>2, SegGrows
    <3>3. QED
      BY <1>4, <3>1, <3>2
  <2>2. /\ v.s.finQueued => v.s.sndNxt = Base(e) + (t + n) + 1
        /\ ~v.s.finQueued => v.s.sndNxt = Base(e) + (t + n)
    BY <1>4, <1>9
  <2>3. ~v.s.finQueued => v.s.sndNxt <= Base(e) + (t + n)
    BY <1>6, <2>2
  <2>4. v.s.sndUna <= v.s.sndNxt
    BY <1>4, <1>6, <1>8
  <2>5. v.c.life # "finished" /\ v.c.life # "none"
    OBVIOUS
  <2>6. 1 <= v.c.src /\ (e = "client" => v.c.src = 1)
    BY <1>7
  <2>7. QED
    BY <2>1, <2>2, <2>3, <2>4, <2>5, <2>6, Zenon DEF SndOK, W
<1>17. SndWindow(e, v, t + n, P)
  <2>1. Right(e, v, P) = Right(e, x, P)
    BY <1>4, Zenon DEF Right
  <2>2. Right(e, x, P) \in Int
    <3>1. P.edge \in Int /\ Window[Peer(e)] \in Int
      BY PeerIsEnd, WindowAssumption DEF ViewOK, ViewType
    <3>2. QED
      BY <3>1 DEF Right
  <2>3. /\ Wide => /\ Base(e) + t <= Right(e, x, P)
                   /\ x.s.sndRight <= Right(e, x, P)
        /\ x.s.sndNxt + x.c.rdMax <= x.s.sndRight
    BY <1>2 DEF SndWindow
  <2> DEFINE rt == Right(e, x, P)
  <2> HIDE DEF rt
  <2>4. Wide => Base(e) + (t + n) <= rt
    BY <1>6, <2>2, <2>3 DEF rt
  <2>5. v.c.rd # "read"
    OBVIOUS
  <2>6. QED
    BY <1>4, <2>1, <2>3, <2>4, <2>5, Zenon DEF SndWindow, rt
<1>18. RcvOK(e, v, w, b, P)
  <2>1. CloseOK(Peer(e), x.c, x.r, w, b, P) => CloseOK(Peer(e), v.c, v.r, w, b, P)
    BY <1>5, Zenon DEF CloseOK, SameData
  <2>2. QED
    BY <1>2, <1>5, <2>1, DataKeeps, Zenon DEF RcvOK
<1>19. OpenFirst(e, v)
  BY <1>2, <1>5, Zenon DEF OpenFirst, SameData
<1>20. DataOK(e, v, t + n, w, b, P)
  BY <1>2, <1>4, <1>16, <1>17, <1>18, <1>19, Zenon DEF DataOK
<1>21. ASSUME NEW f \in v.out PROVE FrameFits(e, W, f) /\ SegOf(f) = g
  <2>1. f = SegFrame(e, x.r, g)
    OBVIOUS
  <2>2. SegOf(f) = g /\ f.ack = x.r.rcvNxt
    BY <1>3, <2>1, SegFrameCarries
  <2>3. RcvCount(e, x.r, b)
    BY <1>2, Zenon DEF RcvOK
  <2>4. Told(e, x.r, f)
    BY <1>1, <2>1, <2>3, FramesTell
  <2>5. Told(e, v.r, f) /\ f.ack = v.r.rcvNxt
    BY <1>5, <2>2, <2>4, DataKeeps DEF SameData
  <2>6. SegOf(f) \in v.s.unacked /\ t + n \in Nat
    BY <1>4, <2>2
  <2>7. FrameFits(e, ViewOf(e, v, t + n), f)
    BY <1>16, <1>19, <2>5, <2>6, ToldFits
  <2>8. QED
    BY <2>2, <2>7 DEF W
<1>22. QED
  BY <1>4, <1>5, <1>14, <1>20, <1>21 DEF V, W, Extends

\* bufs.WriteTo returned: the batch b is written, and the window opens.
LEMMA BatchWritten ==
  ASSUME NEW e \in Ends, NEW x \in XType, NEW t \in Nat,
         NEW w \in Seq(Bytes), NEW b \in Seq(Bytes), NEW P,
         DataOK(e, x, t, w, b, P), x.c.wr = "write",
         NEW v \in XType, v.c = x.c, v.s = x.s,
         v.r = [x.r EXCEPT !.rcvQueued = @ - Len(b)]
  PROVE  /\ DataOK(e, v, t, w \o b, <<>>, P)
         /\ Grows(ViewOf(e, x, t), ViewOf(e, v, t))
         /\ v.r.rcvNxt = x.r.rcvNxt /\ v.r.ooo = x.r.ooo /\ v.r.rcvQueue = x.r.rcvQueue
         /\ v.r.ackTimerSet = x.r.ackTimerSet
<1> DEFINE V == ViewOf(e, x, t)
           W == ViewOf(e, v, t)
           d == Peer(e)
           lw == Len(w)
           lb == Len(b)
           lq == Len(x.r.rcvQueue)
           n == x.r.rcvNxt
           m == x.r.rcvQueued
           wd == Window[e]
<1>1. x.c \in CtlType /\ x.s \in SndType /\ x.r \in RcvType
  BY Zenon DEF XType
<1>2. /\ SndOK(e, x, t) /\ SndWindow(e, x, t, P) /\ RcvOK(e, x, w, b, P)
      /\ OpenFirst(e, x) /\ x.s.sndUna <= P.rcv
  BY Zenon DEF DataOK
<1>3. /\ v.r.rcvNxt = n /\ v.r.ooo = x.r.ooo /\ v.r.rcvQueue = x.r.rcvQueue
      /\ v.r.rcvQueued = m - lb /\ v.r.rcvFin = x.r.rcvFin
      /\ v.r.finWritten = x.r.finWritten /\ v.r.ackTimerSet = x.r.ackTimerSet
  BY <1>1, Zenon DEF RcvType
<1>4. /\ RcvData(d, x.r, w, b, P) /\ RcvCount(e, x.r, b) /\ CloseOK(d, x.c, x.r, w, b, P)
      /\ x.c.life = "alive" => Complete(d, x.r, w, b)
  BY <1>2, Zenon DEF RcvOK
<1>5. /\ lw \in Nat /\ lb \in Nat /\ lq \in Nat /\ n \in Nat /\ m \in Int /\ wd \in Nat
      /\ lb + lq <= m /\ m <= n /\ (Wide => m <= wd)
  BY <1>1, <1>4, WindowAssumption DEF RcvType, RcvCount
<1>6. /\ w \o b \in Seq(Bytes) /\ Len(w \o b) = lw + lb /\ Len(<<>>) = 0
      /\ Run(w \o b, P.src, 0)
  <2>1. Run(w, P.src, 0) /\ Run(b, P.src, 0 + Len(w))
    BY <1>4 DEF RcvData
  <2>2. QED
    BY <2>1, RunAppend
<1>7. /\ V.src = W.src /\ V.nxt = W.nxt /\ V.last = W.last /\ V.fin = W.fin
      /\ V.rcv = W.rcv /\ V.edge = n + (wd - m) /\ W.edge = n + (wd - (m - lb))
  BY <1>3, Zenon DEF ViewOf
<1>8. V \in ViewType
  BY <1>2, ViewTyped DEF ViewOK
<1>9. W \in ViewType
  <2>1. /\ v.s.sndNxt \in Nat /\ v.s.finQueued \in BOOLEAN /\ v.r.rcvNxt \in Nat
        /\ v.c.src \in Nat
    BY Zenon DEF XType, SndType, RcvType, CtlType
  <2>2. /\ W.src = (IF e = "client" THEN 1 ELSE v.c.src) /\ W.nxt = v.s.sndNxt
        /\ W.last = Base(e) + t /\ W.fin = v.s.finQueued /\ W.rcv = v.r.rcvNxt
    BY Zenon DEF ViewOf
  <2>3. W.edge \in Int
    BY <1>5, <1>7
  <2>4. (IF e = "client" THEN 1 ELSE v.c.src) \in Nat /\ Base(e) + t \in Nat
    BY <2>1 DEF Base
  <2>5. QED
    BY <2>1, <2>2, <2>3, <2>4, Zenon DEF ViewOf, ViewType
<1>10. Grows(V, W)
  <2>1. V.edge <= W.edge
    <3> HIDE DEF V, W, lw, lb, lq, n, m, wd
    <3>1. QED
      BY <1>5, <1>7
  <2>2. V.nxt <= W.nxt /\ V.last <= W.last /\ V.rcv <= W.rcv
    BY <1>7, <1>8 DEF ViewType
  <2>3. QED
    BY <1>7, <2>1, <2>2, Zenon DEF Grows
<1> HIDE DEF V, W, d, lw, lb, lq, n, m, wd
<1>11. SndOK(e, v, t)
  <2>1. ASSUME NEW g \in v.s.unacked PROVE IsSegOf(e, W, g) /\ v.s.sndUna < SegEnd(g)
    <3>1. IsSegOf(e, V, g) /\ x.s.sndUna < SegEnd(g)
      BY <1>2, <2>1, Zenon DEF SndOK, V
    <3>2. g \in Segment
      BY <1>1, Zenon DEF SndType
    <3>3. QED
      BY <1>8, <1>9, <1>10, <3>1, <3>2, SegGrows
  <2>2. QED
    BY <1>2, <2>1, Zenon DEF SndOK, W
<1>12. SndWindow(e, v, t, P)
  BY <1>2, Zenon DEF SndWindow, Right
<1>13. RcvOK(e, v, w \o b, <<>>, P)
  <2>1. lw + lb + lq <= Passed(d, x.r)
    BY <1>4, Zenon DEF RcvData, lw, lb, lq
  <2>2. lw + lb + 0 = lw + lb
    BY <1>5
  <2>3. Run(v.r.rcvQueue, P.src, Len(w \o b) + Len(<<>>))
    <3>1. Len(w \o b) + Len(<<>>) = lw + lb
      BY <1>6, <2>2
    <3>2. Run(x.r.rcvQueue, P.src, lw + lb)
      BY <1>4, Zenon DEF RcvData, lw, lb
    <3>3. QED
      BY <1>3, <3>1, <3>2
  <2>4. Run(<<>>, P.src, Len(w \o b))
    BY <1>6 DEF Run
  <2>5. Passed(d, v.r) = Passed(d, x.r)
    BY <1>3, Zenon DEF Passed, n
  <2>6. Len(w \o b) + Len(<<>>) + Len(v.r.rcvQueue) = lw + lb + lq
    BY <1>3, <1>6, <2>2, Zenon DEF lq
  <2>7. RcvData(d, v.r, w \o b, <<>>, P)
    BY <1>3, <1>4, <1>6, <2>1, <2>3, <2>4, <2>5, <2>6, Zenon DEF RcvData, n
  <2>8. x.c.life = "alive" => Complete(d, v.r, w \o b, <<>>)
    BY <1>4, <2>5, <2>6, Zenon DEF Complete, lw, lb, lq
  <2>9. RcvCount(e, v.r, <<>>)
    <3>1. 0 + lq <= m - lb /\ m - lb <= n /\ (Wide => m - lb <= wd)
      BY <1>5
    <3>2. QED
      BY <1>3, <1>6, <3>1, Zenon DEF RcvCount, lq, n, wd
  <2>10. CloseOK(d, v.c, v.r, w \o b, <<>>, P)
    <3>1. ASSUME v.c.wr = "close" \/ v.r.finWritten
          PROVE  v.r.rcvFin /\ v.r.rcvQueue = <<>> /\ Len(w \o b) = P.last - Base(d)
      <4>1. x.r.finWritten
        BY <1>3, <3>1
      <4>2. x.r.rcvFin /\ x.r.rcvQueue = <<>> /\ b = <<>> /\ lw = P.last - Base(d)
        BY <1>4, <4>1, Zenon DEF CloseOK, lw
      <4>3. lw + lb = lw
        <5>1. lb = 0
          BY <4>2 DEF lb
        <5>2. QED
          BY <1>5, <5>1
      <4>4. QED
        BY <1>3, <1>6, <4>2, <4>3
    <3>2. QED
      BY <3>1, Zenon DEF CloseOK
  <2>11. QED
    BY <2>7, <2>8, <2>9, <2>10, Zenon DEF RcvOK, d
<1>14. OpenFirst(e, v)
  BY <1>2, <1>3, Zenon DEF OpenFirst, n
<1>15. QED
  BY <1>2, <1>3, <1>10, <1>11, <1>12, <1>13, <1>14, Zenon DEF DataOK, V, W, n

\* writeLoop up to its next blocking point: what was queued is being written, and
\* the write side is closed only when all bytes were.
LEMMA WriteTopData ==
  ASSUME NEW e \in Ends, NEW x \in XType, NEW t \in Nat,
         NEW w \in Seq(Bytes), NEW P, ViewOK(Peer(e), P), DataOK(e, x, t, w, <<>>, P),
         x.c.life # "alive" => x.r.rcvQueue = <<>>,
         NEW y, y = WriteTop(x)
  PROVE  /\ DataOK(e, y, t, w, x.r.rcvQueue, P)
         /\ ViewOf(e, y, t) = ViewOf(e, x, t) /\ y.s = x.s /\ y.out = x.out
         /\ y.r = [x.r EXCEPT !.rcvQueue = <<>>]
         /\ y.c.life = x.c.life /\ y.c.src = x.c.src /\ y.c.opened = x.c.opened
         /\ y.c.conn = x.c.conn /\ y.c.rd = x.c.rd
         /\ x.c.life # "alive" => y.c.wr = "off"
<1> DEFINE wr == IF x.c.life # "alive" THEN "off"
                 ELSE IF x.r.rcvQueue # <<>> THEN "write"
                 ELSE IF x.r.rcvFin THEN "close" ELSE "wait"
           c1 == [x.c EXCEPT !.wr = wr]
           r1 == [x.r EXCEPT !.rcvQueue = <<>>]
           z == [x EXCEPT !.r.rcvQueue = <<>>, !.c.wr = wr]
           d == Peer(e)
           q == x.r.rcvQueue
           lw == Len(w)
           lq == Len(q)
<1>1. x.c \in CtlType /\ x.s \in SndType /\ x.r \in RcvType
  BY Zenon DEF XType
<1>2. /\ SndOK(e, x, t) /\ SndWindow(e, x, t, P) /\ RcvOK(e, x, w, <<>>, P)
      /\ OpenFirst(e, x) /\ x.s.sndUna <= P.rcv
  BY Zenon DEF DataOK
<1>3. /\ RcvData(d, x.r, w, <<>>, P) /\ RcvCount(e, x.r, <<>>)
      /\ CloseOK(d, x.c, x.r, w, <<>>, P)
      /\ x.c.life = "alive" => Complete(d, x.r, w, <<>>)
  BY <1>2, Zenon DEF RcvOK
<1>4. /\ x.c.life # "alive" => wr = "off" /\ q = <<>>
      /\ wr # "write" => q = <<>>
      /\ wr = "close" => x.r.rcvFin /\ q = <<>> /\ x.c.life = "alive"
  BY Zenon
<1>5. /\ c1.wr = wr /\ c1.life = x.c.life /\ c1.src = x.c.src /\ c1.opened = x.c.opened
      /\ c1.conn = x.c.conn /\ c1.rd = x.c.rd /\ c1.rdMax = x.c.rdMax
  BY <1>1, Zenon DEF CtlType
<1>6. /\ r1.rcvNxt = x.r.rcvNxt /\ r1.ooo = x.r.ooo /\ r1.rcvQueue = <<>>
      /\ r1.rcvQueued = x.r.rcvQueued /\ r1.rcvFin = x.r.rcvFin
      /\ r1.finWritten = x.r.finWritten
  BY <1>1, Zenon DEF RcvType
<1>7. y = z
  BY Zenon DEF WriteTop
<1> HIDE DEF wr
<1>8. z.c = c1 /\ z.s = x.s /\ z.r = r1 /\ z.out = x.out
  BY Zenon DEF XType
<1> HIDE DEF z, c1
<1>9. y.c = c1 /\ y.s = x.s /\ y.r = r1 /\ y.out = x.out
  BY <1>7, <1>8
<1>10. ViewOf(e, y, t) = ViewOf(e, x, t)
  BY <1>5, <1>6, <1>9, Zenon DEF ViewOf
<1>11. q \in Seq(Bytes) /\ lw \in Nat /\ lq \in Nat /\ Len(<<>>) = 0
  BY <1>1 DEF RcvType
<1> HIDE DEF r1, d, q, lw, lq
<1>12. lw + 0 = lw /\ lw + 0 + lq = lw + lq /\ lw + lq + 0 = lw + lq /\ 0 + lq = lq /\ lq + 0 = lq
  BY <1>11
<1>13. RcvData(d, r1, w, q, P)
  <2>1. Run(q, P.src, Len(w))
    BY <1>3, <1>11, <1>12, Zenon DEF RcvData, q, lw
  <2>2. Run(r1.rcvQueue, P.src, Len(w) + Len(q))
    BY <1>6 DEF Run
  <2>3. Passed(d, r1) = Passed(d, x.r)
    BY <1>6, Zenon DEF Passed
  <2>4. Len(w) + Len(q) + Len(r1.rcvQueue) <= Passed(d, r1)
    BY <1>3, <1>6, <1>11, <1>12, <2>3, Zenon DEF RcvData, q, lw, lq
  <2>5. QED
    BY <1>3, <1>6, <2>1, <2>2, <2>4, Zenon DEF RcvData
<1>14. x.c.life = "alive" => Complete(d, r1, w, q)
  <2>1. Passed(d, r1) = Passed(d, x.r)
    BY <1>6, Zenon DEF Passed
  <2>2. QED
    BY <1>3, <1>6, <1>11, <1>12, <2>1, Zenon DEF Complete, q, lw, lq
<1>15. RcvCount(e, r1, q)
  BY <1>3, <1>6, <1>11, <1>12, Zenon DEF RcvCount, q, lq
<1>16. CloseOK(d, c1, r1, w, q, P)
  <2>1. c1.wr # "write" => q = <<>>
    BY <1>4, <1>5
  <2>2. ASSUME x.r.finWritten
        PROVE  r1.rcvFin /\ r1.rcvQueue = <<>> /\ q = <<>> /\ Len(w) = P.last - Base(d)
    BY <1>3, <1>6, <2>2, Zenon DEF CloseOK, q
  <2>3. ASSUME wr = "close"
        PROVE  r1.rcvFin /\ r1.rcvQueue = <<>> /\ q = <<>> /\ Len(w) = P.last - Base(d)
    <3>1. x.r.rcvFin /\ q = <<>> /\ lw = Passed(d, x.r)
      BY <1>3, <1>4, <1>11, <1>12, <2>3 DEF Complete, q, lw
    <3>2. P.fin /\ x.r.rcvNxt = P.nxt /\ P.nxt = P.last + 1 /\ Base(d) <= P.last
      BY <1>3, <3>1 DEF RcvData, ViewOK, d
    <3>3. P.last \in Nat /\ Base(d) \in Nat
      BY DEF ViewOK, ViewType, Base
    <3>4. Passed(d, x.r) = P.last - Base(d)
      BY <3>1, <3>2, <3>3 DEF Passed, Larger
    <3>5. QED
      BY <1>6, <3>1, <3>4 DEF lw
  <2>4. QED
    BY <1>5, <1>6, <2>1, <2>2, <2>3, Zenon DEF CloseOK
<1>17. SndOK(e, y, t)
  BY <1>2, <1>5, <1>9, <1>10, Zenon DEF SndOK
<1>18. SndWindow(e, y, t, P)
  BY <1>2, <1>5, <1>9, Zenon DEF SndWindow, Right
<1>19. RcvOK(e, y, w, q, P)
  BY <1>5, <1>9, <1>13, <1>14, <1>15, <1>16, Zenon DEF RcvOK, d
<1>20. OpenFirst(e, y)
  BY <1>2, <1>5, <1>6, <1>9, Zenon DEF OpenFirst
<1>21. DataOK(e, y, t, w, q, P)
  BY <1>2, <1>9, <1>17, <1>18, <1>19, <1>20, Zenon DEF DataOK
<1>22. QED
  BY <1>4, <1>5, <1>9, <1>10, <1>21 DEF q, r1

-----------------------------------------------------------------------------
(* The inductive invariant.                                                *)

\* The client's OPEN was acknowledged, and no copy of it is left.
OpenDead ==
  /\ ctl["client"].life # "none"
  /\ \A f \in net["server"] \cup pend : f.typ # "open"
  /\ \A g \in snd["client"].unacked : g.typ # "open"

\* tcp_forward created the stream again and will never see its OPEN.
Cut == OpenDead /\ ~ctl["server"].opened /\ 2 <= ctl["server"].src

\* The stream of end e fits the view P of its peer.
Linked(e, P) ==
  /\ ViewOK(Peer(e), P)
  /\ P = View(Peer(e)) \/ (e = "client" /\ Cut)
  /\ e = "client" => P.src <= MaxStreams
  /\ DataOK(e, Stream(e), taken[e], written[e], batch[e], P)

\* Every frame in flight is one its sender may have sent.
InFlight ==
  /\ \A e \in Ends : \A f \in net[e] : FrameFits(Peer(e), View(Peer(e)), f)
  /\ \A f \in pend : FrameFits("client", View("client"), f)

\* tcp_forward answers with segments only after the OPEN, so the client that holds
\* some has had its OPEN acknowledged.
Touched ==
  rcv["client"].rcvNxt # 0 \/ rcv["client"].ooo # {} => 1 <= snd["client"].sndUna

\* The client has received nothing and has seen nothing acknowledged.
Blank ==
  rcv["client"].rcvNxt = 0 /\ rcv["client"].ooo = {} /\ snd["client"].sndUna = 0

\* When tcp_forward does not know the stream, the next one it creates either is the
\* first the client hears of or gets no OPEN.
Gone ==
  ctl["server"].life \in {"none", "gone"} =>
    /\ \A f \in net["client"] : f = RstFrame
    /\ Blank \/ (OpenDead /\ 1 <= ctl["server"].src)

\* Before tcp_listen accepts its connection.
NoneYet ==
  ctl["client"].life = "none" =>
    /\ snd["client"].sndNxt = 0 /\ ~snd["client"].finQueued
    /\ rcv["client"].rcvNxt = 0 /\ taken["client"] = 0

DataInv ==
  /\ IInv
  /\ \A e \in Ends : Quiet(Stream(e))
  /\ \A e \in Ends : \E P : Linked(e, P)
  /\ InFlight /\ Touched /\ Gone /\ NoneYet
  /\ ctl["server"].src <= MaxStreams

\* What fits a view fits it when it has grown.
LEMMA DataGrows ==
  ASSUME NEW e \in Ends, NEW x, x.r \in RcvType, x.s \in SndType,
         NEW t, NEW w, NEW b,
         NEW V, NEW W, ViewOK(Peer(e), V), ViewOK(Peer(e), W), Grows(V, W),
         DataOK(e, x, t, w, b, V), t \in Nat
  PROVE  DataOK(e, x, t, w, b, W)
<1>1. /\ SndOK(e, x, t) /\ SndWindow(e, x, t, V) /\ RcvOK(e, x, w, b, V)
      /\ OpenFirst(e, x) /\ x.s.sndUna <= V.rcv
  BY Zenon DEF DataOK
<1>2. RcvOK(e, x, w, b, W)
  BY <1>1, RcvGrows
<1>3. /\ V.rcv \in Nat /\ W.rcv \in Nat /\ V.edge \in Int /\ W.edge \in Int
      /\ V.rcv <= W.rcv /\ V.edge <= W.edge
  BY DEF ViewOK, ViewType, Grows
<1>4. x.s.sndUna \in Nat /\ x.s.sndRight \in Nat /\ Window[Peer(e)] \in Nat
  BY PeerIsEnd, WindowAssumption DEF SndType
<1>5. x.s.sndUna <= W.rcv
  BY <1>1, <1>3, <1>4
<1>6. Right(e, x, V) <= Right(e, x, W) /\ Right(e, x, V) \in Int /\ Right(e, x, W) \in Int
  BY <1>3, <1>4 DEF Right
<1>7. SndWindow(e, x, t, W)
  <2> DEFINE p == Right(e, x, V)
             q == Right(e, x, W)
             k == Base(e) + t
             r == x.s.sndRight
  <2>1. p <= q /\ p \in Int /\ q \in Int /\ k \in Int /\ r \in Int
    BY <1>4, <1>6 DEF Base
  <2>2. /\ Wide => k <= p /\ (x.c.life = "alive" => r <= p)
        /\ x.c.life = "alive" /\ x.c.rd = "read" => x.s.sndNxt + x.c.rdMax <= x.s.sndRight
    BY <1>1, Zenon DEF SndWindow
  <2> HIDE DEF p, q, k, r
  <2>3. Wide => k <= q /\ (x.c.life = "alive" => r <= q)
    BY <2>1, <2>2
  <2>4. QED
    BY <2>2, <2>3, Zenon DEF SndWindow, q, k, r
<1>8. QED
  BY <1>1, <1>2, <1>5, <1>7, Zenon DEF DataOK

\* The frames of a server that has not seen an OPEN fit every view of a server.
LEMMA CutFits ==
  ASSUME NEW V, V \in ViewType, V.rcv = 0, V.nxt = 0,
         NEW P, ViewOK("server", P), NEW f \in Frame, FrameFits("server", V, f)
  PROVE  FrameFits("server", P, f) /\ f.typ \notin SegTypes
<1>1. f.ack \in Nat /\ f.wnd \in Nat /\ f.ack <= 0 /\ f.wnd <= Window["server"]
  BY FrameFields DEF FrameFits
<1>2. P.rcv \in Nat /\ P.edge \in Int /\ Window["server"] <= P.edge
      /\ Window["server"] \in Nat
  BY WindowAssumption DEF ViewOK, ViewType, Ends
<1>3. f.ack <= P.rcv /\ f.ack + f.wnd <= P.edge
  BY <1>1, <1>2
<1>4. f.typ \notin SegTypes
  <2>1. SUFFICES ASSUME f.typ \in SegTypes PROVE FALSE
    OBVIOUS
  <2>2. SegOf(f) \in Segment /\ SegEnd(SegOf(f)) <= 0
    BY <2>1, SegOfTyped DEF FrameFits, IsSegOf
  <2>3. QED
    BY <2>2 DEF Segment, SegEnd
<1>5. QED
  BY <1>1, <1>3, <1>4, Zenon DEF FrameFits

\* What a critical section of end e made of stream o: y, after t2 bytes read and w2
\* written, with b2 being written.
Stepped(e, o, y, t, t2, w2, b2, P) ==
  /\ DataOK(e, y, t2, w2, b2, P)
  /\ \A f \in y.out : FrameFits(e, ViewOf(e, y, t2), f)
  /\ Grows(ViewOf(e, o, t), ViewOf(e, y, t2))
  /\ \A g \in y.s.unacked : g.typ = "open" => g \in o.s.unacked
  /\ \A f \in y.out : f.typ = "open" => SegOf(f) \in o.s.unacked
  /\ y.c.src = o.c.src /\ o.s.sndUna <= y.s.sndUna
  /\ Quiet(y) /\ y.c.life \notin {"none", "gone"}

\* The receive side got nothing new, nor the send side an acknowledgement.
Idle(o, y) ==
  /\ y.r.rcvNxt = o.r.rcvNxt /\ y.r.ooo \subseteq o.r.ooo /\ y.s.sndUna = o.s.sndUna
  /\ y.c.opened => o.c.opened

\* A section that neither reads nor writes is such a step.
LEMMA SectionStepped ==
  ASSUME NEW e, NEW o, NEW y, NEW t, NEW w, NEW b, NEW P, Section(e, o, y, t, w, b, P),
         y.c.src = o.c.src, Quiet(y), y.c.life \notin {"none", "gone"}
  PROVE  Stepped(e, o, y, t, t, w, b, P)
<1>1. \A f \in y.out : f.typ = "open" => SegOf(f) \in o.s.unacked
  BY DEF Section, OutOK, SegTypes
<1>2. \A g \in y.s.unacked : g.typ = "open" => g \in o.s.unacked
  BY DEF Section
<1>3. \A f \in y.out : FrameFits(e, ViewOf(e, y, t), f)
  BY Zenon DEF Section, OutOK
<1>4. QED
  BY <1>1, <1>2, <1>3, Zenon DEF Stepped, Section

\* What may have arrived in such a step, given what was in flight.
Arrived(e, o, y) ==
  /\ y.c.opened /\ ~o.c.opened => \E f \in net["server"] \cup pend : f.typ = "open"
  /\ e = "client" =>
       /\ \/ y.r.rcvNxt = o.r.rcvNxt /\ y.r.ooo \subseteq o.r.ooo
          \/ 1 <= y.s.sndUna
       /\ \/ /\ y.r.rcvNxt = o.r.rcvNxt /\ y.r.ooo \subseteq o.r.ooo
             /\ y.s.sndUna = o.s.sndUna
          \/ \E f \in net["client"] : f # RstFrame

LEMMA IdleArrived ==
  ASSUME NEW e, NEW o, NEW y, Idle(o, y)
  PROVE  Arrived(e, o, y)
  BY Zenon DEF Idle, Arrived

\* After a critical section of end e that made y of its stream.
Stores(e, y, t2, w2, b2) ==
  /\ Store(e, y)
  /\ taken' = [taken EXCEPT ![e] = t2]
  /\ written' = [written EXCEPT ![e] = w2]
  /\ batch' = [batch EXCEPT ![e] = b2]

\* The parts of both streams then.
LEMMA StoredParts ==
  ASSUME IInv, NEW e \in Ends, NEW y, NEW t2, NEW w2, NEW b2, Stores(e, y, t2, w2, b2)
  PROVE  /\ Stream(e)'.c = y.c /\ Stream(e)'.s = y.s /\ Stream(e)'.r = y.r
         /\ taken'[e] = t2 /\ written'[e] = w2 /\ batch'[e] = b2
         /\ View(e)' = ViewOf(e, y, t2)
         /\ ctl'[e] = y.c /\ snd'[e] = y.s /\ rcv'[e] = y.r
         /\ Stream(Peer(e))' = Stream(Peer(e)) /\ View(Peer(e))' = View(Peer(e))
         /\ ctl'[Peer(e)] = ctl[Peer(e)] /\ snd'[Peer(e)] = snd[Peer(e)]
         /\ rcv'[Peer(e)] = rcv[Peer(e)] /\ taken'[Peer(e)] = taken[Peer(e)]
         /\ written'[Peer(e)] = written[Peer(e)] /\ batch'[Peer(e)] = batch[Peer(e)]
<1> DEFINE d == Peer(e)
<1>1. d \in Ends /\ d # e
  BY PeerIsEnd
<1>2. /\ ctl \in [Ends -> CtlType] /\ snd \in [Ends -> SndType] /\ rcv \in [Ends -> RcvType]
      /\ taken \in [Ends -> Nat] /\ written \in [Ends -> Seq(Bytes)]
      /\ batch \in [Ends -> Seq(Bytes)]
  BY DEF IInv, StreamsOK, RestOK
<1> HIDE DEF d
<1>3. /\ ctl'[e] = y.c /\ snd'[e] = y.s /\ rcv'[e] = y.r
      /\ taken'[e] = t2 /\ written'[e] = w2 /\ batch'[e] = b2
  BY <1>2 DEF Stores, Store
<1>4. /\ ctl'[d] = ctl[d] /\ snd'[d] = snd[d] /\ rcv'[d] = rcv[d]
      /\ taken'[d] = taken[d] /\ written'[d] = written[d] /\ batch'[d] = batch[d]
  BY <1>1, <1>2 DEF Stores, Store
<1>5. /\ Stream(e)'.c = y.c /\ Stream(e)'.s = y.s /\ Stream(e)'.r = y.r
  BY <1>3 DEF Stream
<1>6. Stream(d)' = Stream(d)
  BY <1>4 DEF Stream
<1>7. View(e)' = ViewOf(e, y, t2)
  BY <1>3, <1>5 DEF View, ViewOf
<1>8. View(d)' = View(d)
  BY <1>4, <1>6 DEF View, ViewOf
<1>9. QED
  BY <1>3, <1>4, <1>5, <1>6, <1>7, <1>8 DEF d

\* Soundness does not look at the frames to be sent.
LEMMA SamePartsOK ==
  ASSUME NEW e, NEW x, NEW z, z.c = x.c, z.s = x.s, z.r = x.r, NEW t, NEW w, NEW b, NEW P
  PROVE  /\ DataOK(e, x, t, w, b, P) => DataOK(e, z, t, w, b, P)
         /\ Quiet(x) => Quiet(z)
<1>1. SameCtl(x.c, z.c) /\ SameSnd(x.s, z.s) /\ SameData(x.r, z.r)
  BY DEF SameCtl, SameSnd, SameData
<1>2. QED
  BY <1>1, SameOK DEF Quiet

\* The view of a linked stream is one.
LEMMA LinkedTyped ==
  ASSUME IInv, NEW e \in Ends, NEW P, Linked(e, P)
  PROVE  ViewOK(e, View(e)) /\ Stream(e) \in XType /\ View(e) \in ViewType
<1>1. Stream(e) \in XType /\ taken[e] \in Nat
  BY StreamParts DEF IInv, RestOK
<1>2. SndOK(e, Stream(e), taken[e]) /\ RcvOK(e, Stream(e), written[e], batch[e], P)
  BY Zenon DEF Linked, DataOK
<1>3. QED
  BY <1>1, <1>2, ViewTyped DEF View, ViewOK

\* A step of end e that takes what was in flight and sends what fits keeps the invariant.
LEMMA StepInv ==
  ASSUME DataInv, IInv', NEW e \in Ends, NEW P, Linked(e, P), NEW y \in XType,
         NEW t2 \in Nat, NEW w2, NEW b2, Stores(e, y, t2, w2, b2),
         Stepped(e, Stream(e), y, taken[e], t2, w2, b2, P), Arrived(e, Stream(e), y),
         \A f \in net'[e] : f \in net[e],
         \A f \in net'[Peer(e)] : f \in net[Peer(e)] \/ f \in y.out,
         \A f \in pend' : f \in pend
  PROVE  DataInv'
<1> DEFINE d == Peer(e)
           o == Stream(e)
           W == ViewOf(e, y, t2)
<1>1. /\ IInv /\ d \in Ends /\ d # e /\ Peer(d) = e
      /\ net \in [Ends -> SUBSET Frame] /\ pend \in SUBSET Frame
  BY PeerIsEnd DEF DataInv, IInv, NetOK, RestOK
<1>2. /\ Stream(e)'.c = y.c /\ Stream(e)'.s = y.s /\ Stream(e)'.r = y.r
      /\ taken'[e] = t2 /\ written'[e] = w2 /\ batch'[e] = b2
      /\ View(e)' = W
      /\ ctl'[e] = y.c /\ snd'[e] = y.s /\ rcv'[e] = y.r
      /\ Stream(d)' = Stream(d) /\ View(d)' = View(d)
      /\ ctl'[d] = ctl[d] /\ snd'[d] = snd[d] /\ rcv'[d] = rcv[d]
      /\ taken'[d] = taken[d] /\ written'[d] = written[d] /\ batch'[d] = batch[d]
  BY <1>1, StoredParts
<1>3. /\ DataOK(e, y, t2, w2, b2, P)
      /\ \A f \in y.out : FrameFits(e, W, f)
      /\ Grows(View(e), W)
      /\ \A g \in y.s.unacked : g.typ = "open" => g \in o.s.unacked
      /\ \A f \in y.out : f.typ = "open" => SegOf(f) \in o.s.unacked
      /\ y.c.src = o.c.src /\ Quiet(y) /\ y.c.life \notin {"none", "gone"}
  BY Zenon DEF Stepped, View
<1>4. o.c = ctl[e] /\ o.s = snd[e] /\ o.r = rcv[e]
  BY DEF Stream
<1>5. /\ View(e) \in ViewType /\ ViewOK(e, View(e))
  BY <1>1, LinkedTyped
<1>6. ViewOK(e, W) /\ W \in ViewType
  <2>1. SndOK(e, y, t2) /\ RcvOK(e, y, w2, b2, P)
    BY <1>3, Zenon DEF DataOK
  <2>2. QED
    BY <2>1, ViewTyped DEF ViewOK
<1> HIDE DEF W, d, o
\* No OPEN comes back.
<1>7. OpenDead => OpenDead'
  <2>1. ASSUME OpenDead PROVE OpenDead'
    <3>1. ctl'["client"].life # "none"
      BY <1>1, <1>2, <1>3, <2>1 DEF OpenDead, Ends
    <3>2. ASSUME NEW f \in net'["server"] \cup pend' PROVE f.typ # "open"
      <4>1. CASE f \in net["server"] \cup pend
        BY <2>1, <4>1 DEF OpenDead
      <4>2. CASE f \in net'["server"] /\ f \notin net["server"]
        <5>1. d = "server" /\ e = "client" /\ f \in y.out
          BY <1>1, <4>2 DEF d, Ends, Peer
        <5>2. f.typ = "open" => SegOf(f) \in snd["client"].unacked
          BY <1>3, <1>4, <5>1
        <5>3. SegOf(f).typ = f.typ
          BY DEF SegOf
        <5>4. QED
          BY <2>1, <5>2, <5>3 DEF OpenDead
      <4>3. QED
        BY <3>2, <4>1, <4>2
    <3>3. ASSUME NEW g \in snd'["client"].unacked PROVE g.typ # "open"
      <4>1. CASE e = "client"
        BY <1>2, <1>3, <1>4, <2>1, <3>3, <4>1 DEF OpenDead
      <4>2. CASE d = "client"
        BY <1>2, <2>1, <3>3, <4>2 DEF OpenDead
      <4>3. QED
        BY <1>1, <4>1, <4>2 DEF d, Ends, Peer
    <3>4. QED
      BY <3>1, <3>2, <3>3 DEF OpenDead
  <2>2. QED
    BY <2>1
<1>8. Cut => Cut'
  <2>1. ASSUME Cut PROVE Cut'
    <3>1. CASE e = "server"
      <4>1. y.c.opened = FALSE
        <5>1. o.c.opened = FALSE /\ \A f \in net["server"] \cup pend : f.typ # "open"
          BY <1>1, <1>4, <2>1, <3>1 DEF Cut, OpenDead, IInv, StreamsOK, CtlType
        <5>2. y.c.opened \in BOOLEAN
          BY Zenon DEF XType, CtlType
        <5>3. QED
          BY <5>1, <5>2 DEF Arrived, o
      <4>2. y.c.src = ctl["server"].src
        BY <1>3, <1>4, <3>1
      <4>3. QED
        BY <1>2, <1>7, <2>1, <3>1, <4>1, <4>2 DEF Cut
    <3>2. CASE d = "server"
      BY <1>2, <1>7, <2>1, <3>2 DEF Cut
    <3>3. QED
      BY <1>1, <3>1, <3>2 DEF d, Ends, Peer
  <2>2. QED
    BY <2>1
<1>9. \E Q : Linked(e, Q)'
  <2>1. ViewOK(d, P) /\ (P = View(d) \/ (e = "client" /\ Cut))
        /\ (e = "client" => P.src <= MaxStreams)
    BY Zenon DEF Linked, d
  <2>2. DataOK(e, Stream(e)', taken'[e], written'[e], batch'[e], P)
    BY <1>2, <1>3, SamePartsOK
  <2>3. Linked(e, P)'
    BY <1>2, <1>8, <2>1, <2>2 DEF Linked, d
  <2>4. QED
    BY <2>3
<1>10. \E Q : Linked(d, Q)'
  <2>1. PICK Q : Linked(d, Q)
    BY <1>1 DEF DataInv
  <2>2. /\ ViewOK(e, Q) /\ (Q = View(e) \/ (d = "client" /\ Cut))
        /\ (d = "client" => Q.src <= MaxStreams)
        /\ DataOK(d, Stream(d), taken[d], written[d], batch[d], Q)
    BY <1>1, <2>1, Zenon DEF Linked
  <2>3. CASE Q = View(e)
    <3>1. /\ Stream(d).r \in RcvType /\ Stream(d).s \in SndType /\ taken[d] \in Nat
      BY <1>1, StreamParts DEF IInv, RestOK
    <3>2. DataOK(d, Stream(d), taken[d], written[d], batch[d], W)
      BY <1>1, <1>3, <1>5, <1>6, <2>2, <2>3, <3>1, DataGrows
    <3>3. d = "client" => W.src <= MaxStreams
      BY <1>3, <2>2, <2>3 DEF Grows
    <3>4. Linked(d, W)'
      BY <1>1, <1>2, <1>6, <3>2, <3>3 DEF Linked
    <3>5. QED
      BY <3>4
  <2>4. CASE d = "client" /\ Cut
    <3>1. Linked(d, Q)'
      BY <1>1, <1>2, <1>8, <2>2, <2>4 DEF Linked
    <3>2. QED
      BY <3>1
  <2>5. QED
    BY <2>2, <2>3, <2>4
<1>11. InFlight'
  <2>1. ASSUME NEW f \in net'[d] PROVE FrameFits(e, View(e)', f)
    <3>1. CASE f \in y.out
      BY <1>2, <1>3, <3>1
    <3>2. CASE f \in net[d]
      <4>1. FrameFits(e, View(e), f) /\ f \in Frame
        BY <1>1, <3>2 DEF DataInv, InFlight
      <4>2. QED
        BY <1>2, <1>3, <1>5, <1>6, <4>1, FitsGrows
    <3>3. QED
      BY <2>1, <3>1, <3>2 DEF d
  <2>2. ASSUME NEW f \in net'[e] PROVE FrameFits(d, View(d)', f)
    BY <1>1, <1>2, <2>2 DEF DataInv, InFlight, d
  <2>3. ASSUME NEW f \in pend' PROVE FrameFits("client", View("client")', f)
    <3>1. f \in Frame /\ FrameFits("client", View("client"), f)
      BY <1>1, <2>3 DEF DataInv, InFlight
    <3>2. CASE e = "client"
      BY <1>2, <1>3, <1>5, <1>6, <3>1, <3>2, FitsGrows
    <3>3. CASE d = "client"
      BY <1>2, <3>1, <3>3
    <3>4. QED
      BY <1>1, <3>2, <3>3 DEF d, Ends, Peer
  <2>4. ASSUME NEW k \in Ends, NEW f \in net'[k] PROVE FrameFits(Peer(k), View(Peer(k))', f)
    <3>1. CASE k = e
      BY <2>2, <2>4, <3>1 DEF d
    <3>2. CASE k = d
      BY <1>1, <2>1, <2>4, <3>2
    <3>3. QED
      BY <1>1, <3>1, <3>2 DEF d, Ends, Peer
  <2>5. QED
    BY <2>3, <2>4 DEF InFlight
<1>12. e = "client" \/ (d = "client" /\ e = "server")
  BY DEF d, Ends, Peer
<1>13. Touched' /\ (Blank => Blank' \/ \E f \in net["client"] : f # RstFrame)
  <2>1. CASE e = "client"
    <3>1. /\ \/ y.r.rcvNxt = o.r.rcvNxt /\ y.r.ooo \subseteq o.r.ooo
             \/ 1 <= y.s.sndUna
          /\ \/ /\ y.r.rcvNxt = o.r.rcvNxt /\ y.r.ooo \subseteq o.r.ooo
                /\ y.s.sndUna = o.s.sndUna
             \/ \E f \in net["client"] : f # RstFrame
      BY <2>1, Zenon DEF Arrived, o
    <3>2. o.s.sndUna <= y.s.sndUna
      BY DEF Stepped, o
    <3>3. /\ o.r.rcvNxt = rcv["client"].rcvNxt /\ o.r.ooo = rcv["client"].ooo
          /\ o.s.sndUna = snd["client"].sndUna
          /\ o.s.sndUna \in Nat /\ y.s.sndUna \in Nat
      BY <1>1, <1>4, <2>1 DEF IInv, StreamsOK, SndType, XType
    <3>4. ASSUME 1 <= snd["client"].sndUna PROVE 1 <= y.s.sndUna
      BY <3>2, <3>3, <3>4
    <3>5. Touched'
      <4>1. CASE y.r.rcvNxt = o.r.rcvNxt /\ y.r.ooo \subseteq o.r.ooo
        BY <1>2, <2>1, <3>3, <3>4, <4>1 DEF Touched, DataInv
      <4>2. CASE 1 <= y.s.sndUna
        BY <1>2, <2>1, <4>2 DEF Touched
      <4>3. QED
        BY <3>1, <4>1, <4>2
    <3>6. Blank => Blank' \/ \E f \in net["client"] : f # RstFrame
      BY <1>2, <2>1, <3>1, <3>3 DEF Blank
    <3>7. QED
      BY <3>5, <3>6
  <2>2. CASE d = "client"
    BY <1>2, <2>2 DEF Touched, Blank, DataInv
  <2>3. QED
    BY <1>12, <2>1, <2>2
<1>14. Gone'
  <2>1. CASE e = "server"
    BY <1>2, <1>3, <2>1 DEF Gone
  <2>2. CASE e = "client"
    <3>1. d = "server"
      BY <2>2 DEF d, Peer
    <3>2. ASSUME ctl["server"].life \in {"none", "gone"}
          PROVE  /\ \A f \in net'["client"] : f = RstFrame
                 /\ Blank' \/ (OpenDead' /\ 1 <= ctl["server"].src)
      <4>1. /\ \A f \in net["client"] : f = RstFrame
            /\ Blank \/ (OpenDead /\ 1 <= ctl["server"].src)
        BY <3>2 DEF DataInv, Gone
      <4>2. QED
        BY <1>7, <1>13, <2>2, <4>1
    <3>3. QED
      BY <1>2, <3>1, <3>2 DEF Gone
  <2>3. QED
    BY <1>12, <2>1, <2>2
<1>15. NoneYet'
  <2>1. CASE e = "client"
    BY <1>2, <1>3, <2>1 DEF NoneYet
  <2>2. CASE d = "client"
    BY <1>2, <2>2 DEF NoneYet, DataInv
  <2>3. QED
    BY <1>12, <2>1, <2>2
<1>16. ctl'["server"].src <= MaxStreams
  <2>1. CASE e = "server"
    BY <1>2, <1>3, <1>4, <2>1 DEF DataInv
  <2>2. CASE d = "server"
    BY <1>2, <2>2 DEF DataInv
  <2>3. QED
    BY <1>12, <2>1, <2>2 DEF d, Peer
<1>17. \A k \in Ends : Quiet(Stream(k)')
  <2>1. Quiet(Stream(e)')
    BY <1>2, <1>3, SamePartsOK
  <2>2. Quiet(Stream(d)')
    BY <1>1, <1>2 DEF DataInv
  <2>3. QED
    BY <1>1, <2>1, <2>2 DEF d, Ends, Peer
<1>18. \A k \in Ends : \E Q : Linked(k, Q)'
  BY <1>1, <1>9, <1>10 DEF d, Ends, Peer
<1>19. QED
  BY <1>11, <1>13, <1>14, <1>15, <1>16, <1>17, <1>18 DEF DataInv

-----------------------------------------------------------------------------
(* The actions, but for those that begin or forget a stream.               *)

\* A section goes on with changes to readLoop, the dial and the timers, and more to
\* send.
LEMMA SectionTop ==
  ASSUME NEW e \in Ends, NEW o, NEW x \in XType, NEW y, NEW t \in Nat,
         NEW w, NEW b, NEW P, Section(e, o, x, t, w, b, P), AtTop(x, y),
         y.c.life = "alive" /\ y.c.rd = "read" => y.s.sndNxt + y.c.rdMax <= y.s.sndRight,
         \A f \in y.out :
           \/ f \in x.out
           \/ Told(e, x.r, f) /\ f.typ \notin SegTypes
           \/ Told(e, x.r, f) /\ f.ack = x.r.rcvNxt /\ SegOf(f) \in x.s.unacked
  PROVE  Section(e, o, y, t, w, b, P)
<1>1. ViewOf(e, y, t) = ViewOf(e, x, t) /\ DataOK(e, y, t, w, b, P)
  BY AtTopOK, Zenon DEF Section
<1>2. SndOK(e, x, t) /\ OpenFirst(e, x)
  BY Zenon DEF Section, DataOK
<1>3. ASSUME NEW f \in y.out
      PROVE  /\ FrameFits(e, ViewOf(e, y, t), f)
             /\ f.typ \in SegTypes => SegOf(f) \in o.s.unacked
  <2>1. CASE f \in x.out
    BY <1>1, <2>1, Zenon DEF Section, OutOK
  <2>2. CASE Told(e, x.r, f) /\ f.typ \notin SegTypes
    BY <1>1, <1>2, <2>2, ToldFits
  <2>3. CASE Told(e, x.r, f) /\ f.ack = x.r.rcvNxt /\ SegOf(f) \in x.s.unacked
    <3>1. FrameFits(e, ViewOf(e, x, t), f)
      BY <1>2, <2>3, ToldFits
    <3>2. SegOf(f) \in o.s.unacked
      BY <2>3 DEF Section
    <3>3. QED
      BY <1>1, <3>1, <3>2
  <2>4. QED
    BY <2>1, <2>2, <2>3
<1>4. OutOK(e, y, t, o.s.unacked)
  BY <1>3 DEF OutOK
<1>5. QED
  BY <1>1, <1>4, Zenon DEF Section, AtTop, SameSnd

\* A section that sends nothing and leaves the data alone.
LEMMA SectionOf ==
  ASSUME NEW e \in Ends, NEW o \in XType, NEW y, NEW t \in Nat, NEW w, NEW b, NEW P,
         DataOK(e, o, t, w, b, P), DataOK(e, y, t, w, b, P),
         SameSnd(o.s, y.s), SameData(o.r, y.r), y.c.src = o.c.src, y.out = {}
  PROVE  Section(e, o, y, t, w, b, P)
<1>1. ViewOf(e, y, t) = ViewOf(e, o, t)
  BY Zenon DEF ViewOf, SameSnd, SameData
<1>2. ViewOf(e, o, t) \in ViewType
  BY ViewTyped DEF DataOK, ViewOK
<1>3. o.s.sndUna <= o.s.sndUna
  BY DEF XType, SndType
<1>4. QED
  BY <1>1, <1>2, <1>3, GrowsSame DEF Section, OutOK, SameSnd

\* What unlockAndFlush leaves in flight.
LEMMA FlushSends ==
  ASSUME NetOK, NEW e \in Ends, NEW out, Send(e, out)
  PROVE  /\ \A f \in net'[e] : f \in net[e]
         /\ \A f \in net'[Peer(e)] : f \in net[Peer(e)] \/ f \in out
<1> DEFINE d == Peer(e)
<1>1. d \in Ends /\ d # e
  BY PeerIsEnd
<1>2. net'[e] = net[e] /\ net'[d] = Carried(d, out)
  BY <1>1 DEF Send, NetOK
<1>3. \A f \in Carried(d, out) : f \in net[d] \/ f \in out
  BY Zenon DEF Carried
<1>4. QED
  BY <1>2, <1>3

\* The bytes of the connections stay as they were.
LEMMA KeptConns ==
  ASSUME IInv, NEW e \in Ends, NEW y, Store(e, y), UNCHANGED <<taken, batch, written>>
  PROVE  Stores(e, y, taken[e], written[e], batch[e])
<1>1. /\ taken \in [Ends -> Nat] /\ written \in [Ends -> Seq(Bytes)]
      /\ batch \in [Ends -> Seq(Bytes)]
  BY DEF IInv, RestOK
<1>2. /\ taken = [taken EXCEPT ![e] = taken[e]]
      /\ written = [written EXCEPT ![e] = written[e]]
      /\ batch = [batch EXCEPT ![e] = batch[e]]
  BY <1>1
<1>3. QED
  BY <1>2 DEF Stores

\* A section of end e that keeps the bytes of its connection.
LEMMA SectionInv ==
  ASSUME DataInv, IInv', NEW e \in Ends, NEW P, Linked(e, P), NEW y \in XType,
         Section(e, Stream(e), y, taken[e], written[e], batch[e], P),
         y.c.src = ctl[e].src, Quiet(y), y.c.life \notin {"none", "gone"},
         Arrived(e, Stream(e), y),
         Flush(e, y) \/ (Store(e, y) /\ net' = net),
         UNCHANGED <<taken, batch, written>>, \A f \in pend' : f \in pend
  PROVE  DataInv'
<1>1. IInv /\ NetOK /\ taken[e] \in Nat /\ Store(e, y)
  BY DEF DataInv, IInv, RestOK, Flush
<1>2. Stream(e).c = ctl[e]
  BY DEF Stream
<1>3. Stepped(e, Stream(e), y, taken[e], taken[e], written[e], batch[e], P)
  BY <1>2, SectionStepped
<1>4. Stores(e, y, taken[e], written[e], batch[e])
  BY <1>1, KeptConns
<1>5. /\ \A f \in net'[e] : f \in net[e]
      /\ \A f \in net'[Peer(e)] : f \in net[Peer(e)] \/ f \in y.out
  BY <1>1, FlushSends DEF Flush
<1>6. QED
  BY <1>1, <1>3, <1>4, <1>5, StepInv

\* The streams stay as they are; frames are lost, reset, or about to create a stream.
LEMMA NetInv ==
  ASSUME DataInv, IInv', UNCHANGED <<ctl, snd, rcv, taken, batch, written>>,
         \A e \in Ends : \A f \in net'[e] : f \in net[e] \/ f = RstFrame,
         \A f \in pend' : f \in pend \/ f \in net["server"]
  PROVE  DataInv'
<1>1. \A e \in Ends : Stream(e)' = Stream(e) /\ View(e)' = View(e)
  BY DEF Stream, View, ViewOf
<1>2. RstFrame.typ # "open"
  BY DEF RstFrame
<1>3. OpenDead => OpenDead'
  BY <1>2 DEF OpenDead, Ends
<1>4. Cut => Cut'
  BY <1>3 DEF Cut
<1>5. ASSUME NEW e \in Ends, NEW P, Linked(e, P) PROVE Linked(e, P)'
  BY <1>1, <1>4, <1>5, PeerIsEnd DEF Linked
<1>6. \A e \in Ends : (\E P : Linked(e, P))'
  BY <1>5 DEF DataInv
<1>7. ASSUME NEW e \in Ends PROVE FrameFits(Peer(e), View(Peer(e)), RstFrame)
  <2> DEFINE d == Peer(e)
             x == Stream(d)
  <2>1. d \in Ends /\ IInv
    BY PeerIsEnd DEF DataInv
  <2>2. PICK P : Linked(d, P)
    BY <2>1 DEF DataInv
  <2>3. /\ x \in XType /\ x.r \in RcvType /\ taken[d] \in Nat
    BY <2>1, StreamParts DEF IInv, RestOK
  <2>4. SndOK(d, x, taken[d]) /\ OpenFirst(d, x) /\ RcvCount(d, x.r, batch[d])
    BY <2>2, Zenon DEF Linked, DataOK, RcvOK
  <2> HIDE DEF d, x
  <2>5. Told(d, x.r, RstFrame) /\ RstFrame.typ \notin SegTypes
    BY <2>1, <2>3, <2>4, RstTold
  <2>6. FrameFits(d, ViewOf(d, x, taken[d]), RstFrame)
    BY <2>1, <2>3, <2>4, <2>5, ToldFits
  <2>7. QED
    BY <2>6 DEF View, d, x
<1>8. InFlight'
  <2>1. ASSUME NEW e \in Ends, NEW f \in net'[e] PROVE FrameFits(Peer(e), View(Peer(e))', f)
    BY <1>1, <1>7, <2>1, PeerIsEnd DEF DataInv, InFlight
  <2>2. ASSUME NEW f \in pend' PROVE FrameFits("client", View("client")', f)
    <3>1. "client" \in Ends /\ "server" \in Ends /\ Peer("server") = "client"
      BY DEF Ends, Peer
    <3>2. QED
      BY <1>1, <2>2, <3>1 DEF DataInv, InFlight
  <2>3. QED
    BY <2>1, <2>2 DEF InFlight
<1>9. Touched' /\ NoneYet' /\ ctl'["server"].src <= MaxStreams
  BY DEF DataInv, Touched, NoneYet
<1>10. Gone'
  <2>1. Blank => Blank'
    BY DEF Blank
  <2>2. QED
    BY <1>3, <2>1 DEF DataInv, Gone, Ends
<1>11. \A e \in Ends : Quiet(Stream(e)')
  BY <1>1 DEF DataInv
<1>12. QED
  BY <1>6, <1>8, <1>9, <1>10, <1>11 DEF DataInv

\* What is known of the stream of end e.
LEMMA LinkedParts ==
  ASSUME DataInv, NEW e \in Ends, NEW P, Linked(e, P)
  PROVE  LET o == Stream(e) IN
         /\ o \in XType /\ o.out = {} /\ o.c = ctl[e] /\ o.s = snd[e] /\ o.r = rcv[e]
         /\ taken[e] \in Nat /\ written[e] \in Seq(Bytes) /\ batch[e] \in Seq(Bytes)
         /\ DataOK(e, o, taken[e], written[e], batch[e], P) /\ ViewOK(Peer(e), P)
         /\ Section(e, o, o, taken[e], written[e], batch[e], P)
         /\ Quiet(o) /\ StreamOK(e, o)
<1>1. /\ IInv /\ Quiet(Stream(e))
      /\ DataOK(e, Stream(e), taken[e], written[e], batch[e], P) /\ ViewOK(Peer(e), P)
  BY DEF DataInv, Linked
<1>2. /\ Stream(e) \in XType /\ StreamOK(e, Stream(e))
      /\ Stream(e).c = ctl[e] /\ Stream(e).s = snd[e] /\ Stream(e).r = rcv[e]
  BY <1>1, StreamParts DEF IInv, StreamsOK
<1>3. Stream(e).out = {}
  BY DEF Stream
<1>4. taken[e] \in Nat /\ written[e] \in Seq(Bytes) /\ batch[e] \in Seq(Bytes)
  BY <1>1 DEF IInv, RestOK
<1>5. Section(e, Stream(e), Stream(e), taken[e], written[e], batch[e], P)
  BY <1>1, <1>2, <1>3, <1>4, SectionStart
<1>6. QED
  BY <1>1, <1>2, <1>3, <1>4, <1>5

\* y is x but for the dial and the timers.
Retimed(x, y) ==
  AtTop(x, y) /\ y.c.rd = x.c.rd /\ y.c.rdMax = x.c.rdMax

\* What is sound stays sound.
LEMMA RetimedSection ==
  ASSUME NEW e \in Ends, NEW o, NEW x \in XType, NEW y, NEW t \in Nat,
         NEW w, NEW b, NEW P, Section(e, o, x, t, w, b, P), Retimed(x, y),
         \A f \in y.out :
           \/ f \in x.out
           \/ Told(e, x.r, f) /\ f.typ \notin SegTypes
           \/ Told(e, x.r, f) /\ f.ack = x.r.rcvNxt /\ SegOf(f) \in x.s.unacked
  PROVE  Section(e, o, y, t, w, b, P)
<1>1. x.c.life = "alive" /\ x.c.rd = "read" => x.s.sndNxt + x.c.rdMax <= x.s.sndRight
  BY Zenon DEF Section, DataOK, SndWindow
<1>2. y.c.life = "alive" /\ y.c.rd = "read" => y.s.sndNxt + y.c.rdMax <= y.s.sndRight
  BY <1>1, Zenon DEF Retimed, AtTop, SameSnd
<1>3. AtTop(x, y)
  BY DEF Retimed
<1>4. QED
  BY <1>2, <1>3, SectionTop

\* abortLocked at the end of a section.
LEMMA AbortInv ==
  ASSUME DataInv, IInv', NEW e \in Ends, ctl[e].life \notin {"none", "gone"},
         NEW x \in XType, Retimed(Stream(e), x), Quiet(x), x.out = {}, DialOK(e, x.c),
         NEW y, y = Abort(x, TRUE), Flush(e, y),
         UNCHANGED <<pend, taken, batch, written>>
  PROVE  DataInv'
<1> DEFINE o == Stream(e)
           t == taken[e]
           w == written[e]
           b == batch[e]
<1>1. PICK P : Linked(e, P)
  BY DEF DataInv
<1>2. /\ o \in XType /\ o.out = {} /\ o.c = ctl[e]
      /\ t \in Nat /\ w \in Seq(Bytes) /\ b \in Seq(Bytes)
      /\ Section(e, o, o, t, w, b, P) /\ StreamOK(e, o)
  BY <1>1, LinkedParts
<1> HIDE DEF o, t, w, b
<1>3. Section(e, o, x, t, w, b, P)
  BY <1>2, RetimedSection DEF o
<1>4. Retimed(o, x)
  BY DEF o
<1>5. /\ x.c.src = o.c.src /\ x.c.opened = o.c.opened /\ x.r.rcvNxt = o.r.rcvNxt
      /\ x.r.ooo = o.r.ooo /\ x.s.sndUna = o.s.sndUna /\ x.c.life = o.c.life
  BY <1>4, Zenon DEF Retimed, AtTop, SameSnd, SameData
<1>10. y \in XType
  <2>1. InWindow(e, x.r) /\ TRUE \in BOOLEAN
    BY <1>2, <1>5, Zenon DEF StreamOK, InWindow
  <2>2. StreamOK(e, Abort(x, TRUE))
    BY <2>1, AbortOK
  <2>3. QED
    BY <2>2, Zenon DEF StreamOK
<1>6. /\ Section(e, o, y, t, w, b, P)
      /\ y = x \/ Ended(x, y)
  <2>1. TRUE \in BOOLEAN
    OBVIOUS
  <2>2. QED
    BY <1>2, <1>3, <2>1, AbortData
<1>7. Quiet(y) /\ y.c.src = ctl[e].src /\ y.c.life \notin {"none", "gone"} /\ Idle(o, y)
  <2>1. CASE y = x
    BY <1>2, <1>5, <2>1 DEF Idle
  <2>2. CASE Ended(x, y)
    <3>1. Quiet(y)
      BY <2>2, EndedIsQuiet DEF Quiet
    <3>2. QED
      BY <1>2, <1>5, <2>2, <3>1 DEF Idle, Ended
  <2>3. QED
    BY <1>6, <2>1, <2>2
<1>8. Arrived(e, o, y)
  BY <1>7, IdleArrived
<1>9. QED
  BY <1>1, <1>6, <1>7, <1>8, <1>10, SectionInv DEF o, t, w, b

\* A stream is retimed into itself.
LEMMA RetimedSelf == ASSUME NEW x PROVE Retimed(x, x)
  BY DEF Retimed, AtTop, SameSnd, SameData

LEMMA CheckOpenedInv ==
  ASSUME DataInv, IInv', CheckOpened
  PROVE  DataInv'
<1>1. /\ "server" \in Ends /\ IInv /\ ctl["server"].life = "alive"
      /\ Flush("server", Abort(Stream("server"), TRUE))
      /\ UNCHANGED <<pend, taken, batch, written>>
  BY DEF DataInv, CheckOpened, Alive, Ends
<1>2. PICK P : Linked("server", P)
  BY <1>1 DEF DataInv
<1>3. Stream("server") \in XType /\ Stream("server").out = {} /\ Quiet(Stream("server"))
      /\ StreamOK("server", Stream("server"))
  BY <1>1, <1>2, LinkedParts
<1>4. DialOK("server", Stream("server").c)
  BY <1>3 DEF StreamOK
<1>5. QED
  BY <1>1, <1>3, <1>4, RetimedSelf, AbortInv

\* The stop of an endpoint that does not know the stream leaves it alone.
LEMMA StopInv ==
  ASSUME DataInv, IInv', NEW e \in Ends, Stop(e)
  PROVE  DataInv'
<1> DEFINE y == Abort(Stream(e), TRUE)
<1>1. IInv /\ Flush(e, y) /\ UNCHANGED <<pend, taken, batch, written>>
  BY DEF DataInv, Stop
<1>2. PICK P : Linked(e, P)
  BY DEF DataInv
<1>3. /\ Stream(e) \in XType /\ Stream(e).out = {} /\ Quiet(Stream(e))
      /\ Stream(e).c = ctl[e] /\ Stream(e).s = snd[e] /\ Stream(e).r = rcv[e]
      /\ StreamOK(e, Stream(e))
  BY <1>2, LinkedParts
<1>4. CASE ctl[e].life \in {"none", "gone"}
  <2>1. y = Stream(e)
    BY <1>3, <1>4, Zenon DEF Abort
  <2> HIDE DEF y
  <2>2. y.c = ctl[e] /\ y.s = snd[e] /\ y.r = rcv[e] /\ y.out = {}
    BY <1>3, <2>1
  <2>3. /\ ctl \in [Ends -> CtlType] /\ snd \in [Ends -> SndType] /\ rcv \in [Ends -> RcvType]
        /\ NetOK
    BY <1>1 DEF IInv, StreamsOK
  <2>4. UNCHANGED <<ctl, snd, rcv>>
    BY <1>1, <2>2, <2>3 DEF Flush, Store
  <2>5. /\ \A f \in net'[e] : f \in net[e]
        /\ \A f \in net'[Peer(e)] : f \in net[Peer(e)] \/ f \in {}
    BY <1>1, <2>2, <2>3, FlushSends DEF Flush
  <2>6. \A d \in Ends : d = e \/ d = Peer(e)
    BY DEF Ends, Peer
  <2>7. QED
    BY <1>1, <2>4, <2>5, <2>6, NetInv
<1>5. CASE ctl[e].life \notin {"none", "gone"}
  <2>1. DialOK(e, Stream(e).c)
    BY <1>3 DEF StreamOK
  <2>2. QED
    BY <1>1, <1>3, <1>5, <2>1, RetimedSelf, AbortInv
<1>6. QED
  BY <1>4, <1>5

LEMMA DialFailInv ==
  ASSUME DataInv, IInv', DialFail
  PROVE  DataInv'
<1> DEFINE e == "server"
           o == Stream(e)
           c1 == [o.c EXCEPT !.conn = "none"]
           x == [o EXCEPT !.c.conn = "none"]
           y == Abort(x, TRUE)
<1>1. /\ e \in Ends /\ IInv /\ ctl[e].conn = "dialing" /\ Flush(e, y)
      /\ UNCHANGED <<pend, taken, batch, written>>
  BY DEF DataInv, DialFail, Ends
<1>2. PICK P : Linked(e, P)
  BY <1>1 DEF DataInv
<1>3. /\ o \in XType /\ o.out = {} /\ o.c = ctl[e] /\ Quiet(o) /\ StreamOK(e, o)
  BY <1>1, <1>2, LinkedParts
<1> HIDE DEF o
<1>4. o.c \in CtlType
  BY <1>3, Zenon DEF XType
<1>5. /\ c1 \in CtlType /\ c1.conn = "none" /\ c1.life = o.c.life /\ c1.rd = o.c.rd
      /\ c1.rdMax = o.c.rdMax /\ c1.wr = o.c.wr /\ c1.src = o.c.src
      /\ c1.opened = o.c.opened
  BY <1>4, Zenon DEF CtlType
<1>6. x \in XType /\ x.c = c1 /\ x.s = o.s /\ x.r = o.r /\ x.out = {}
  BY <1>3, <1>5, Zenon DEF XType
<1> HIDE DEF x, c1, y
<1>7. Retimed(o, x)
  BY <1>5, <1>6, Zenon DEF Retimed, AtTop, SameSnd, SameData
<1>8. o.c.wr = "off" /\ o.c.life \notin {"none", "gone"}
  BY <1>1, <1>3 DEF Quiet
<1>9. Quiet(x)
  BY <1>3, <1>5, <1>6, <1>8, Zenon DEF Quiet
<1>10. DialOK(e, x.c)
  BY <1>5, <1>6 DEF DialOK
<1>11. QED
  BY <1>1, <1>3, <1>6, <1>7, <1>8, <1>9, <1>10, AbortInv DEF o, y

\* Changes to the dial and the timers, and frames that tell the truth.
LEMMA RetimedInv ==
  ASSUME DataInv, IInv', NEW e \in Ends, ctl[e].life \notin {"none", "gone"},
         NEW y \in XType, Retimed(Stream(e), y), Quiet(y),
         \A f \in y.out :
           \/ Told(e, rcv[e], f) /\ f.typ \notin SegTypes
           \/ Told(e, rcv[e], f) /\ f.ack = rcv[e].rcvNxt /\ SegOf(f) \in snd[e].unacked,
         Flush(e, y) \/ (Store(e, y) /\ net' = net),
         UNCHANGED <<pend, taken, batch, written>>
  PROVE  DataInv'
<1> DEFINE o == Stream(e)
<1>1. PICK P : Linked(e, P)
  BY DEF DataInv
<1>2. /\ o \in XType /\ o.c = ctl[e] /\ o.s = snd[e] /\ o.r = rcv[e] /\ o.out = {}
      /\ taken[e] \in Nat
      /\ Section(e, o, o, taken[e], written[e], batch[e], P)
  BY <1>1, LinkedParts
<1>3. Retimed(o, y)
  OBVIOUS
<1> HIDE DEF o
<1>4. Section(e, o, y, taken[e], written[e], batch[e], P)
  BY <1>2, <1>3, RetimedSection
<1>5. /\ y.c.src = ctl[e].src /\ y.c.life \notin {"none", "gone"} /\ Idle(o, y)
  BY <1>2, <1>3, Zenon DEF Retimed, AtTop, SameSnd, SameData, Idle
<1>6. Arrived(e, o, y)
  BY <1>5, IdleArrived
<1>7. QED
  BY <1>1, <1>4, <1>5, <1>6, SectionInv DEF o

\* dial connected, maybe to a stream that is dead by now.
LEMMA DialDoneInv ==
  ASSUME DataInv, IInv', DialDone
  PROVE  DataInv'
<1> DEFINE e == "server"
           o == Stream(e)
<1>1. /\ e \in Ends /\ IInv /\ ctl[e].conn = "dialing" /\ net' = net
      /\ UNCHANGED <<pend, taken, batch, written>>
      /\ Store(e, IF Alive(e) THEN StartLoops(o) ELSE [o EXCEPT !.c.conn = "none"])
  BY DEF DataInv, DialDone, Ends
<1>2. PICK P : Linked(e, P)
  BY <1>1 DEF DataInv
<1>3. /\ o \in XType /\ o.out = {} /\ o.c = ctl[e] /\ Quiet(o) /\ StreamOK(e, o)
      /\ o.r = rcv[e] /\ o.s = snd[e]
      /\ DataOK(e, o, taken[e], written[e], batch[e], P) /\ taken[e] \in Nat
  BY <1>1, <1>2, LinkedParts
<1> HIDE DEF o
<1>4. o.c.wr = "off" /\ o.c.life \notin {"none", "gone"} /\ o.c \in CtlType
  BY <1>1, <1>3, Zenon DEF Quiet, XType
<1>5. CASE Alive(e)
  <2> DEFINE y == StartLoops(o)
  <2>1. o.c.life = "alive" /\ Store(e, y)
    BY <1>1, <1>3, <1>5 DEF Alive
  <2>2. /\ InWindow(e, o.r) /\ AckTimed(o.r) /\ (o.s.timerArmed => TimerDue(o.s))
        /\ (o.s.unacked # {} => o.s.timerArmed) /\ ~o.s.finQueued /\ o.c.opened
    BY <1>1, <1>3, <2>1, Zenon DEF StreamOK, SndAwake, RcvAwake, DialOK
  <2>3. StreamOK(e, y)
    BY <1>1, <1>3, <2>2, StartLoopsOK
  <2>4. y \in XType
    BY <2>3, Zenon DEF StreamOK
  <2>5. /\ DataOK(e, y, taken[e], written[e], batch[e], P)
        /\ SameSnd(o.s, y.s) /\ SameData(o.r, y.r)
        /\ y.out = o.out /\ y.c.life = "alive" /\ y.c.src = o.c.src
        /\ y.c.opened = o.c.opened /\ y.c.conn = "up"
    BY <1>1, <1>3, <1>4, <2>1, StartLoopsData
  <2> HIDE DEF y
  <2>6. Section(e, o, y, taken[e], written[e], batch[e], P)
    BY <1>1, <1>3, <2>5, SectionOf
  <2>7. Quiet(y) /\ Idle(o, y)
    BY <2>5, Zenon DEF Quiet, Idle, SameSnd, SameData
  <2>8. Arrived(e, o, y)
    BY <2>7, IdleArrived
  <2>9. QED
    BY <1>1, <1>2, <1>3, <2>1, <2>4, <2>5, <2>6, <2>7, <2>8, SectionInv DEF o
<1>6. CASE ~Alive(e)
  <2> DEFINE c1 == [o.c EXCEPT !.conn = "none"]
             y == [o EXCEPT !.c.conn = "none"]
  <2>1. /\ c1 \in CtlType /\ c1.conn = "none" /\ c1.life = o.c.life /\ c1.rd = o.c.rd
        /\ c1.rdMax = o.c.rdMax /\ c1.wr = o.c.wr /\ c1.src = o.c.src
        /\ c1.opened = o.c.opened
    BY <1>4, Zenon DEF CtlType
  <2>2. y \in XType /\ y.c = c1 /\ y.s = o.s /\ y.r = o.r /\ y.out = {}
    BY <1>3, <2>1, Zenon DEF XType
  <2>3. Store(e, y)
    BY <1>1, <1>6
  <2> HIDE DEF y, c1
  <2>4. Retimed(o, y)
    BY <2>1, <2>2, Zenon DEF Retimed, AtTop, SameSnd, SameData
  <2>5. Quiet(y)
    BY <1>3, <1>4, <2>1, <2>2, Zenon DEF Quiet
  <2>6. QED
    BY <1>1, <1>3, <1>4, <2>2, <2>3, <2>4, <2>5, RetimedInv DEF o
<1>7. QED
  BY <1>5, <1>6

\* sendCh wakes readLoop.
LEMMA ReadWakeInv ==
  ASSUME DataInv, IInv', NEW e \in Ends, ReadWake(e)
  PROVE  DataInv'
<1> DEFINE o == Stream(e)
           s1 == [o.s EXCEPT !.sendCh = FALSE]
           x == [o EXCEPT !.s.sendCh = FALSE]
           y == ReadTop(x)
<1>1. /\ IInv /\ Alive(e) /\ ctl[e].rd = "wait" /\ net' = net /\ Store(e, y)
      /\ UNCHANGED <<pend, taken, batch, written>>
  BY DEF DataInv, ReadWake
<1>2. PICK P : Linked(e, P)
  BY DEF DataInv
<1>3. /\ o \in XType /\ o.out = {} /\ o.c = ctl[e] /\ Quiet(o) /\ StreamOK(e, o)
      /\ DataOK(e, o, taken[e], written[e], batch[e], P) /\ taken[e] \in Nat
  BY <1>2, LinkedParts
<1> HIDE DEF o
<1>4. o.c.life = "alive" /\ o.s \in SndType
  BY <1>1, <1>3, Zenon DEF Alive, XType
<1>5. /\ s1 \in SndType /\ SameSnd(o.s, s1) /\ s1.timerArmed = o.s.timerArmed
      /\ s1.running = o.s.running /\ s1.late = o.s.late
  BY <1>4, Zenon DEF SndType, SameSnd
<1>6. x \in XType /\ x.c = o.c /\ x.s = s1 /\ x.r = o.r /\ x.out = {}
  BY <1>3, <1>5, Zenon DEF XType
<1> HIDE DEF x, s1
<1>7. AtTop(o, x)
  BY <1>5, <1>6, Zenon DEF AtTop, SameData
<1>8. /\ DataOK(e, y, taken[e], written[e], batch[e], P) /\ AtTop(x, y)
      /\ y.out = x.out /\ y.r = x.r /\ y.c.conn = x.c.conn
  BY <1>3, <1>6, <1>7, ReadTopData
<1>9. y \in XType
  <2>1. /\ InWindow(e, x.r) /\ RcvAwake(x.c, x.r) /\ DialOK(e, x.c)
        /\ SndAwake(o.c, o.s)
    BY <1>3, <1>4, <1>6, Zenon DEF StreamOK
  <2>2. /\ x.s.timerArmed => TimerDue(x.s)
        /\ x.s.unacked # {} => x.s.timerArmed
        /\ ~x.s.finQueued /\ x.c.conn = "up"
    BY <1>1, <1>3, <1>5, <1>6, <2>1, Zenon DEF SndAwake, TimerDue, SameSnd
  <2>3. StreamOK(e, ReadTop(x))
    BY <1>6, <2>1, <2>2, ReadTopOK
  <2>4. QED
    BY <2>3, Zenon DEF StreamOK
<1> HIDE DEF y
<1>10. /\ SameSnd(o.s, y.s) /\ SameData(o.r, y.r) /\ y.c.src = o.c.src
       /\ y.c.life = "alive" /\ y.c.opened = o.c.opened /\ y.c.wr = o.c.wr
       /\ y.c.conn = o.c.conn /\ y.out = {}
  BY <1>4, <1>6, <1>7, <1>8, Zenon DEF AtTop, SameSnd, SameData
<1>11. Section(e, o, y, taken[e], written[e], batch[e], P)
  BY <1>3, <1>8, <1>10, SectionOf
<1>12. Quiet(y) /\ Idle(o, y)
  BY <1>3, <1>10, Zenon DEF Quiet, Idle, SameSnd, SameData
<1>13. Arrived(e, o, y)
  BY <1>12, IdleArrived
<1>14. QED
  BY <1>1, <1>2, <1>3, <1>9, <1>10, <1>11, <1>12, <1>13, SectionInv DEF o

\* The runtime starts a timer's callback: the stream is alive.
LEMMA ExpireInv ==
  ASSUME DataInv, IInv', NEW e \in Ends, Expire(e)
  PROVE  DataInv'
<1> DEFINE o == Stream(e)
           s1 == [snd[e] EXCEPT !.running = FALSE, !.late = TRUE]
           y == [o EXCEPT !.s = s1]
<1>1. /\ IInv /\ snd[e].running /\ net' = net /\ UNCHANGED <<pend, taken, batch, written>>
      /\ snd \in [Ends -> SndType] /\ ctl' = ctl /\ rcv' = rcv
  BY DEF DataInv, IInv, StreamsOK, Expire
<1>2. snd' = [snd EXCEPT ![e] = s1]
  BY <1>1 DEF Expire
<1>3. PICK P : Linked(e, P)
  BY DEF DataInv
<1>4. /\ o \in XType /\ o.out = {} /\ o.c = ctl[e] /\ o.s = snd[e] /\ o.r = rcv[e]
      /\ Quiet(o)
  BY <1>3, LinkedParts
<1>5. s1 \in SndType /\ SameSnd(snd[e], s1)
  <2>1. snd[e] \in SndType
    BY <1>1
  <2>2. QED
    BY <2>1, Zenon DEF SndType, SameSnd
<1> HIDE DEF s1, o
<1>6. y \in XType /\ y.c = o.c /\ y.s = s1 /\ y.r = o.r /\ y.out = {}
  BY <1>4, <1>5, Zenon DEF XType
<1> HIDE DEF y
<1>7. Retimed(o, y)
  BY <1>4, <1>5, <1>6, Zenon DEF Retimed, AtTop, SameSnd, SameData
<1>8. o.c.life = "alive"
  BY <1>1, <1>4 DEF Quiet
<1>9. Quiet(y) /\ ctl[e].life \notin {"none", "gone"}
  BY <1>4, <1>6, <1>8, Zenon DEF Quiet
<1>10. Store(e, y)
  BY <1>1, <1>2, <1>4, <1>6, PartStored, Zenon DEF Store, IInv
<1>11. QED
  BY <1>1, <1>6, <1>7, <1>9, <1>10, RetimedInv DEF o

\* Time without progress.
LEMMA TimePassesInv ==
  ASSUME DataInv, IInv', NEW e \in Ends, TimePasses(e)
  PROVE  DataInv'
<1> DEFINE o == Stream(e)
           s1 == [snd[e] EXCEPT !.stale = TRUE]
           c1 == [ctl[e] EXCEPT !.heardStale = TRUE]
           y == [o EXCEPT !.c = c1, !.s = s1]
<1>1. /\ IInv /\ ctl[e].life = "alive" /\ net' = net
      /\ UNCHANGED <<pend, taken, batch, written>>
      /\ snd \in [Ends -> SndType] /\ ctl \in [Ends -> CtlType] /\ rcv' = rcv
  BY DEF DataInv, IInv, StreamsOK, TimePasses, Alive
<1>2. snd' = [snd EXCEPT ![e] = s1] /\ ctl' = [ctl EXCEPT ![e] = c1]
  BY <1>1 DEF TimePasses
<1>3. PICK P : Linked(e, P)
  BY DEF DataInv
<1>4. /\ o \in XType /\ o.out = {} /\ o.c = ctl[e] /\ o.s = snd[e] /\ o.r = rcv[e]
      /\ Quiet(o)
  BY <1>3, LinkedParts
<1>5. s1 \in SndType /\ SameSnd(snd[e], s1)
  <2>1. snd[e] \in SndType
    BY <1>1
  <2>2. QED
    BY <2>1, Zenon DEF SndType, SameSnd
<1>6. /\ c1 \in CtlType /\ c1.life = ctl[e].life /\ c1.src = ctl[e].src
      /\ c1.opened = ctl[e].opened /\ c1.wr = ctl[e].wr /\ c1.conn = ctl[e].conn
      /\ c1.rd = ctl[e].rd /\ c1.rdMax = ctl[e].rdMax
  <2>1. ctl[e] \in CtlType
    BY <1>1
  <2>2. QED
    BY <2>1, Zenon DEF CtlType
<1> HIDE DEF s1, c1, o
<1>7. y \in XType /\ y.c = c1 /\ y.s = s1 /\ y.r = o.r /\ y.out = {}
  BY <1>4, <1>5, <1>6, Zenon DEF XType
<1> HIDE DEF y
<1>8. Retimed(o, y)
  BY <1>4, <1>5, <1>6, <1>7, Zenon DEF Retimed, AtTop, SameSnd, SameData
<1>9. Quiet(y) /\ ctl[e].life \notin {"none", "gone"}
  BY <1>1, <1>4, <1>6, <1>7, Zenon DEF Quiet
<1>10. Store(e, y)
  BY <1>1, <1>2, <1>4, <1>7, PartStored, Zenon DEF Store, IInv
<1>11. QED
  BY <1>1, <1>7, <1>8, <1>9, <1>10, RetimedInv DEF o

\* onTimer resends what was not acknowledged, probes the window, or resets the stream.
LEMMA OnTimerInv ==
  ASSUME DataInv, IInv', NEW e \in Ends, OnTimer(e)
  PROVE  DataInv'
<1> DEFINE o == Stream(e)
           s1 == [snd[e] EXCEPT !.late = FALSE, !.timerArmed = FALSE]
           x == [o EXCEPT !.s = s1]
           u == [x.s EXCEPT !.backoff = Smaller(@ + 1, MaxBackoff)]
           v == ArmTimer(u)
           q == FillAck(e, x.r)
           out == IF x.s.unacked # {} THEN {SegFrame(e, x.r, g) : g \in x.s.unacked}
                  ELSE {AckFrame(e, x.r, TRUE, FALSE)}
           y == [x EXCEPT !.s = v, !.r = q, !.out = out]
<1>1. /\ IInv /\ ctl[e].life = "alive" /\ UNCHANGED <<pend, taken, batch, written>>
      /\ snd[e] \in SndType
  BY DEF DataInv, IInv, StreamsOK, OnTimer, Alive
<1>2. PICK P : Linked(e, P)
  BY DEF DataInv
<1>3. /\ o \in XType /\ o.out = {} /\ o.c = ctl[e] /\ o.s = snd[e] /\ o.r = rcv[e]
      /\ Quiet(o) /\ StreamOK(e, o)
      /\ DataOK(e, o, taken[e], written[e], batch[e], P)
      /\ batch[e] \in Seq(Bytes)
  BY <1>2, LinkedParts
<1>4. Flush(e, TimerFired(e, x))
  BY <1>3, Zenon DEF OnTimer
<1>5. s1 \in SndType /\ SameSnd(snd[e], s1)
  BY <1>1, Zenon DEF SndType, SameSnd
<1> HIDE DEF s1, o
<1>6. x \in XType /\ x.c = o.c /\ x.s = s1 /\ x.r = o.r /\ x.out = {}
  BY <1>3, <1>5, Zenon DEF XType
<1>7. TimerFired(e, x) \in {Abort(x, TRUE), y}
  BY Zenon DEF TimerFired
<1> HIDE DEF x
<1>8. Retimed(o, x)
  BY <1>3, <1>5, <1>6, Zenon DEF Retimed, AtTop, SameSnd, SameData
<1>9. Quiet(x) /\ ctl[e].life \notin {"none", "gone"} /\ DialOK(e, x.c)
  BY <1>1, <1>3, <1>6, Zenon DEF Quiet, StreamOK
<1>10. CASE TimerFired(e, x) = Abort(x, TRUE)
  BY <1>1, <1>4, <1>6, <1>8, <1>9, <1>10, AbortInv DEF o
<1>11. CASE TimerFired(e, x) = y
  <2>1. x.s \in SndType /\ x.r \in RcvType
    BY <1>6, Zenon DEF XType
  <2>2. Smaller(x.s.backoff + 1, MaxBackoff) \in 0 .. MaxBackoff
    BY <2>1, SizesAssumption DEF Smaller, SndType
  <2>3. u \in SndType /\ SameSnd(x.s, u)
    BY <2>1, <2>2, Zenon DEF SndType, SameSnd
  <2> HIDE DEF u
  <2>4. v \in SndType /\ SameSnd(u, v)
    BY <2>3, ArmTimerKeeps, ArmTimerData DEF SameSnd
  <2>5. q \in RcvType /\ SameData(x.r, q)
    BY <2>1, FillAckData
  <2>6. ASSUME NEW f \in out
        PROVE  /\ f \in Frame
               /\ \/ Told(e, x.r, f) /\ f.typ \notin SegTypes
                  \/ Told(e, x.r, f) /\ f.ack = x.r.rcvNxt /\ SegOf(f) \in x.s.unacked
    <3>1. RcvCount(e, x.r, batch[e])
      BY <1>3, <1>6, Zenon DEF DataOK, RcvOK
    <3>2. /\ \A p, a \in BOOLEAN : Told(e, x.r, AckFrame(e, x.r, p, a))
          /\ \A g : Told(e, x.r, SegFrame(e, x.r, g))
      BY <1>3, <2>1, <3>1, FramesTell
    <3>3. x.s.unacked \in SUBSET Segment
      BY <2>1, Zenon DEF SndType
    <3>4. CASE x.s.unacked # {}
      <4>1. PICK g \in x.s.unacked : f = SegFrame(e, x.r, g)
        BY <2>6, <3>4, Zenon
      <4>2. g \in Segment /\ f \in Frame
        BY <2>1, <3>3, <4>1, FramesTyped
      <4>3. SegOf(f) = g /\ f.ack = x.r.rcvNxt
        BY <4>1, <4>2, SegFrameCarries
      <4>4. QED
        BY <3>2, <4>1, <4>2, <4>3
    <3>5. CASE ~(x.s.unacked # {})
      <4>1. f = AckFrame(e, x.r, TRUE, FALSE)
        BY <2>6, <3>5, Zenon
      <4>2. f \in Frame
        BY <2>1, <4>1, FramesTyped
      <4>3. f.typ \notin SegTypes
        BY <4>1 DEF AckFrame, SegTypes
      <4>4. QED
        BY <3>2, <4>1, <4>2, <4>3
    <3>6. QED
      BY <3>4, <3>5
  <2> HIDE DEF v, q, out
  <2>7. y \in XType /\ y.c = x.c /\ y.s = v /\ y.r = q /\ y.out = out
    <3>1. out \in SUBSET Frame
      BY <2>6
    <3>2. QED
      BY <1>6, <2>4, <2>5, <3>1, Zenon DEF XType
  <2> HIDE DEF y
  <2>8. Retimed(o, y)
    BY <1>8, <2>3, <2>4, <2>5, <2>7, Zenon DEF Retimed, AtTop, SameSnd, SameData
  <2>9. Quiet(y)
    BY <1>1, <1>3, <1>6, <2>7, Zenon DEF Quiet
  <2>10. \A f \in y.out :
           \/ Told(e, rcv[e], f) /\ f.typ \notin SegTypes
           \/ Told(e, rcv[e], f) /\ f.ack = rcv[e].rcvNxt /\ SegOf(f) \in snd[e].unacked
    <3>1. x.r = rcv[e] /\ x.s.unacked = snd[e].unacked
      BY <1>3, <1>5, <1>6 DEF SameSnd
    <3>2. QED
      BY <2>6, <2>7, <3>1
  <2>11. Flush(e, y)
    BY <1>4, <1>11
  <2>12. QED
    BY <1>1, <1>9, <2>7, <2>8, <2>9, <2>10, <2>11, RetimedInv DEF o
<1>12. QED
  BY <1>7, <1>10, <1>11

\* onAckTimer sends the delayed ACK.
LEMMA OnAckTimerInv ==
  ASSUME DataInv, IInv', NEW e \in Ends, OnAckTimer(e)
  PROVE  DataInv'
<1> DEFINE o == Stream(e)
           r1 == [rcv[e] EXCEPT !.ackTimerSet = FALSE]
           x == [o EXCEPT !.r.ackTimerSet = FALSE]
           q == FillAck(e, r1)
           z == [x EXCEPT !.r = q, !.out = {AckFrame(e, r1, FALSE, FALSE)}]
<1>1. /\ IInv /\ rcv[e].ackTimerSet /\ UNCHANGED <<pend, taken, batch, written>>
      /\ rcv[e] \in RcvType
  BY DEF DataInv, IInv, StreamsOK, OnAckTimer
<1>2. PICK P : Linked(e, P)
  BY DEF DataInv
<1>3. /\ o \in XType /\ o.out = {} /\ o.c = ctl[e] /\ o.s = snd[e] /\ o.r = rcv[e]
      /\ Quiet(o) /\ DataOK(e, o, taken[e], written[e], batch[e], P)
      /\ batch[e] \in Seq(Bytes)
  BY <1>2, LinkedParts
<1>4. r1 \in RcvType /\ SameData(rcv[e], r1)
  BY <1>1, Zenon DEF RcvType, SameData
<1>5. x \in XType /\ x.c = o.c /\ x.s = o.s /\ x.r = r1 /\ x.out = {}
  BY <1>3, <1>4, Zenon DEF XType
<1>6. Flush(e, IF rcv[e].ackPending > 0 THEN z ELSE x)
  BY <1>5, Zenon DEF OnAckTimer
<1>7. q \in RcvType /\ SameData(r1, q)
  BY <1>4, FillAckData
<1>8. AckFrame(e, r1, FALSE, FALSE) \in Frame
  BY <1>4, FramesTyped
<1>9. /\ Told(e, rcv[e], AckFrame(e, r1, FALSE, FALSE))
      /\ AckFrame(e, r1, FALSE, FALSE).typ \notin SegTypes
  <2>1. RcvCount(e, rcv[e], batch[e])
    BY <1>3, Zenon DEF DataOK, RcvOK
  <2>2. AckFrame(e, r1, FALSE, FALSE) = AckFrame(e, rcv[e], FALSE, FALSE)
    BY <1>4, Zenon DEF AckFrame, Free, SameData
  <2>3. FALSE \in BOOLEAN
    OBVIOUS
  <2>4. Told(e, rcv[e], AckFrame(e, rcv[e], FALSE, FALSE))
    BY <1>1, <1>3, <2>1, <2>3, FramesTell
  <2>5. AckFrame(e, r1, FALSE, FALSE).typ \notin SegTypes
    BY DEF AckFrame, SegTypes
  <2>6. QED
    BY <2>2, <2>4, <2>5
<1> HIDE DEF r1, x, q, o
<1>10. z \in XType /\ z.c = o.c /\ z.s = o.s /\ z.r = q
       /\ z.out = {AckFrame(e, r1, FALSE, FALSE)}
  BY <1>5, <1>7, <1>8, Zenon DEF XType
<1> HIDE DEF z
<1>11. Retimed(o, x) /\ Retimed(o, z)
  BY <1>3, <1>4, <1>5, <1>7, <1>10, Zenon DEF Retimed, AtTop, SameSnd, SameData
<1>12. o.c.life = "alive"
  BY <1>1, <1>3 DEF Quiet
<1>13. Quiet(x) /\ Quiet(z) /\ ctl[e].life \notin {"none", "gone"}
  BY <1>3, <1>5, <1>10, <1>12, Zenon DEF Quiet
<1>14. CASE Flush(e, z)
  <2>1. \A f \in z.out : Told(e, rcv[e], f) /\ f.typ \notin SegTypes
    BY <1>9, <1>10
  <2>2. QED
    BY <1>1, <1>10, <1>11, <1>13, <1>14, <2>1, RetimedInv DEF o
<1>15. CASE Flush(e, x)
  BY <1>1, <1>5, <1>11, <1>13, <1>15, RetimedInv DEF o
<1>16. QED
  BY <1>6, <1>14, <1>15

\* v is the stream of e with segment g queued, and not reading.
Reading(e, g, v) ==
  /\ v \in XType /\ v.c = [ctl[e] EXCEPT !.rd = "off"] /\ v.s = Queued(e, g).s
  /\ v.r = Queued(e, g).r /\ v.out = Queued(e, g).out

\* v is the live stream o but for readLoop, the dial and its two sides.
GoesOn(o, v) ==
  /\ o.c.life = "alive" /\ v.c.life = "alive" /\ v.c.src = o.c.src
  /\ v.c.opened = o.c.opened /\ v.c.wr = o.c.wr /\ v.c.conn = o.c.conn

\* readLoop, which got n bytes or the end of its connection, has queued segment g.
LEMMA QueuedInv ==
  ASSUME DataInv, NEW e \in Ends, Alive(e), ctl[e].rd = "read", NEW P, Linked(e, P),
         NEW n \in Nat, n <= ctl[e].rdMax, NEW g, NextSegment(Stream(e), g, taken[e], n),
         NEW v, Reading(e, g, v)
  PROVE  /\ DataOK(e, v, taken[e] + n, written[e], batch[e], P)
         /\ Extends(e, Stream(e), taken[e], g, v, taken[e] + n)
         /\ GoesOn(Stream(e), v) /\ g.typ # "open" /\ g \in Segment
<1> SUFFICES
      ASSUME v \in XType, v.c = [ctl[e] EXCEPT !.rd = "off"], v.s = Queued(e, g).s,
             v.r = Queued(e, g).r, v.out = Queued(e, g).out
      PROVE  /\ DataOK(e, v, taken[e] + n, written[e], batch[e], P)
             /\ Extends(e, Stream(e), taken[e], g, v, taken[e] + n)
             /\ GoesOn(Stream(e), v) /\ g.typ # "open" /\ g \in Segment
  BY DEF Reading
<1> DEFINE o == Stream(e)
<1>1. /\ o \in XType /\ o.c = ctl[e] /\ o.s = snd[e] /\ o.r = rcv[e] /\ StreamOK(e, o)
      /\ taken[e] \in Nat /\ batch[e] \in Seq(Bytes)
      /\ DataOK(e, o, taken[e], written[e], batch[e], P) /\ ViewOK(Peer(e), P)
  BY LinkedParts
<1>2. /\ Queued(e, g).s = QueueSegment(o.s, g) /\ Queued(e, g).r = FillAck(e, o.r)
      /\ Queued(e, g).out = {SegFrame(e, o.r, g)}
  <2>1. o = [c |-> ctl[e], s |-> snd[e], r |-> rcv[e], out |-> {}]
    BY DEF Stream
  <2>2. QED
    BY <1>1, <2>1 DEF Queued
<1>3. NextSegment(o, g, taken[e], n)
  OBVIOUS
<1> HIDE DEF o
<1>4. o.c.life = "alive" /\ o.c.rd = "read" /\ o.c \in CtlType /\ n <= o.c.rdMax
  BY <1>1, Zenon DEF Alive, XType
<1>5. ~o.s.finQueued /\ (e = "server" => o.c.opened)
  BY <1>1, <1>4, Zenon DEF StreamOK, SndAwake, DialOK
<1>6. /\ v.c.rd = "off" /\ v.c.life = o.c.life /\ v.c.src = o.c.src
      /\ v.c.opened = o.c.opened /\ v.c.wr = o.c.wr /\ v.c.conn = o.c.conn
  <2>1. ctl[e] \in CtlType /\ v.c = [ctl[e] EXCEPT !.rd = "off"]
    BY <1>1, <1>4
  <2>2. /\ v.c.rd = "off" /\ v.c.life = ctl[e].life /\ v.c.src = ctl[e].src
        /\ v.c.opened = ctl[e].opened /\ v.c.wr = ctl[e].wr /\ v.c.conn = ctl[e].conn
    BY <2>1, Zenon DEF CtlType
  <2>3. QED
    BY <1>1, <2>2
<1>7. /\ DataOK(e, v, taken[e] + n, written[e], batch[e], P)
      /\ Extends(e, o, taken[e], g, v, taken[e] + n)
  <2>1. HasRead(e, o, n) /\ WithSegment(e, o, g, v)
    BY <1>2, <1>4, <1>5, <1>6 DEF HasRead, WithSegment
  <2>2. QED
    BY <1>1, <1>3, <2>1, QueuedData
<1>8. g.typ # "open" /\ g \in Segment
  BY <1>3 DEF NextSegment
<1>9. GoesOn(o, v)
  BY <1>4, <1>6 DEF GoesOn
<1>10. QED
  BY <1>7, <1>8, <1>9 DEF o

\* conn.Read returned n bytes.
LEMMA ReadDataInv ==
  ASSUME DataInv, IInv', NEW e \in Ends, NEW n \in 1 .. Mss, ReadData(e, n)
  PROVE  DataInv'
<1> DEFINE o == Stream(e)
           g == NewSegment(snd[e], "data", n, taken[e] + 1, ctl[e].src)
           x == Queued(e, g)
           c1 == [ctl[e] EXCEPT !.rd = "off"]
           v == [x EXCEPT !.c = c1]
           y == ReadTop(x)
           t2 == taken[e] + n
<1>1. /\ IInv /\ Alive(e) /\ ctl[e].rd = "read" /\ n <= ctl[e].rdMax
      /\ Flush(e, y) /\ taken' = [taken EXCEPT ![e] = t2]
      /\ UNCHANGED <<pend, batch, written>> /\ n \in Nat \ {0}
  BY MssAssumption DEF DataInv, ReadData
<1>2. PICK P : Linked(e, P)
  BY DEF DataInv
<1>3. /\ o \in XType /\ o.out = {} /\ o.c = ctl[e] /\ o.s = snd[e] /\ o.r = rcv[e]
      /\ Quiet(o) /\ StreamOK(e, o) /\ taken[e] \in Nat
      /\ written[e] \in Seq(Bytes) /\ batch[e] \in Seq(Bytes)
  BY <1>2, LinkedParts
<1>4. NextSegment(o, g, taken[e], n) /\ g \in Segment
  <2>1. snd[e].sndNxt \in Nat /\ ctl[e].src \in Nat
    BY <1>3, Zenon DEF XType, SndType, CtlType
  <2>4. taken[e] + 1 \in Nat
    BY <1>3
  <2>2. g \in Segment
    BY <1>1, <2>4, <2>1, Zenon DEF NewSegment, Segment, SegTypes
  <2>3. QED
    BY <1>3, <2>2 DEF NextSegment, NewSegment
<1> HIDE DEF g, o
<1>5. /\ x \in XType /\ InWindow(e, x.r) /\ x.c = ctl[e] /\ RcvAwake(x.c, x.r)
      /\ x.s.timerArmed /\ TimerDue(x.s)
      /\ x.s.finQueued <=> (snd[e].finQueued \/ g.typ = "fin")
  BY <1>1, <1>4, QueuedOK
<1>6. g.typ = "data" /\ ~snd[e].finQueued /\ ctl[e].conn = "up" /\ DialOK(e, ctl[e])
  BY <1>1, <1>3 DEF g, NewSegment, StreamOK, SndAwake, Alive
<1>7. y \in XType
  <2>1. ~x.s.finQueued
    BY <1>5, <1>6
  <2> HIDE DEF x
  <2>2. StreamOK(e, ReadTop(x))
    BY <1>5, <1>6, <2>1, ReadTopOK
  <2>3. QED
    BY <2>2, Zenon DEF StreamOK
<1>8. c1 \in CtlType
  BY <1>3, Zenon DEF XType, CtlType
<1> HIDE DEF x
<1>9. v \in XType /\ v.c = c1 /\ v.s = x.s /\ v.r = x.r /\ v.out = x.out
  BY <1>5, <1>8, Zenon DEF XType
<1> HIDE DEF v
<1>10. /\ DataOK(e, v, t2, written[e], batch[e], P)
       /\ Extends(e, o, taken[e], g, v, t2)
       /\ GoesOn(o, v) /\ g.typ # "open"
  <2>1. Reading(e, g, v)
    BY <1>9 DEF Reading, x
  <2>2. QED
    BY <1>1, <1>2, <1>4, <2>1, QueuedInv DEF o
<1>11. /\ Grows(ViewOf(e, o, taken[e]), ViewOf(e, v, t2))
       /\ \A f \in v.out : FrameFits(e, ViewOf(e, v, t2), f) /\ SegOf(f) = g
       /\ v.s.unacked = o.s.unacked \cup {g} /\ v.s.sndUna = o.s.sndUna
       /\ SameData(o.r, v.r)
       /\ v.c.life = "alive" /\ v.c.src = o.c.src /\ v.c.opened = o.c.opened
       /\ v.c.wr = o.c.wr /\ v.c.conn = o.c.conn
  BY <1>10, Zenon DEF Extends, GoesOn
<1>12. AtTop(v, x) /\ x.c.conn = o.c.conn /\ x.c.wr = o.c.wr
  <2>1. x.c = o.c /\ v.s = x.s /\ v.r = x.r /\ o.c.life = "alive"
    BY <1>3, <1>5, <1>9, <1>10 DEF GoesOn
  <2>2. QED
    BY <1>10, <2>1, Zenon DEF AtTop, SameSnd, SameData, GoesOn
<1>13. t2 \in Nat
  BY <1>1, <1>3
<1> HIDE DEF c1, t2
<1>14. /\ DataOK(e, y, t2, written[e], batch[e], P) /\ AtTop(x, y)
       /\ y.out = x.out /\ y.r = x.r /\ y.c.conn = x.c.conn
  BY <1>5, <1>10, <1>12, <1>13, ReadTopData
<1> HIDE DEF y
<1>15. /\ SameSnd(v.s, y.s) /\ SameData(v.r, y.r) /\ y.c.src = v.c.src
       /\ y.c.life = "alive" /\ y.c.opened = v.c.opened /\ y.c.wr = v.c.wr
       /\ y.c.conn = v.c.conn /\ y.out = v.out
  BY <1>9, <1>12, <1>14, <1>11, Zenon DEF AtTop, SameSnd, SameData
<1>16. ViewOf(e, y, t2) = ViewOf(e, v, t2)
  BY <1>15, Zenon DEF ViewOf, SameSnd, SameData
<1>17. Quiet(y) /\ Idle(o, y)
  BY <1>3, <1>10, <1>15, <1>11, Zenon DEF Quiet, Idle, SameSnd, SameData
<1>18. Stepped(e, o, y, taken[e], t2, written[e], batch[e], P)
  <2>1. \A h \in y.s.unacked : h.typ = "open" => h \in o.s.unacked
    BY <1>10, <1>15, <1>11 DEF SameSnd
  <2>2. \A f \in y.out : FrameFits(e, ViewOf(e, y, t2), f) /\ f.typ # "open"
    BY <1>10, <1>15, <1>16, <1>11 DEF SegOf
  <2>3. o.s.sndUna <= y.s.sndUna
    BY <1>3, <1>15, <1>11 DEF SameSnd, XType, SndType
  <2>4. y.c.life \notin {"none", "gone"} /\ y.c.src = o.c.src
    BY <1>15, <1>11
  <2>5. Grows(ViewOf(e, o, taken[e]), ViewOf(e, y, t2))
    BY <1>16, <1>11
  <2>6. QED
    BY <1>14, <1>17, <2>1, <2>2, <2>3, <2>4, <2>5, Zenon DEF Stepped
<1>19. Stores(e, y, t2, written[e], batch[e])
  <2>1. batch = [batch EXCEPT ![e] = batch[e]] /\ written = [written EXCEPT ![e] = written[e]]
    BY <1>1 DEF IInv, RestOK
  <2>2. QED
    BY <1>1, <2>1 DEF Stores, Flush
<1>20. /\ \A f \in net'[e] : f \in net[e]
       /\ \A f \in net'[Peer(e)] : f \in net[Peer(e)] \/ f \in y.out
  BY <1>1, FlushSends DEF Flush, IInv
<1>21. Arrived(e, o, y)
  BY <1>17, IdleArrived
<1>22. QED
  BY <1>1, <1>2, <1>7, <1>13, <1>18, <1>19, <1>20, <1>21, StepInv DEF o

\* conn.Read returned io.EOF.
LEMMA ReadEOFInv ==
  ASSUME DataInv, IInv', NEW e \in Ends, ReadEOF(e)
  PROVE  DataInv'
<1> DEFINE o == Stream(e)
           t == taken[e]
           w == written[e]
           b == batch[e]
           g == NewSegment(snd[e], "fin", 1, 0, ctl[e].src)
           x == Queued(e, g)
           c1 == [ctl[e] EXCEPT !.rd = "off"]
           v == [x EXCEPT !.c.rd = "off"]
           y == MaybeFinish(v)
<1>1. /\ IInv /\ Alive(e) /\ ctl[e].rd = "read" /\ Flush(e, y)
      /\ UNCHANGED <<pend, taken, batch, written>>
  BY DEF DataInv, ReadEOF
<1>2. PICK P : Linked(e, P)
  BY DEF DataInv
<1>3. /\ o \in XType /\ o.out = {} /\ o.c = ctl[e] /\ o.s = snd[e] /\ o.r = rcv[e]
      /\ Quiet(o) /\ StreamOK(e, o) /\ t \in Nat /\ w \in Seq(Bytes) /\ b \in Seq(Bytes)
  BY <1>2, LinkedParts
<1>4. NextSegment(o, g, t, 0) /\ g \in Segment /\ ctl[e].rdMax \in Nat
  <2>1. snd[e].sndNxt \in Nat /\ ctl[e].src \in Nat /\ ctl[e].rdMax \in Nat
    BY <1>3, Zenon DEF XType, SndType, CtlType
  <2>2. 1 \in Nat \ {0} /\ 0 \in Nat
    OBVIOUS
  <2>3. g \in Segment
    BY <2>1, <2>2, Zenon DEF NewSegment, Segment, SegTypes
  <2>4. QED
    BY <1>3, <2>1, <2>3 DEF NextSegment, NewSegment
<1> HIDE DEF g
<1>5. /\ x \in XType /\ InWindow(e, x.r) /\ x.c = ctl[e] /\ RcvAwake(ctl[e], x.r)
      /\ x.s.timerArmed /\ TimerDue(x.s)
  BY <1>1, <1>4, QueuedOK
<1>6. c1 \in CtlType
  BY <1>3, Zenon DEF XType, CtlType
<1> HIDE DEF x
<1>7. v \in XType /\ v.c = c1 /\ v.s = x.s /\ v.r = x.r /\ v.out = x.out
  BY <1>5, <1>6, Zenon DEF XType
<1> HIDE DEF v, o
<1>8. /\ DataOK(e, v, t, w, b, P) /\ Extends(e, o, t, g, v, t)
      /\ GoesOn(o, v) /\ g.typ # "open"
  <2>1. Reading(e, g, v)
    BY <1>7 DEF Reading, x
  <2>2. 0 \in Nat /\ 0 <= ctl[e].rdMax /\ t + 0 = t
    BY <1>3, <1>4
  <2>3. /\ DataOK(e, v, t + 0, w, b, P) /\ Extends(e, o, t, g, v, t + 0)
        /\ GoesOn(o, v) /\ g.typ # "open"
    BY <1>1, <1>2, <1>4, <2>1, <2>2, QueuedInv DEF o
  <2>4. QED
    BY <2>2, <2>3
<1>9. /\ Grows(ViewOf(e, o, t), ViewOf(e, v, t))
      /\ \A f \in v.out : FrameFits(e, ViewOf(e, v, t), f) /\ SegOf(f) = g
      /\ v.s.unacked = o.s.unacked \cup {g} /\ v.s.sndUna = o.s.sndUna
      /\ SameData(o.r, v.r)
      /\ v.c.life = "alive" /\ v.c.src = o.c.src /\ v.c.opened = o.c.opened
      /\ v.c.wr = o.c.wr /\ v.c.conn = o.c.conn
  BY <1>8, Zenon DEF Extends, GoesOn
<1> HIDE DEF t, w, b
<1>10. ViewOf(e, v, t) \in ViewType /\ ViewOf(e, o, t) \in ViewType
  <2>1. SndOK(e, v, t) /\ RcvOK(e, v, w, b, P)
    BY <1>8, Zenon DEF DataOK
  <2>2. ViewOK(e, ViewOf(e, v, t))
    BY <1>3, <1>7, <2>1, ViewTyped
  <2>3. ViewOK(e, View(e))
    BY <1>1, <1>2, LinkedTyped
  <2>4. QED
    BY <2>2, <2>3 DEF ViewOK, View, o, t
\* The section that starts with the FIN queued.
<1>11. Section(e, v, v, t, w, b, P)
  <2>1. v.s.sndUna <= v.s.sndUna
    BY <1>7 DEF XType, SndType
  <2>2. OutOK(e, v, t, v.s.unacked)
    BY <1>9 DEF OutOK
  <2>3. Grows(ViewOf(e, v, t), ViewOf(e, v, t))
    BY <1>10, GrowsSame
  <2>4. QED
    BY <1>8, <2>1, <2>2, <2>3 DEF Section
<1>12. /\ Section(e, v, y, t, w, b, P)
       /\ y = v \/ (v.c.life = "alive" /\ Ended(v, y))
  BY <1>3, <1>7, <1>11, MaybeFinishData
<1>13. y \in XType
  <2>1. /\ c1.rd = "off" /\ c1.wr = ctl[e].wr /\ c1.conn = "up" /\ c1.opened = ctl[e].opened
        /\ DialOK(e, ctl[e]) /\ ctl[e].conn = "up"
    <3>1. ctl[e] \in CtlType /\ ctl[e].conn = "up" /\ DialOK(e, ctl[e])
      BY <1>1, <1>3, Zenon DEF StreamOK, XType, SndAwake, Alive
    <3>2. QED
      BY <3>1, Zenon DEF CtlType
  <2> HIDE DEF c1
  <2>2. SndAwake(c1, x.s)
    BY <1>5, <2>1 DEF SndAwake
  <2>3. RcvAwake(c1, x.r) /\ DialOK(e, c1)
    BY <1>5, <2>1, Zenon DEF RcvAwake, DialOK
  <2>4. StreamOK(e, v)
    BY <1>5, <1>7, <2>2, <2>3, Zenon DEF StreamOK
  <2>5. StreamOK(e, MaybeFinish(v))
    BY <2>4, MaybeFinishOK
  <2>6. QED
    BY <2>5, Zenon DEF StreamOK
<1> HIDE DEF y, c1
<1>14. /\ y.c.src = o.c.src /\ y.c.opened = o.c.opened /\ y.c.life \notin {"none", "gone"}
       /\ y.r.rcvNxt = o.r.rcvNxt /\ y.r.ooo \subseteq o.r.ooo /\ y.s.sndUna = o.s.sndUna
       /\ Quiet(y)
  <2>1. v.c.conn # "up" => v.c.wr = "off"
    BY <1>3, <1>9 DEF Quiet
  <2>2. CASE y = v
    BY <1>9, <2>1, <2>2 DEF SameData, Quiet
  <2>3. CASE Ended(v, y)
    <3>1. Quiet(y)
      BY <2>1, <2>3, EndedIsQuiet
    <3>2. QED
      BY <1>9, <2>3, <3>1 DEF Ended, SameData
  <2>4. QED
    BY <1>12, <2>2, <2>3
<1>15. Stepped(e, o, y, t, t, w, b, P)
  <2>1. /\ DataOK(e, y, t, w, b, P) /\ y.s.unacked \subseteq v.s.unacked
        /\ v.s.sndUna <= y.s.sndUna /\ Grows(ViewOf(e, v, t), ViewOf(e, y, t))
        /\ \A f \in y.out : /\ FrameFits(e, ViewOf(e, y, t), f)
                            /\ f.typ \in SegTypes => SegOf(f) \in v.s.unacked
    BY <1>12, Zenon DEF Section, OutOK
  <2>2. \A h \in y.s.unacked : h.typ = "open" => h \in o.s.unacked
    BY <1>8, <1>9, <2>1
  <2>3. ASSUME NEW f \in y.out, f.typ = "open" PROVE SegOf(f) \in o.s.unacked
    <3>1. SegOf(f) \in v.s.unacked
      BY <2>1, <2>3 DEF SegTypes
    <3>2. SegOf(f).typ = "open"
      BY <2>3 DEF SegOf
    <3>3. QED
      BY <1>8, <1>9, <3>1, <3>2
  <2>4. ViewOf(e, y, t) \in ViewType
    <3>1. SndOK(e, y, t) /\ RcvOK(e, y, w, b, P)
      BY <2>1, Zenon DEF DataOK
    <3>2. QED
      BY <1>3, <1>13, <3>1, ViewTyped DEF ViewOK
  <2>5. Grows(ViewOf(e, o, t), ViewOf(e, y, t))
    BY <1>9, <1>10, <2>1, <2>4, GrowsOn
  <2>6. o.s.sndUna <= y.s.sndUna
    BY <1>9, <2>1
  <2>7. QED
    BY <1>14, <2>1, <2>2, <2>3, <2>5, <2>6, Zenon DEF Stepped
<1>16. Stores(e, y, t, w, b)
  BY <1>1, KeptConns DEF Flush, t, w, b
<1>17. /\ \A f \in net'[e] : f \in net[e]
       /\ \A f \in net'[Peer(e)] : f \in net[Peer(e)] \/ f \in y.out
  BY <1>1, FlushSends DEF Flush, IInv
<1>18. Arrived(e, o, y)
  BY <1>14, IdleArrived DEF Idle
<1>19. QED
  BY <1>1, <1>2, <1>3, <1>13, <1>15, <1>16, <1>17, <1>18, StepInv DEF o, t

\* The end of a write: what is not written any more is not missed.
LEMMA DropBatch ==
  ASSUME NEW e \in Ends, NEW x \in XType, NEW t, NEW w \in Seq(Bytes),
         NEW b \in Seq(Bytes), NEW P, DataOK(e, x, t, w, b, P),
         x.c.life # "alive", x.r.rcvQueue = <<>>,
         NEW y, y.c = [x.c EXCEPT !.wr = "off"], y.s = x.s, y.r = x.r
  PROVE  /\ DataOK(e, y, t, w, <<>>, P) /\ ViewOf(e, y, t) = ViewOf(e, x, t)
         /\ y.c.life = x.c.life /\ y.c.src = x.c.src /\ y.c.opened = x.c.opened
         /\ y.c.wr = "off" /\ y.c.rd = x.c.rd /\ y.c.conn = x.c.conn
<1> DEFINE d == Peer(e)
<1>1. /\ y.c.life = x.c.life /\ y.c.src = x.c.src /\ y.c.opened = x.c.opened
      /\ y.c.wr = "off" /\ y.c.rd = x.c.rd /\ y.c.conn = x.c.conn
  <2>1. x.c \in CtlType
    BY Zenon DEF XType
  <2>2. QED
    BY <2>1, Zenon DEF CtlType
<1>2. ViewOf(e, y, t) = ViewOf(e, x, t)
  BY <1>1, Zenon DEF ViewOf
<1>3. /\ SndOK(e, x, t) /\ SndWindow(e, x, t, P) /\ RcvOK(e, x, w, b, P) /\ OpenFirst(e, x)
      /\ x.s.sndUna <= P.rcv
  BY Zenon DEF DataOK
<1>4. SndOK(e, y, t) /\ SndWindow(e, y, t, P) /\ OpenFirst(e, y)
  <2>1. SndOK(e, y, t)
    BY <1>1, <1>2, <1>3, Zenon DEF SndOK
  <2>2. SndWindow(e, y, t, P)
    BY <1>1, <1>3, Zenon DEF SndWindow, Right
  <2>3. OpenFirst(e, y)
    BY <1>1, <1>3, Zenon DEF OpenFirst
  <2>4. QED
    BY <2>1, <2>2, <2>3
<1>5. /\ RcvData(d, x.r, w, b, P) /\ RcvCount(e, x.r, b) /\ CloseOK(d, x.c, x.r, w, b, P)
  BY <1>3, Zenon DEF RcvOK
<1>6. RcvData(d, y.r, w, <<>>, P)
  <2> DEFINE p == Passed(d, x.r)
             lw == Len(w)
             lb == Len(b)
  <2>1. lw \in Nat /\ lb \in Nat /\ Len(x.r.rcvQueue) = 0
    OBVIOUS
  <2>2. p \in Int
    <3>1. x.r.rcvNxt \in Nat
      BY Zenon DEF XType, RcvType
    <3>2. QED
      BY <3>1 DEF Passed, Larger, Base
  <2>3. lw + lb + Len(x.r.rcvQueue) <= p
    BY <1>5 DEF RcvData
  <2> HIDE DEF p, lw, lb
  <2>4. lw + 0 + 0 <= p
    BY <2>1, <2>2, <2>3
  <2>5. Len(w) + Len(<<>>) + Len(x.r.rcvQueue) <= Passed(d, x.r)
    BY <2>1, <2>4 DEF lw, p
  <2>6. Run(<<>>, P.src, Len(w)) /\ Run(x.r.rcvQueue, P.src, Len(w) + Len(<<>>))
    BY DEF Run
  <2>7. QED
    BY <1>5, <2>5, <2>6 DEF RcvData
<1>7. RcvCount(e, y.r, <<>>)
  <2>1. Len(b) \in Nat /\ Len(x.r.rcvQueue) = 0 /\ x.r.rcvQueued \in Int
    BY DEF XType, RcvType
  <2>2. QED
    BY <1>5, <2>1 DEF RcvCount
<1>8. CloseOK(d, y.c, y.r, w, <<>>, P)
  BY <1>1, <1>5 DEF CloseOK
<1>9. RcvOK(e, y, w, <<>>, P)
  BY <1>1, <1>6, <1>7, <1>8 DEF RcvOK
<1>10. QED
  BY <1>1, <1>2, <1>3, <1>4, <1>9 DEF DataOK

\* conn.Read or bufs.WriteTo failed: the stream is reset, if it lived.
LEMMA ConnErrorInv ==
  ASSUME DataInv, IInv', NEW e \in Ends, ConnError(e)
  PROVE  DataInv'
<1> DEFINE o == Stream(e)
           t == taken[e]
           w == written[e]
           b == batch[e]
           a == Abort(o, TRUE)
           y == [a EXCEPT !.c.wr = "off"]
<1>1. /\ IInv /\ (ctl[e].rd = "read" \/ ctl[e].wr = "write")
      /\ Flush(e, y) /\ batch' = [batch EXCEPT ![e] = <<>>]
      /\ UNCHANGED <<pend, taken, written>>
  BY DEF DataInv, ConnError
<1>2. PICK P : Linked(e, P)
  BY DEF DataInv
<1>3. /\ o \in XType /\ o.out = {} /\ o.c = ctl[e] /\ o.s = snd[e] /\ o.r = rcv[e]
      /\ Quiet(o) /\ StreamOK(e, o) /\ t \in Nat /\ w \in Seq(Bytes) /\ b \in Seq(Bytes)
      /\ Section(e, o, o, t, w, b, P)
  BY <1>2, LinkedParts
<1> HIDE DEF o
<1>4. /\ Section(e, o, a, t, w, b, P)
      /\ o.c.life # "alive" => a = o
      /\ o.c.life = "alive" => Ended(o, a)
  <2>1. TRUE \in BOOLEAN
    OBVIOUS
  <2>2. QED
    BY <1>3, <2>1, AbortData
<1>5. a \in XType
  <2>1. InWindow(e, o.r) /\ DialOK(e, o.c) /\ TRUE \in BOOLEAN
    BY <1>3, Zenon DEF StreamOK
  <2>2. StreamOK(e, Abort(o, TRUE))
    BY <1>3, <2>1, AbortOK
  <2>3. QED
    BY <2>2, Zenon DEF StreamOK
<1> HIDE DEF a
<1>6. /\ a.c.src = o.c.src /\ a.c.opened = o.c.opened
      /\ a.c.life \notin {"none", "gone", "alive"}
      /\ a.r.rcvNxt = o.r.rcvNxt /\ a.r.ooo \subseteq o.r.ooo /\ a.s.sndUna = o.s.sndUna
      /\ Quiet(a)
  <2>1. CASE o.c.life # "alive"
    <3>1. a = o /\ o.c.life \notin {"none", "gone"}
      BY <1>1, <1>3, <1>4, <2>1 DEF Quiet
    <3>2. QED
      BY <1>3, <2>1, <3>1
  <2>2. CASE o.c.life = "alive"
    <3>1. Quiet(a)
      BY <1>3, <1>4, <2>2, EndedIsQuiet DEF Quiet
    <3>2. QED
      BY <1>4, <2>2, <3>1 DEF Ended
  <2>3. QED
    BY <2>1, <2>2
<1>7. y \in XType /\ y.c = [a.c EXCEPT !.wr = "off"] /\ y.s = a.s /\ y.r = a.r /\ y.out = a.out
  <2>1. a.c \in CtlType
    BY <1>5, Zenon DEF XType
  <2>2. [a.c EXCEPT !.wr = "off"] \in CtlType
    BY <2>1, Zenon DEF CtlType
  <2>3. QED
    BY <1>5, <2>2, Zenon DEF XType
<1> HIDE DEF y, t, w, b
<1>8. /\ DataOK(e, a, t, w, b, P) /\ OutOK(e, a, t, o.s.unacked)
      /\ a.s.unacked \subseteq o.s.unacked /\ o.s.sndUna <= a.s.sndUna
      /\ Grows(ViewOf(e, o, t), ViewOf(e, a, t))
  BY <1>4, Zenon DEF Section
<1>9. a.r.rcvQueue = <<>>
  BY <1>6 DEF Quiet
<1>10. /\ DataOK(e, y, t, w, <<>>, P) /\ ViewOf(e, y, t) = ViewOf(e, a, t)
       /\ y.c.life = a.c.life /\ y.c.src = a.c.src /\ y.c.opened = a.c.opened
       /\ y.c.wr = "off" /\ y.c.rd = a.c.rd /\ y.c.conn = a.c.conn
  BY <1>3, <1>5, <1>6, <1>7, <1>8, <1>9, DropBatch
<1>11. Quiet(y)
  BY <1>6, <1>7, <1>10, Zenon DEF Quiet
<1>12. Stepped(e, o, y, t, t, w, <<>>, P)
  <2>1. \A f \in y.out : FrameFits(e, ViewOf(e, y, t), f)
    BY <1>7, <1>8, <1>10 DEF OutOK
  <2>2. \A f \in y.out : f.typ = "open" => SegOf(f) \in o.s.unacked
    BY <1>7, <1>8 DEF OutOK, SegTypes
  <2>3. \A g \in y.s.unacked : g.typ = "open" => g \in o.s.unacked
    BY <1>7, <1>8
  <2>4. y.c.src = o.c.src /\ y.c.life \notin {"none", "gone"}
    BY <1>6, <1>10
  <2>5. o.s.sndUna <= y.s.sndUna /\ Grows(ViewOf(e, o, t), ViewOf(e, y, t))
    BY <1>7, <1>8, <1>10
  <2>6. QED
    BY <1>10, <1>11, <2>1, <2>2, <2>3, <2>4, <2>5, Zenon DEF Stepped
<1>13. Stores(e, y, t, w, <<>>)
  <2>1. taken = [taken EXCEPT ![e] = t] /\ written = [written EXCEPT ![e] = w]
    BY <1>1 DEF IInv, RestOK, t, w
  <2>2. QED
    BY <1>1, <2>1 DEF Stores, Flush
<1>14. /\ \A f \in net'[e] : f \in net[e]
       /\ \A f \in net'[Peer(e)] : f \in net[Peer(e)] \/ f \in y.out
  BY <1>1, FlushSends DEF Flush, IInv
<1>15. Arrived(e, o, y)
  BY <1>6, <1>7, <1>10, IdleArrived DEF Idle
<1>16. QED
  BY <1>1, <1>2, <1>3, <1>7, <1>12, <1>13, <1>14, <1>15, StepInv DEF o, t

\* v is the stream of e but for its window, the delayed ACK and what it sends.
Writing(e, v) ==
  /\ v \in XType /\ v.c = ctl[e] /\ v.s = snd[e]
  /\ v.r.rcvNxt = rcv[e].rcvNxt /\ v.r.ooo = rcv[e].ooo
  /\ v.r.rcvQueue = rcv[e].rcvQueue /\ (v.r.ackTimerSet => rcv[e].ackTimerSet)
  /\ Grows(View(e), ViewOf(e, v, taken[e]))
  /\ \A f \in v.out :
       FrameFits(e, ViewOf(e, v, taken[e]), f) /\ f.typ \notin SegTypes

\* writeLoop ends a step with y: v is the stream once the batch was written.
LEMMA WriteInv ==
  ASSUME DataInv, IInv', NEW e \in Ends, NEW P, Linked(e, P),
         ctl[e].life \notin {"none", "gone"}, ctl[e].conn = "up", ViewOK(Peer(e), P),
         NEW v, Writing(e, v), NEW w2 \in Seq(Bytes),
         DataOK(e, v, taken[e], w2, <<>>, P), NEW y \in XType, y = WriteTop(v),
         Flush(e, y) \/ (Store(e, y) /\ net' = net),
         UNCHANGED <<pend, taken>>, written' = [written EXCEPT ![e] = w2],
         batch' = [batch EXCEPT ![e] = rcv[e].rcvQueue]
  PROVE  DataInv'
<1> SUFFICES
      ASSUME v \in XType, v.c = ctl[e], v.s = snd[e], v.r.rcvNxt = rcv[e].rcvNxt,
             v.r.ooo = rcv[e].ooo, v.r.rcvQueue = rcv[e].rcvQueue,
             v.r.ackTimerSet => rcv[e].ackTimerSet,
             Grows(View(e), ViewOf(e, v, taken[e])),
             \A f \in v.out :
               FrameFits(e, ViewOf(e, v, taken[e]), f) /\ f.typ \notin SegTypes
      PROVE  DataInv'
  BY DEF Writing
<1> DEFINE o == Stream(e)
           t == taken[e]
           b2 == rcv[e].rcvQueue
<1>1. IInv /\ t \in Nat /\ Store(e, y)
  BY DEF DataInv, IInv, RestOK, Flush
<1>2. /\ o \in XType /\ o.c = ctl[e] /\ o.s = snd[e] /\ o.r = rcv[e] /\ Quiet(o)
  BY LinkedParts
<1>3. View(e) = ViewOf(e, o, t)
  BY DEF View
<1>4. v.c.life # "alive" => v.r.rcvQueue = <<>>
  BY <1>2 DEF Quiet
<1> HIDE DEF o
<1>5. /\ DataOK(e, y, t, w2, b2, P)
      /\ ViewOf(e, y, t) = ViewOf(e, v, t) /\ y.s = v.s /\ y.out = v.out
      /\ y.r = [v.r EXCEPT !.rcvQueue = <<>>]
      /\ y.c.life = v.c.life /\ y.c.src = v.c.src /\ y.c.opened = v.c.opened
      /\ y.c.conn = v.c.conn /\ y.c.rd = v.c.rd
      /\ v.c.life # "alive" => y.c.wr = "off"
  BY <1>1, <1>4, WriteTopData
<1>6. /\ y.r.rcvNxt = v.r.rcvNxt /\ y.r.ooo = v.r.ooo /\ y.r.rcvQueue = <<>>
      /\ y.r.ackTimerSet = v.r.ackTimerSet
  <2>1. v.r \in RcvType
    BY Zenon DEF XType
  <2>2. QED
    BY <1>5, <2>1, Zenon DEF RcvType
<1>7. Quiet(y)
  BY <1>2, <1>5, <1>6 DEF Quiet
<1>8. Stepped(e, o, y, t, t, w2, b2, P)
  <2>1. \A f \in y.out : FrameFits(e, ViewOf(e, y, t), f) /\ f.typ # "open"
    BY <1>5 DEF SegTypes
  <2>2. \A g \in y.s.unacked : g \in o.s.unacked
    BY <1>2, <1>5
  <2>3. o.s.sndUna <= y.s.sndUna
    <3>1. y.s.sndUna = o.s.sndUna
      BY <1>2, <1>5
    <3>2. o.s.sndUna \in Nat
      BY <1>2, Zenon DEF XType, SndType
    <3>3. QED
      BY <3>1, <3>2
  <2>4. y.c.src = o.c.src /\ y.c.life \notin {"none", "gone"}
    BY <1>2, <1>5
  <2>5. Grows(ViewOf(e, o, t), ViewOf(e, y, t))
    BY <1>3, <1>5
  <2>6. QED
    BY <1>5, <1>7, <2>1, <2>2, <2>3, <2>4, <2>5, Zenon DEF Stepped
<1>9. Stores(e, y, t, w2, b2)
  <2>1. taken = [taken EXCEPT ![e] = t]
    BY <1>1 DEF IInv, RestOK
  <2>2. QED
    BY <1>1, <2>1 DEF Stores
<1>10. /\ \A f \in net'[e] : f \in net[e]
       /\ \A f \in net'[Peer(e)] : f \in net[Peer(e)] \/ f \in y.out
  BY <1>1, FlushSends DEF Flush, IInv
<1>11. Arrived(e, o, y)
  <2>1. Idle(o, y)
    BY <1>2, <1>5, <1>6 DEF Idle
  <2>2. QED
    BY <2>1, IdleArrived
<1>12. QED
  BY <1>1, <1>8, <1>9, <1>10, <1>11, StepInv DEF o

\* writeCh wakes writeLoop: nothing was being written.
LEMMA WriteWakeInv ==
  ASSUME DataInv, IInv', NEW e \in Ends, WriteWake(e)
  PROVE  DataInv'
<1> DEFINE o == Stream(e)
           r1 == [rcv[e] EXCEPT !.writeCh = FALSE]
           v == [o EXCEPT !.r.writeCh = FALSE]
           y == WriteTop(v)
<1>1. /\ IInv /\ ctl[e].life = "alive" /\ ctl[e].wr = "wait" /\ Store(e, y) /\ net' = net
      /\ batch' = [batch EXCEPT ![e] = rcv[e].rcvQueue]
      /\ UNCHANGED <<pend, taken, written>>
  BY DEF DataInv, WriteWake, Alive
<1>2. PICK P : Linked(e, P)
  BY DEF DataInv
<1>3. /\ o \in XType /\ o.out = {} /\ o.c = ctl[e] /\ o.s = snd[e] /\ o.r = rcv[e]
      /\ Quiet(o) /\ StreamOK(e, o) /\ taken[e] \in Nat /\ written[e] \in Seq(Bytes)
      /\ DataOK(e, o, taken[e], written[e], batch[e], P) /\ ViewOK(Peer(e), P)
      /\ View(e) \in ViewType
  BY <1>1, <1>2, LinkedParts, LinkedTyped
<1> HIDE DEF o
<1>4. batch[e] = <<>> /\ ctl[e].conn = "up"
  <2>1. CloseOK(Peer(e), o.c, o.r, written[e], batch[e], P)
    BY <1>3, Zenon DEF DataOK, RcvOK
  <2>2. QED
    BY <1>1, <1>3, <2>1 DEF CloseOK, Quiet
<1>5. r1 \in RcvType /\ SameData(rcv[e], r1) /\ r1.ackTimerSet = rcv[e].ackTimerSet
      /\ r1.ackPending = rcv[e].ackPending
  <2>1. rcv[e] \in RcvType
    BY <1>3, Zenon DEF XType
  <2>2. QED
    BY <2>1, Zenon DEF RcvType, SameData
<1>6. v \in XType /\ v.c = o.c /\ v.s = o.s /\ v.r = r1 /\ v.out = {}
  BY <1>3, <1>5, Zenon DEF XType
<1> HIDE DEF v, r1
<1>7. ViewOf(e, v, taken[e]) = View(e) /\ DataOK(e, v, taken[e], written[e], <<>>, P)
  <2>1. SameCtl(o.c, v.c) /\ SameSnd(o.s, v.s) /\ SameData(o.r, v.r)
    BY <1>3, <1>5, <1>6 DEF SameCtl, SameSnd
  <2>2. View(e) = ViewOf(e, o, taken[e])
    BY DEF View, o
  <2>3. QED
    BY <1>3, <1>4, <2>1, <2>2, SameOK
<1>8. Grows(View(e), ViewOf(e, v, taken[e]))
  BY <1>3, <1>7, GrowsSame
<1>9. y \in XType
  <2>1. /\ InWindow(e, v.r) /\ DialOK(e, v.c) /\ SndAwake(v.c, v.s) /\ AckTimed(v.r)
    BY <1>1, <1>3, <1>5, <1>6 DEF StreamOK, SameData, InWindow, RcvAwake, AckTimed
  <2>2. StreamOK(e, WriteTop(v))
    BY <1>6, <2>1, WriteTopOK
  <2>3. QED
    BY <2>2, Zenon DEF StreamOK
<1> HIDE DEF y
<1>10. /\ v.r.rcvNxt = rcv[e].rcvNxt /\ v.r.ooo = rcv[e].ooo /\ v.r.rcvQueue = rcv[e].rcvQueue
       /\ v.r.ackTimerSet => rcv[e].ackTimerSet
  BY <1>5, <1>6 DEF SameData
<1>11. y = WriteTop(v)
  BY DEF y
<1>12. written' = [written EXCEPT ![e] = written[e]]
  BY <1>1 DEF IInv, RestOK
<1>13. v.c = ctl[e] /\ v.s = snd[e]
  BY <1>3, <1>6
<1>14. \A f \in v.out : FrameFits(e, ViewOf(e, v, taken[e]), f) /\ f.typ \notin SegTypes
  BY <1>6
<1>15. ctl[e].life \notin {"none", "gone"}
  BY <1>1
<1>16. Writing(e, v)
  BY <1>6, <1>8, <1>10, <1>13, <1>14 DEF Writing
<1>17. /\ Store(e, y) /\ net' = net /\ UNCHANGED <<pend, taken>>
       /\ batch' = [batch EXCEPT ![e] = rcv[e].rcvQueue]
  BY <1>1
<1>18. /\ written[e] \in Seq(Bytes) /\ ViewOK(Peer(e), P) /\ ctl[e].conn = "up"
       /\ DataOK(e, v, taken[e], written[e], <<>>, P)
  BY <1>3, <1>4, <1>7
<1>19. QED
  BY <1>2, <1>9, <1>11, <1>12, <1>15, <1>16, <1>17, <1>18, WriteInv

\* bufs.WriteTo returned, maybe for a stream that is dead by now.
LEMMA WriteDoneInv ==
  ASSUME DataInv, IInv', NEW e \in Ends, WriteDone(e)
  PROVE  DataInv'
<1> DEFINE o == Stream(e)
           w2 == written[e] \o batch[e]
           r1 == [rcv[e] EXCEPT !.rcvQueued = @ - Len(batch[e])]
           tell == r1.rcvNxt + Free(e, r1) >= r1.advRight + Window[e] \div 4
           r2 == IF tell THEN FillAck(e, r1) ELSE r1
           out == IF tell THEN {AckFrame(e, r1, FALSE, FALSE)} ELSE {}
           u == [o EXCEPT !.r = r1]
           v == [o EXCEPT !.r = r2, !.out = out]
           y == WriteTop(v)
<1>1. /\ IInv /\ ctl[e].wr = "write" /\ Flush(e, y)
      /\ written' = [written EXCEPT ![e] = w2]
      /\ batch' = [batch EXCEPT ![e] = rcv[e].rcvQueue]
      /\ UNCHANGED <<pend, taken>>
  BY DEF DataInv, WriteDone
<1>2. PICK P : Linked(e, P)
  BY DEF DataInv
<1>3. /\ o \in XType /\ o.out = {} /\ o.c = ctl[e] /\ o.s = snd[e] /\ o.r = rcv[e]
      /\ Quiet(o) /\ StreamOK(e, o) /\ taken[e] \in Nat
      /\ written[e] \in Seq(Bytes) /\ batch[e] \in Seq(Bytes)
      /\ DataOK(e, o, taken[e], written[e], batch[e], P) /\ ViewOK(Peer(e), P)
      /\ View(e) = ViewOf(e, o, taken[e])
  BY <1>1, <1>2, LinkedParts DEF View
<1> HIDE DEF o
<1>4. /\ ctl[e].conn = "up" /\ ctl[e].life \notin {"none", "gone"} /\ o.c.wr = "write"
      /\ w2 \in Seq(Bytes)
  BY <1>1, <1>3 DEF Quiet
<1>5. /\ r1 \in RcvType /\ r1.rcvNxt = rcv[e].rcvNxt /\ r1.ooo = rcv[e].ooo
      /\ r1.rcvQueue = rcv[e].rcvQueue /\ r1.ackTimerSet = rcv[e].ackTimerSet
      /\ r1.ackPending = rcv[e].ackPending
  <2>1. rcv[e] \in RcvType
    BY <1>3, Zenon DEF XType
  <2>2. rcv[e].rcvQueued \in Int
    BY <2>1, Zenon DEF RcvType
  <2>3. rcv[e].rcvQueued - Len(batch[e]) \in Int
    BY <1>3, <2>2
  <2>4. QED
    BY <2>1, <2>3, Zenon DEF RcvType
<1>6. u \in XType /\ u.c = o.c /\ u.s = o.s /\ u.r = r1
  BY <1>3, <1>5, Zenon DEF XType
<1>7. u.r = [o.r EXCEPT !.rcvQueued = @ - Len(batch[e])]
  BY <1>3, <1>6
<1> HIDE DEF u, r1, w2
<1>8. /\ DataOK(e, u, taken[e], w2, <<>>, P)
      /\ Grows(View(e), ViewOf(e, u, taken[e]))
  BY <1>3, <1>4, <1>6, <1>7, BatchWritten DEF w2
<1>9. /\ r2 \in RcvType /\ SameData(r1, r2) /\ (r2.ackTimerSet => r1.ackTimerSet)
      /\ \/ r2.ackPending = 0
         \/ r2.ackPending = r1.ackPending /\ r2.ackTimerSet = r1.ackTimerSet
  <2>1. FillAck(e, r1) \in RcvType /\ SameData(r1, FillAck(e, r1))
    BY <1>5, FillAckData
  <2>2. ~FillAck(e, r1).ackTimerSet /\ FillAck(e, r1).ackPending = 0
    BY <1>5 DEF FillAck, RcvType
  <2>3. SameData(r1, r1)
    BY DEF SameData
  <2> HIDE DEF tell
  <2>4. QED
    BY <1>5, <2>1, <2>2, <2>3
<1>10. ASSUME NEW f \in out
       PROVE  f \in Frame /\ Told(e, r1, f) /\ f.typ \notin SegTypes
  <2>1. f = AckFrame(e, r1, FALSE, FALSE) /\ FALSE \in BOOLEAN
    BY <1>10
  <2>2. RcvCount(e, r1, <<>>)
    BY <1>6, <1>8, Zenon DEF DataOK, RcvOK
  <2>3. <<>> \in Seq(Bytes)
    OBVIOUS
  <2>4. Told(e, r1, f)
    BY <1>5, <2>1, <2>2, <2>3, FramesTell
  <2>5. f \in Frame
    BY <1>5, <2>1, FramesTyped
  <2>6. f.typ \notin SegTypes
    BY <2>1 DEF AckFrame, SegTypes
  <2>7. QED
    BY <2>4, <2>5, <2>6
<1> HIDE DEF r2, out
<1>11. v \in XType /\ v.c = o.c /\ v.s = o.s /\ v.r = r2 /\ v.out = out
  <2>1. out \in SUBSET Frame
    BY <1>10
  <2>2. QED
    BY <1>3, <1>9, <2>1, Zenon DEF XType
<1> HIDE DEF v
<1>12. /\ ViewOf(e, v, taken[e]) = ViewOf(e, u, taken[e])
       /\ DataOK(e, v, taken[e], w2, <<>>, P)
  <2>1. SameCtl(u.c, v.c) /\ SameSnd(u.s, v.s) /\ SameData(u.r, v.r)
    BY <1>6, <1>9, <1>11 DEF SameCtl, SameSnd
  <2>2. QED
    BY <1>8, <2>1, SameOK
<1>13. \A f \in v.out : FrameFits(e, ViewOf(e, v, taken[e]), f) /\ f.typ \notin SegTypes
  <2>1. SndOK(e, u, taken[e]) /\ OpenFirst(e, u)
    BY <1>8, Zenon DEF DataOK
  <2>2. ASSUME NEW f \in v.out
        PROVE  FrameFits(e, ViewOf(e, v, taken[e]), f) /\ f.typ \notin SegTypes
    <3>1. Told(e, u.r, f) /\ f.typ \notin SegTypes
      BY <1>6, <1>10, <1>11, <2>2
    <3>2. FrameFits(e, ViewOf(e, u, taken[e]), f)
      BY <1>3, <1>6, <2>1, <3>1, ToldFits
    <3>3. QED
      BY <1>12, <3>1, <3>2
  <2>3. QED
    BY <2>2
<1>14. y \in XType
  <2>1. InWindow(e, v.r) /\ DialOK(e, v.c)
    BY <1>3, <1>5, <1>9, <1>11 DEF StreamOK, SameData, InWindow
  <2>2. v.c.life = "alive" => SndAwake(v.c, v.s) /\ AckTimed(v.r)
    <3>1. o.c.life = "alive" => SndAwake(o.c, o.s) /\ AckTimed(o.r)
      BY <1>3, Zenon DEF StreamOK, RcvAwake
    <3>2. AckTimed(o.r) => AckTimed(r2)
      BY <1>3, <1>5, <1>9 DEF AckTimed
    <3>3. QED
      BY <1>11, <3>1, <3>2
  <2>3. StreamOK(e, WriteTop(v))
    BY <1>11, <2>1, <2>2, WriteTopOK
  <2>4. QED
    BY <2>3, Zenon DEF StreamOK
<1> HIDE DEF y
<1>15. /\ v.r.rcvNxt = rcv[e].rcvNxt /\ v.r.ooo = rcv[e].ooo /\ v.r.rcvQueue = rcv[e].rcvQueue
       /\ v.r.ackTimerSet => rcv[e].ackTimerSet
  BY <1>5, <1>9, <1>11 DEF SameData
<1>16. y = WriteTop(v)
  BY DEF y
<1>17. v.c = ctl[e] /\ v.s = snd[e] /\ Grows(View(e), ViewOf(e, v, taken[e]))
  BY <1>3, <1>8, <1>11, <1>12
<1>18. Writing(e, v)
  BY <1>11, <1>13, <1>15, <1>17 DEF Writing
<1>19. QED
  BY <1>1, <1>2, <1>3, <1>4, <1>12, <1>14, <1>16, <1>18, WriteInv

\* closeWrite returned: everything was written.
LEMMA CloseWriteDoneInv ==
  ASSUME DataInv, IInv', NEW e \in Ends, CloseWriteDone(e)
  PROVE  DataInv'
<1> DEFINE o == Stream(e)
           t == taken[e]
           w == written[e]
           b == batch[e]
           c1 == [o.c EXCEPT !.wr = "off"]
           r1 == [o.r EXCEPT !.finWritten = TRUE]
           x == [o EXCEPT !.c.wr = "off", !.r.finWritten = TRUE]
           y == MaybeFinish(x)
<1>1. /\ IInv /\ ctl[e].life = "alive" /\ ctl[e].wr = "close" /\ Flush(e, y)
      /\ UNCHANGED <<pend, taken, batch, written>>
  BY DEF DataInv, CloseWriteDone, Alive
<1>2. PICK P : Linked(e, P)
  BY DEF DataInv
<1>3. /\ o \in XType /\ o.out = {} /\ o.c = ctl[e] /\ o.s = snd[e] /\ o.r = rcv[e]
      /\ Quiet(o) /\ StreamOK(e, o) /\ t \in Nat /\ w \in Seq(Bytes) /\ b \in Seq(Bytes)
      /\ DataOK(e, o, t, w, b, P) /\ Section(e, o, o, t, w, b, P)
  BY <1>2, LinkedParts
<1> HIDE DEF o, t, w, b
<1>4. /\ c1 \in CtlType /\ c1.life = o.c.life /\ c1.rd = o.c.rd /\ c1.rdMax = o.c.rdMax
      /\ c1.wr = "off" /\ c1.src = o.c.src /\ c1.opened = o.c.opened /\ c1.conn = o.c.conn
  <2>1. o.c \in CtlType
    BY <1>3, Zenon DEF XType
  <2>2. QED
    BY <2>1, Zenon DEF CtlType
<1>5. /\ r1 \in RcvType /\ r1.rcvNxt = o.r.rcvNxt /\ r1.ooo = o.r.ooo
      /\ r1.rcvQueue = o.r.rcvQueue /\ r1.rcvQueued = o.r.rcvQueued
      /\ r1.rcvFin = o.r.rcvFin /\ r1.ackPending = o.r.ackPending
      /\ r1.ackTimerSet = o.r.ackTimerSet
  <2>1. o.r \in RcvType
    BY <1>3, Zenon DEF XType
  <2>2. QED
    BY <2>1, Zenon DEF RcvType
<1>6. x \in XType /\ x.c = c1 /\ x.s = o.s /\ x.r = r1 /\ x.out = {}
  BY <1>3, <1>4, <1>5, Zenon DEF XType
<1> HIDE DEF x, c1, r1
<1>7. ViewOf(e, x, t) = ViewOf(e, o, t)
  BY <1>4, <1>5, <1>6, Zenon DEF ViewOf
<1>8. DataOK(e, x, t, w, b, P)
  <2>1. /\ SndOK(e, o, t) /\ SndWindow(e, o, t, P) /\ RcvOK(e, o, w, b, P)
        /\ OpenFirst(e, o) /\ o.s.sndUna <= P.rcv
    BY <1>3, Zenon DEF DataOK
  <2>2. SndOK(e, x, t)
    BY <1>4, <1>6, <1>7, <2>1, Zenon DEF SndOK
  <2>3. SndWindow(e, x, t, P)
    BY <1>4, <1>6, <2>1, Zenon DEF SndWindow, Right
  <2>4. OpenFirst(e, x)
    BY <1>4, <1>5, <1>6, <2>1, Zenon DEF OpenFirst
  <2>5. /\ RcvData(Peer(e), o.r, w, b, P)
        /\ o.c.life = "alive" => Complete(Peer(e), o.r, w, b)
        /\ RcvCount(e, o.r, b) /\ CloseOK(Peer(e), o.c, o.r, w, b, P)
    BY <2>1, Zenon DEF RcvOK
  <2>6. RcvData(Peer(e), r1, w, b, P)
    BY <1>5, <2>5, Zenon DEF RcvData, Passed
  <2>7. RcvCount(e, r1, b)
    BY <1>5, <2>5, Zenon DEF RcvCount
  <2>8. o.c.life = "alive" => Complete(Peer(e), r1, w, b)
    BY <1>5, <2>5, Zenon DEF Complete, Passed
  <2>9. CloseOK(Peer(e), c1, r1, w, b, P)
    BY <1>1, <1>3, <1>4, <1>5, <2>5 DEF CloseOK
  <2>10. RcvOK(e, x, w, b, P)
    BY <1>4, <1>6, <2>6, <2>7, <2>8, <2>9 DEF RcvOK
  <2>11. QED
    BY <1>6, <2>1, <2>2, <2>3, <2>4, <2>10 DEF DataOK
<1>9. Section(e, o, x, t, w, b, P)
  <2>1. /\ o.s.unacked \subseteq o.s.unacked /\ o.s.sndUna <= o.s.sndUna
        /\ Grows(ViewOf(e, o, t), ViewOf(e, o, t))
    BY <1>3, Zenon DEF Section
  <2>2. OutOK(e, x, t, o.s.unacked)
    BY <1>6 DEF OutOK
  <2>3. QED
    BY <1>6, <1>7, <1>8, <2>1, <2>2 DEF Section
<1>10. /\ Section(e, o, y, t, w, b, P)
       /\ y = x \/ (x.c.life = "alive" /\ Ended(x, y))
  BY <1>3, <1>6, <1>9, MaybeFinishData
<1>11. y \in XType
  <2>1. /\ InWindow(e, o.r) /\ DialOK(e, o.c) /\ SndAwake(o.c, o.s) /\ AckTimed(o.r)
    BY <1>1, <1>3 DEF StreamOK, RcvAwake
  <2>2. InWindow(e, r1) /\ DialOK(e, c1) /\ SndAwake(c1, o.s)
    BY <1>4, <1>5, <2>1, Zenon DEF InWindow, DialOK, SndAwake
  <2>3. RcvAwake(c1, r1)
    BY <1>4, <1>5, <2>1 DEF RcvAwake, AckTimed
  <2>4. StreamOK(e, x)
    BY <1>6, <2>2, <2>3, Zenon DEF StreamOK
  <2>5. StreamOK(e, MaybeFinish(x))
    BY <2>4, MaybeFinishOK
  <2>6. QED
    BY <2>5, Zenon DEF StreamOK
<1> HIDE DEF y
<1>12. /\ y.c.src = o.c.src /\ y.c.life \notin {"none", "gone"} /\ Quiet(y) /\ Idle(o, y)
  <2>1. x.c.life = "alive" /\ Quiet(x)
    BY <1>1, <1>3, <1>4, <1>6 DEF Quiet
  <2>2. CASE y = x
    BY <1>4, <1>5, <1>6, <2>1, <2>2 DEF Idle
  <2>3. CASE Ended(x, y)
    <3>1. Quiet(y)
      BY <2>1, <2>3, EndedIsQuiet DEF Quiet
    <3>2. QED
      BY <1>4, <1>5, <1>6, <2>3, <3>1 DEF Ended, Idle
  <2>4. QED
    BY <1>10, <2>2, <2>3
<1>13. Arrived(e, o, y)
  BY <1>12, IdleArrived
<1>14. QED
  BY <1>1, <1>2, <1>3, <1>10, <1>11, <1>12, <1>13, SectionInv DEF o, t, w, b

-----------------------------------------------------------------------------
(* Frames.                                                                 *)

\* A frame in flight fits the view that its receiver is compared with, and if it
\* carries the next segment, all its sender has read lies within the window.
LEMMA FrameArrives ==
  ASSUME DataInv, NEW e \in Ends, NEW P, Linked(e, P),
         NEW f \in Frame, FrameFits(Peer(e), View(Peer(e)), f),
         e = "server" => f \in net["server"] \cup pend
  PROVE  /\ FrameFits(Peer(e), P, f)
         /\ Wide /\ f.typ \in SegTypes /\ f.seq = rcv[e].rcvNxt
              => P.last <= rcv[e].rcvNxt + (Window[e] - rcv[e].rcvQueued)
<1> DEFINE d == Peer(e)
           V == View(d)
<1>1. d \in Ends /\ Peer(d) = e /\ IInv
  BY PeerIsEnd DEF DataInv
<1>2. PICK Q : Linked(d, Q)
  BY <1>1 DEF DataInv
<1>3. /\ ViewOK(d, V) /\ ViewOK(e, View(e)) /\ V \in ViewType
  BY <1>1, <1>2, LinkedTyped
<1>4. /\ ViewOK(d, P) /\ ViewOK(e, Q)
      /\ P = V \/ (e = "client" /\ Cut)
      /\ Q = View(e) \/ (d = "client" /\ Cut)
  BY <1>1, <1>2, Zenon DEF Linked
<1>5. /\ V.last = Base(d) + taken[d] /\ V.nxt = snd[d].sndNxt /\ V.rcv = rcv[d].rcvNxt
      /\ View(e).edge = rcv[e].rcvNxt + (Window[e] - rcv[e].rcvQueued)
  BY DEF View, ViewOf, Stream
<1>6. SndWindow(d, Stream(d), taken[d], Q) /\ OpenFirst(d, Stream(d))
  BY <1>2, Zenon DEF Linked, DataOK
<1>7. Wide => Base(d) + taken[d] <= Right(d, Stream(d), Q)
  BY <1>6 DEF SndWindow
<1>8. Cut => OpenDead /\ ~ctl["server"].opened
  BY DEF Cut
<1> HIDE DEF V
<1>9. CASE e = "client" /\ Cut
  <2>1. d = "server" /\ V.rcv = 0 /\ V.nxt = 0
    <3>1. d = "server"
      BY <1>9 DEF d, Peer
    <3>2. Stream("server").c = ctl["server"] /\ Stream("server").r = rcv["server"]
          /\ Stream("server").s = snd["server"]
      BY DEF Stream
    <3>3. QED
      BY <1>5, <1>6, <1>8, <1>9, <3>1, <3>2 DEF OpenFirst
  <2>2. FrameFits("server", P, f) /\ f.typ \notin SegTypes
    BY <1>3, <1>4, <2>1, CutFits DEF V
  <2>3. QED
    BY <2>1, <2>2
<1>10. CASE P = V
  <2>1. ASSUME Wide, f.typ \in SegTypes, f.seq = rcv[e].rcvNxt
        PROVE  P.last <= View(e).edge
    <3>1. P.last <= Right(d, Stream(d), Q)
      BY <1>5, <1>7, <1>10, <2>1
    <3>2. CASE Q = View(e)
      <4>1. Right(d, Stream(d), Q) = Window[e] \/ Right(d, Stream(d), Q) = View(e).edge
        BY <1>1, <3>2 DEF Right
      <4>2. /\ Window[e] \in Int /\ View(e).edge \in Int /\ P.last \in Int
            /\ Window[e] <= View(e).edge
        BY <1>3, <1>10, WindowAssumption DEF ViewOK, ViewType
      <4>3. QED
        BY <3>1, <4>1, <4>2
    <3>3. CASE d = "client" /\ Cut
      <4>1. e = "server" /\ f.typ # "open"
        BY <1>1, <1>8, <3>3 DEF OpenDead, Peer
      <4>2. rcv["server"].rcvNxt = 0
        <5>1. PICK R : Linked("server", R)
          BY <4>1 DEF DataInv
        <5>2. OpenFirst("server", Stream("server"))
          BY <5>1, Zenon DEF Linked, DataOK
        <5>3. Stream("server").c = ctl["server"] /\ Stream("server").r = rcv["server"]
          BY DEF Stream
        <5>4. QED
          BY <1>8, <3>3, <5>2, <5>3 DEF OpenFirst
      <4>3. IsSegOf("client", V, SegOf(f))
        BY <2>1, <3>3 DEF FrameFits, V, d
      <4>4. SegOf(f).seq = 0 /\ SegOf(f).typ = f.typ
        BY <2>1, <4>1, <4>2 DEF SegOf
      <4>5. Base("client") = 1 /\ 1 <= V.last /\ V.last \in Int
        BY <1>3, <3>3 DEF Base, ViewOK, ViewType
      <4>6. QED
        BY <4>1, <4>3, <4>4, <4>5 DEF IsSegOf
    <3>4. QED
      BY <1>4, <3>2, <3>3
  <2>2. QED
    BY <1>5, <1>10, <2>1 DEF V, d
<1>11. QED
  BY <1>4, <1>9, <1>10

\* A known stream handles a frame: what arrives is what was in flight.
LEMMA HandledInv ==
  ASSUME DataInv, IInv', NEW e \in Ends, Known(e), NEW f,
         f \in net[e] \/ (e = "server" /\ f \in pend),
         NEW aged \in BOOLEAN, Flush(e, HandleFrame(e, Stream(e), f, aged)),
         UNCHANGED <<taken, batch, written>>, \A h \in pend' : h \in pend
  PROVE  DataInv'
<1> DEFINE o == Stream(e)
           y == HandleFrame(e, o, f, aged)
<1>1. PICK P : Linked(e, P)
  BY DEF DataInv
<1>2. /\ o \in XType /\ o.out = {} /\ o.c = ctl[e] /\ o.s = snd[e] /\ o.r = rcv[e]
      /\ taken[e] \in Nat /\ written[e] \in Seq(Bytes) /\ batch[e] \in Seq(Bytes)
      /\ DataOK(e, o, taken[e], written[e], batch[e], P) /\ ViewOK(Peer(e), P)
      /\ Quiet(o) /\ StreamOK(e, o)
  BY <1>1, LinkedParts
<1>3. f \in Frame /\ FrameFits(Peer(e), View(Peer(e)), f)
  <2>1. net \in [Ends -> SUBSET Frame] /\ pend \in SUBSET Frame /\ Peer(e) \in Ends
    BY PeerIsEnd DEF DataInv, IInv, NetOK, RestOK
  <2>2. e = "server" => Peer(e) = "client"
    BY DEF Peer
  <2>3. QED
    BY <2>1, <2>2 DEF DataInv, InFlight
<1>4. e = "server" => f \in net["server"] \cup pend
  OBVIOUS
<1>5. /\ FrameFits(Peer(e), P, f)
      /\ Wide /\ f.typ \in SegTypes /\ f.seq = rcv[e].rcvNxt
           => P.last <= rcv[e].rcvNxt + (Window[e] - rcv[e].rcvQueued)
  BY <1>1, <1>3, <1>4, FrameArrives
<1> HIDE DEF o
<1>6. /\ Section(e, o, y, taken[e], written[e], batch[e], P) /\ Handled(o, f, y)
  BY <1>2, <1>3, <1>5, HandleFrameData
<1>7. StreamOK(e, y) /\ y \in XType
  BY <1>2, <1>3, HandleFrameOK DEF StreamOK
<1> HIDE DEF y
<1>8. /\ y.c.src = ctl[e].src /\ Quiet(y) /\ y.c.life \notin {"none", "gone"}
  BY <1>2, <1>6 DEF Handled, Known
<1>9. Arrived(e, o, y)
  <2>1. ASSUME y.c.opened, ~o.c.opened PROVE \E h \in net["server"] \cup pend : h.typ = "open"
    <3>1. f.typ = "open"
      BY <1>6, <2>1 DEF Handled
    <3>2. CASE e = "server"
      BY <1>4, <3>1, <3>2
    <3>3. CASE e = "client"
      <4>1. IsSegOf("server", P, SegOf(f)) /\ SegOf(f).typ = "open"
        BY <1>5, <3>1, <3>3 DEF FrameFits, SegTypes, SegOf, Peer
      <4>2. QED
        BY <4>1 DEF IsSegOf
    <3>4. QED
      BY <3>2, <3>3 DEF Ends
  <2>2. ASSUME e = "client"
        PROVE  \/ y.r.rcvNxt = o.r.rcvNxt /\ y.r.ooo \subseteq o.r.ooo
               \/ 1 <= y.s.sndUna
    <3>1. SUFFICES ASSUME f.typ \in SegTypes, f.ack <= o.s.sndNxt => f.ack <= y.s.sndUna
                   PROVE  1 <= y.s.sndUna
      BY <1>6 DEF Handled
    <3>2. 1 <= f.ack /\ f.ack <= View("server").rcv
      BY <1>3, <2>2, <3>1 DEF FrameFits, Peer
    <3>3. View("server").rcv <= snd["client"].sndNxt
      <4>1. PICK R : Linked("server", R)
        BY DEF DataInv, Ends
      <4>2. R = View("client") /\ RcvData("client", Stream("server").r, written["server"], batch["server"], R)
        BY <4>1, Zenon DEF Linked, DataOK, RcvOK, Peer
      <4>3. R.nxt = snd["client"].sndNxt /\ Stream("server").r.rcvNxt = View("server").rcv
        BY <4>2 DEF View, ViewOf, Stream
      <4>4. QED
        BY <4>2, <4>3 DEF RcvData
    <3>4. f.ack \in Int /\ View("server").rcv \in Int /\ snd["client"].sndNxt \in Int
      <4>1. "server" \in Ends /\ "client" \in Ends
        BY DEF Ends
      <4>2. snd["client"] \in SndType /\ rcv["server"] \in RcvType
        BY <4>1 DEF DataInv, IInv, StreamsOK
      <4>3. f.ack \in Int
        BY <1>3, FrameFields
      <4>4. View("server").rcv = rcv["server"].rcvNxt
        BY DEF View, ViewOf, Stream
      <4>5. QED
        BY <4>2, <4>3, <4>4 DEF SndType, RcvType
    <3>5. o.s.sndNxt = snd["client"].sndNxt
      BY <1>2, <2>2
    <3>6. y.s.sndUna \in Int
      BY <1>7 DEF XType, SndType
    <3>7. QED
      BY <3>1, <3>2, <3>3, <3>4, <3>5, <3>6
  <2>3. ASSUME e = "client"
        PROVE  \/ /\ y.r.rcvNxt = o.r.rcvNxt /\ y.r.ooo \subseteq o.r.ooo
                  /\ y.s.sndUna = o.s.sndUna
               \/ \E h \in net["client"] : h # RstFrame
    <3>1. CASE f = RstFrame
      <4>1. f.typ = "rst" /\ f.typ \notin SegTypes
        BY <3>1 DEF RstFrame, SegTypes
      <4>2. QED
        BY <1>6, <4>1 DEF Handled
    <3>2. CASE f # RstFrame
      BY <2>3, <3>2
    <3>3. QED
      BY <3>1, <3>2
  <2>4. QED
    BY <2>1, <2>2, <2>3 DEF Arrived
<1>10. Flush(e, y)
  BY DEF y, o
<1>11. QED
  BY <1>1, <1>6, <1>7, <1>8, <1>9, <1>10, SectionInv DEF o

\* A frame reaches a stream that is known.
LEMMA DeliverKnownInv ==
  ASSUME DataInv, IInv', NEW e \in Ends, NEW f \in net[e], NEW aged \in BOOLEAN,
         DeliverKnown(e, f, aged)
  PROVE  DataInv'
<1>1. /\ Known(e) /\ Flush(e, HandleFrame(e, Stream(e), f, aged)) /\ pend' = pend
      /\ UNCHANGED <<taken, batch, written>>
  BY DEF DeliverKnown
<1>2. \A h \in pend' : h \in pend
  BY <1>1
<1>3. QED
  BY <1>1, <1>2, HandledInv

\* A frame for an unknown stream is reset or is about to create it.
LEMMA DeliverUnknownInv ==
  ASSUME DataInv, IInv', NEW e \in Ends, NEW f \in net[e],
         DeliverUnknown(e, f) \/ (e = "server" /\ DeliverNew(f)) \/ Leave(e, f)
  PROVE  DataInv'
<1>1. UNCHANGED <<ctl, snd, rcv, taken, batch, written>>
  BY DEF DeliverUnknown, DeliverNew, Leave
<1>2. net \in [Ends -> SUBSET Frame] /\ NetOK
  BY DEF DataInv, IInv, NetOK
<1>3. CASE DeliverUnknown(e, f)
  <2>1. Send(e, {RstFrame}) /\ pend' = pend
    BY <1>3 DEF DeliverUnknown
  <2>2. /\ \A h \in net'[e] : h \in net[e]
        /\ \A h \in net'[Peer(e)] : h \in net[Peer(e)] \/ h \in {RstFrame}
    BY <1>2, <2>1, FlushSends
  <2>3. \A k \in Ends : k = e \/ k = Peer(e)
    BY DEF Ends, Peer
  <2>4. \A k \in Ends : \A h \in net'[k] : h \in net[k] \/ h = RstFrame
    BY <2>2, <2>3
  <2>5. QED
    BY <1>1, <2>1, <2>4, NetInv
<1>4. CASE e = "server" /\ DeliverNew(f)
  <2>1. net' = net /\ pend' = pend \cup {f}
    BY <1>4 DEF DeliverNew
  <2>2. \A h \in pend' : h \in pend \/ h \in net["server"]
    BY <1>4, <2>1
  <2>3. \A k \in Ends : \A h \in net'[k] : h \in net[k] \/ h = RstFrame
    BY <2>1
  <2>4. QED
    BY <1>1, <2>2, <2>3, NetInv
<1>5. CASE Leave(e, f)
  <2>1. net' = [net EXCEPT ![e] = @ \ {f}] /\ pend' = pend
    BY <1>5 DEF Leave
  <2>2. \A k \in Ends : \A h \in net'[k] : h \in net[k] \/ h = RstFrame
    BY <1>2, <2>1
  <2>3. QED
    BY <1>1, <2>1, <2>2, NetInv
<1>6. QED
  BY <1>3, <1>4, <1>5

-----------------------------------------------------------------------------
(* The beginning and the end of streams.                                   *)

\* What is known of the client stream before any of it reached tcp_forward.
LEMMA ClientOpen ==
  ASSUME DataInv, snd["client"].sndUna # 0
  PROVE  /\ ctl["client"].life # "none"
         /\ \A g \in snd["client"].unacked : g.typ # "open"
<1>1. PICK P : Linked("client", P)
  BY DEF DataInv, Ends
<1>2. SndOK("client", Stream("client"), taken["client"])
  BY <1>1, Zenon DEF Linked, DataOK
<1>3. Stream("client").s = snd["client"]
  BY DEF Stream
<1>4. snd["client"] \in SndType
  BY DEF DataInv, IInv, StreamsOK, Ends
<1>5. snd["client"].sndUna <= snd["client"].sndNxt
  BY <1>2, <1>3 DEF SndOK
<1>6. ctl["client"].life # "none"
  BY <1>4, <1>5 DEF DataInv, NoneYet, SndType
<1>7. ASSUME NEW g \in snd["client"].unacked, g.typ = "open" PROVE FALSE
  <2>1. /\ snd["client"].sndUna < SegEnd(g)
        /\ IsSegOf("client", ViewOf("client", Stream("client"), taken["client"]), g)
    BY <1>2, <1>3, <1>7 DEF SndOK
  <2>2. g.seq = 0 /\ g.len = 1
    BY <1>7, <2>1 DEF IsSegOf
  <2>3. snd["client"].sndUna \in Nat
    BY <1>4 DEF SndType
  <2>4. QED
    BY <2>1, <2>2, <2>3 DEF SegEnd
<1>8. QED
  BY <1>6, <1>7

\* A stream that has ended is forgotten, and none of its frames is left.
LEMMA LingerExpireInv ==
  ASSUME DataInv, IInv', NEW e \in Ends, LingerExpire(e)
  PROVE  DataInv'
<1>1. /\ ctl[e].life \in {"finished", "aborted"} /\ pend = {} /\ pend' = {}
      /\ ctl[e].conn # "dialing" /\ ctl[e].wr = "off"
      /\ ctl' = [ctl EXCEPT ![e].life = "gone"]
      /\ \A k \in Ends : net'[k] = {}
      /\ UNCHANGED <<snd, rcv, taken, batch, written>>
  BY DEF LingerExpire
<1>2. /\ IInv /\ ctl \in [Ends -> CtlType]
  BY DEF DataInv, IInv, StreamsOK
<1>3. /\ \A k \in Ends \ {e} : ctl'[k] = ctl[k]
      /\ ctl'[e] = [ctl[e] EXCEPT !.life = "gone"]
  BY <1>1, <1>2
<1>4. \A k \in Ends :
        /\ SameSnd(Stream(k).s, Stream(k)'.s) /\ Stream(k)'.r = Stream(k).r
        /\ Stream(k)'.s = Stream(k).s /\ Stream(k)'.c = ctl'[k] /\ Stream(k).c = ctl[k]
  BY <1>1 DEF Stream, SameSnd
<1>5. \A k \in Ends : ctl[k] \in CtlType
  BY <1>2
<1>6. \A k \in Ends :
        /\ ctl'[k].src = ctl[k].src /\ ctl'[k].opened = ctl[k].opened
        /\ ctl'[k].wr = ctl[k].wr /\ ctl'[k].rd = ctl[k].rd
        /\ ctl'[k].conn = ctl[k].conn
        /\ ctl'[k].life = IF k = e THEN "gone" ELSE ctl[k].life
  BY <1>3, <1>5 DEF CtlType
<1>7. ASSUME NEW k \in Ends PROVE View(k)' = View(k)
  <2>1. ViewOf(k, Stream(k)', taken[k]) = ViewOf(k, Stream(k), taken[k])
    BY <1>4, <1>6 DEF ViewOf
  <2>2. View(k)' = ViewOf(k, Stream(k)', taken'[k])
    BY DEF View, ViewOf
  <2>3. QED
    BY <1>1, <2>1, <2>2 DEF View
<1>8. ASSUME NEW k \in Ends PROVE Quiet(Stream(k))'
  <2>1. Quiet(Stream(k))
    BY DEF DataInv
  <2>2. CASE k = e
    <3>1. /\ Stream(k)'.c.life = "gone" /\ Stream(k)'.c.wr = "off"
          /\ Stream(k)'.c.conn # "dialing" /\ Stream(k)'.c.rd = Stream(k).c.rd
          /\ Stream(k)'.s = Stream(k).s /\ Stream(k)'.r = Stream(k).r
          /\ Stream(k).c.life \in {"finished", "aborted"}
      BY <1>1, <1>4, <1>6, <2>2
    <3>2. QED
      BY <2>1, <3>1 DEF Quiet
  <2>3. CASE k # e
    BY <1>1, <1>4, <1>6, <2>1, <2>3 DEF Quiet
  <2>4. QED
    BY <2>2, <2>3
<1>9. Cut => Cut'
  BY <1>1, <1>6 DEF Cut, OpenDead, Ends
<1>10. ASSUME NEW k \in Ends PROVE (\E P : Linked(k, P))'
  <2>1. PICK P : Linked(k, P)
    BY DEF DataInv
  <2>2. DataOK(k, Stream(k), taken[k], written[k], batch[k], P)
        /\ ViewOK(Peer(k), P) /\ (P = View(Peer(k)) \/ (k = "client" /\ Cut))
        /\ (k = "client" => P.src <= MaxStreams)
    BY <2>1, Zenon DEF Linked
  <2>3. /\ SndOK(k, Stream(k), taken[k]) /\ SndWindow(k, Stream(k), taken[k], P)
        /\ RcvOK(k, Stream(k), written[k], batch[k], P) /\ OpenFirst(k, Stream(k))
        /\ Stream(k).s.sndUna <= P.rcv
    BY <2>2, Zenon DEF DataOK
  <2>4. \/ Stream(k)'.c.life = Stream(k).c.life
        \/ Stream(k)'.c.life = "gone" /\ Stream(k).c.life # "none"
    <3>1. Stream(k)'.c.life = ctl'[k].life /\ Stream(k).c.life = ctl[k].life
      BY <1>4
    <3>2. CASE k = e
      BY <1>1, <1>6, <3>1, <3>2
    <3>3. CASE k # e
      BY <1>6, <3>1, <3>3
    <3>4. QED
      BY <3>2, <3>3
  <2>5. SndOK(k, Stream(k)', taken[k])
    <3>1. ViewOf(k, Stream(k)', taken[k]) = ViewOf(k, Stream(k), taken[k])
      BY <1>4, <1>6 DEF ViewOf
    <3>2. QED
      BY <1>4, <1>6, <2>3, <2>4, <3>1 DEF SndOK
  <2>6. SndWindow(k, Stream(k)', taken[k], P)
    <3>1. Right(k, Stream(k)', P) = Right(k, Stream(k), P)
      BY <1>4 DEF Right
    <3>2. CASE Stream(k)'.c.life = "gone"
      BY <2>3, <3>1, <3>2 DEF SndWindow
    <3>3. CASE k # e
      BY <1>3, <1>4, <2>3, <3>1, <3>3 DEF SndWindow
    <3>4. QED
      BY <1>4, <1>6, <3>2, <3>3
  <2>7. RcvOK(k, Stream(k)', written[k], batch[k], P)
    BY <1>4, <1>6, <2>3, <2>4 DEF RcvOK, CloseOK
  <2>8. OpenFirst(k, Stream(k)')
    BY <1>4, <1>6, <2>3 DEF OpenFirst
  <2>9. DataOK(k, Stream(k)', taken'[k], written'[k], batch'[k], P)
    BY <1>1, <1>4, <2>3, <2>5, <2>6, <2>7, <2>8 DEF DataOK
  <2>10. Peer(k) \in Ends
    BY PeerIsEnd
  <2>11. Linked(k, P)'
    BY <1>7, <1>9, <2>2, <2>9, <2>10 DEF Linked
  <2>12. QED
    BY <2>11
<1>11. InFlight'
  BY <1>1 DEF InFlight
<1>12. Touched'
  BY <1>1 DEF DataInv, Touched
<1>13. NoneYet'
  BY <1>1, <1>6 DEF DataInv, NoneYet, Ends
<1>14. Gone'
  <2>1. SUFFICES ASSUME ctl'["server"].life \in {"none", "gone"}
                 PROVE  Blank' \/ (OpenDead' /\ 1 <= ctl'["server"].src)
    BY <1>1 DEF Gone, Ends
  <2>2. CASE snd["client"].sndUna = 0
    <3>1. snd["client"].sndUna \in Int /\ ~(1 <= snd["client"].sndUna)
      BY <2>2
    <3>2. QED
      BY <1>1, <2>2, <3>1 DEF DataInv, Touched, Blank
  <2>3. CASE snd["client"].sndUna # 0
    <3>1. OpenDead'
      <4>1. ctl["client"].life # "none" /\ \A g \in snd["client"].unacked : g.typ # "open"
        BY <2>3, ClientOpen
      <4>2. QED
        BY <1>1, <1>6, <4>1 DEF OpenDead, Ends
    <3>2. 1 <= ctl["server"].src
      <4>1. CASE ctl["server"].life = "none"
        BY <2>3, <4>1 DEF DataInv, Gone, Blank
      <4>2. CASE ctl["server"].life # "none"
        <5>1. PICK P : Linked("server", P)
          BY DEF DataInv, Ends
        <5>2. SndOK("server", Stream("server"), taken["server"])
          BY <5>1, Zenon DEF Linked, DataOK
        <5>3. QED
          BY <1>4, <4>2, <5>2 DEF SndOK, Ends
      <4>3. QED
        BY <4>1, <4>2
    <3>3. QED
      BY <1>6, <3>1, <3>2 DEF Ends
  <2>4. QED
    BY <2>2, <2>3
<1>15. ctl'["server"].src <= MaxStreams
  BY <1>6 DEF DataInv, Ends
<1>16. QED
  BY <1>8, <1>10, <1>11, <1>12, <1>13, <1>14, <1>15 DEF DataInv

\* A stream that has taken nothing fits every view.
LEMMA FreshRcv ==
  ASSUME NEW e \in Ends, NEW x, SameData(NewRcv, x.r), x.c.wr \in {"off", "wait"},
         NEW P, ViewOK(Peer(e), P)
  PROVE  RcvOK(e, x, <<>>, <<>>, P)
<1>1. /\ x.r.rcvNxt = 0 /\ x.r.ooo = {} /\ x.r.rcvQueue = <<>> /\ x.r.rcvQueued = 0
      /\ x.r.rcvFin = FALSE /\ x.r.finWritten = FALSE
  BY DEF SameData, NewRcv
<1>2. Passed(Peer(e), x.r) = 0
  BY <1>1 DEF Passed, Larger, Base
<1>3. P.nxt \in Nat /\ P.last \in Nat /\ Window[e] \in Nat
  BY WindowAssumption DEF ViewOK, ViewType
<1>4. RcvData(Peer(e), x.r, <<>>, <<>>, P)
  BY <1>1, <1>2, <1>3 DEF RcvData, Run
<1>5. Complete(Peer(e), x.r, <<>>, <<>>)
  BY <1>1, <1>2 DEF Complete
<1>6. RcvCount(e, x.r, <<>>)
  BY <1>1, <1>3 DEF RcvCount
<1>7. CloseOK(Peer(e), x.c, x.r, <<>>, <<>>, P)
  BY <1>1 DEF CloseOK
<1>8. QED
  BY <1>4, <1>5, <1>6, <1>7 DEF RcvOK

\* A stream that newTcpStream made, the live client excepted, fits every view.
LEMMA FreshData ==
  ASSUME NEW e \in Ends, NEW x, x.s = NewSnd, x.r = NewRcv,
         x.c.wr = "off", x.c.rd = "off", x.c.opened = FALSE,
         x.c.life = "none" \/ (x.c.life = "alive" /\ e = "server" /\ 1 <= x.c.src),
         NEW P, ViewOK(Peer(e), P)
  PROVE  DataOK(e, x, 0, <<>>, <<>>, P)
<1>1. /\ x.s.sndUna = 0 /\ x.s.sndNxt = 0 /\ x.s.sndRight = InitWindow
      /\ x.s.unacked = {} /\ x.s.finQueued = FALSE /\ x.r.rcvNxt = 0
  BY DEF NewSnd, NewRcv
<1>2. RcvOK(e, x, <<>>, <<>>, P)
  <2>1. SameData(NewRcv, x.r)
    BY DEF SameData
  <2>2. QED
    BY <2>1, FreshRcv
<1>3. SndOK(e, x, 0)
  BY <1>1 DEF SndOK, Base
<1>4. SndWindow(e, x, 0, P)
  <2>1. Right(e, x, P) = Window[Peer(e)]
    BY <1>1 DEF Right
  <2>2. Peer(e) \in Ends /\ Window[Peer(e)] \in Nat /\ 2 <= Window[Peer(e)]
    BY PeerIsEnd, WindowAssumption, MssAssumption
  <2>3. Wide => InitWindow <= Window[Peer(e)]
    BY <2>2 DEF Wide
  <2>4. QED
    BY <1>1, <2>1, <2>2, <2>3 DEF SndWindow, Base
<1>5. OpenFirst(e, x) /\ x.s.sndUna <= P.rcv
  BY <1>1 DEF OpenFirst, ViewOK, ViewType
<1>6. QED
  BY <1>2, <1>3, <1>4, <1>5 DEF DataOK

\* Before the client has received anything its connection was written nothing.
LEMMA NothingYet ==
  ASSUME DataInv, rcv["client"].rcvNxt = 0
  PROVE  /\ written["client"] = <<>> /\ batch["client"] = <<>>
         /\ rcv["client"].rcvQueue = <<>> /\ rcv["client"].rcvQueued = 0
         /\ ~rcv["client"].rcvFin
<1>1. PICK P : Linked("client", P)
  BY DEF DataInv, Ends
<1>2. /\ Stream("client").r = rcv["client"] /\ ViewOK("server", P)
      /\ RcvData("server", rcv["client"], written["client"], batch["client"], P)
      /\ RcvCount("client", rcv["client"], batch["client"])
  <2>1. Stream("client").r = rcv["client"] /\ Peer("client") = "server"
    BY DEF Stream, Peer
  <2>2. QED
    BY <1>1, <2>1, Zenon DEF Linked, DataOK, RcvOK
<1>3. /\ rcv["client"] \in RcvType /\ written["client"] \in Seq(Bytes)
      /\ batch["client"] \in Seq(Bytes) /\ rcv["client"].rcvQueue \in Seq(Bytes)
      /\ rcv["client"].rcvQueued \in Int
  BY DEF DataInv, IInv, StreamsOK, RestOK, RcvType, Ends
<1>4. Passed("server", rcv["client"]) = 0
  <2>1. Base("server") = 0
    BY DEF Base
  <2>2. QED
    BY <2>1 DEF Passed, Larger
<1> DEFINE l == Len(written["client"])
           m == Len(batch["client"])
           n == Len(rcv["client"].rcvQueue)
<1>5. l \in Nat /\ m \in Nat /\ n \in Nat /\ l + m + n <= 0
      /\ m + n <= rcv["client"].rcvQueued /\ rcv["client"].rcvQueued <= 0
  <2>1. l \in Nat /\ m \in Nat /\ n \in Nat
    BY <1>3
  <2>2. l + m + n <= 0 /\ m + n <= rcv["client"].rcvQueued
    BY <1>2, <1>4 DEF RcvData, RcvCount
  <2>3. rcv["client"].rcvQueued <= 0
    BY <1>2 DEF RcvCount
  <2>4. QED
    BY <2>1, <2>2, <2>3
<1> HIDE DEF l, m, n
<1>6. l = 0 /\ m = 0 /\ n = 0 /\ rcv["client"].rcvQueued = 0
  BY <1>3, <1>5
<1>7. written["client"] = <<>> /\ batch["client"] = <<>> /\ rcv["client"].rcvQueue = <<>>
  BY <1>3, <1>6 DEF l, m, n
<1>8. ~rcv["client"].rcvFin
  BY <1>2 DEF RcvData, ViewOK, ViewType, Base
<1>9. QED
  BY <1>6, <1>7, <1>8

\* A server stream that nothing reached yet.
NewServer(src) == [c |-> NewCtl(src, "none"), s |-> NewSnd, r |-> NewRcv, out |-> {}]

\* y is what the first frame f made of a new server stream.
Created(f, y) ==
  /\ y \in XType /\ Handled(NewServer(ctl["server"].src + 1), f, y)
  /\ Section("server", NewServer(ctl["server"].src + 1), y, 0, <<>>, <<>>, View("client"))

\* Of a client that was reached before, no OPEN is left: a new server stream gets none.
LEMMA NewServerWindow ==
  ASSUME DataInv, ctl["server"].life \in {"none", "gone"}, NEW f \in pend,
         f.typ \in SegTypes, f.seq = 0, Wide
  PROVE  View("client").last <= Window["server"]
<1> DEFINE V == View("client")
<1>1. PICK Q : Linked("client", Q)
  BY DEF DataInv, Ends
<1>2. SndWindow("client", Stream("client"), taken["client"], Q) /\ ViewOK("client", V)
  <2>1. IInv /\ "client" \in Ends
    BY DEF DataInv, Ends
  <2>2. QED
    BY <1>1, <2>1, LinkedTyped, Zenon DEF Linked, DataOK
<1>3. V.last = Base("client") + taken["client"]
  BY DEF View, ViewOf
<1>4. Stream("client").s = snd["client"]
  BY DEF Stream
<1>5. CASE snd["client"].sndUna = 0
  <2>1. Right("client", Stream("client"), Q) = Window["server"]
    BY <1>4, <1>5 DEF Right, Peer
  <2>2. QED
    BY <1>2, <1>3, <2>1 DEF SndWindow
<1>6. CASE snd["client"].sndUna # 0
  <2>1. OpenDead
    BY <1>6 DEF DataInv, Gone, Blank
  <2>2. f.typ # "open" /\ IsSegOf("client", V, SegOf(f))
    BY <2>1 DEF OpenDead, DataInv, InFlight, FrameFits
  <2>3. SegOf(f).seq = 0 /\ SegOf(f).typ = f.typ
    BY DEF SegOf
  <2>4. Base("client") = 1 /\ 1 <= V.last /\ V.last \in Int
    BY <1>2 DEF Base, ViewOK, ViewType
  <2>5. QED
    BY <2>2, <2>3, <2>4 DEF IsSegOf
<1>7. QED
  BY <1>5, <1>6

\* The first frame of a new server stream.
LEMMA CreatedData ==
  ASSUME DataInv, ctl["server"].life \in {"none", "gone"}, NEW f \in pend,
         NEW aged \in BOOLEAN
  PROVE  Created(f, HandleFrame("server", NewServer(ctl["server"].src + 1), f, aged))
<1> DEFINE x == NewServer(ctl["server"].src + 1)
           P == View("client")
<1>1. /\ IInv /\ "server" \in Ends /\ "client" \in Ends /\ Peer("server") = "client"
  BY DEF DataInv, Ends, Peer
<1>2. ViewOK("client", P)
  <2>1. PICK Q : Linked("client", Q)
    BY <1>1 DEF DataInv
  <2>2. QED
    BY <1>1, <2>1, LinkedTyped
<1>3. ctl["server"].src \in Nat
  BY <1>1 DEF IInv, StreamsOK, CtlType
<1>4. /\ x.c = NewCtl(ctl["server"].src + 1, "none") /\ x.s = NewSnd /\ x.r = NewRcv
      /\ x.out = {} /\ x.c.wr = "off" /\ x.c.rd = "off" /\ x.c.opened = FALSE
      /\ x.c.life = "alive" /\ x.c.src = ctl["server"].src + 1
  BY DEF NewServer, NewCtl
<1>5. StreamOK("server", x)
  <2>1. ctl["server"].src + 1 \in Nat
    BY <1>3
  <2>2. QED
    BY <1>1, <2>1, NewStreamOK DEF NewServer
<1>6. DataOK("server", x, 0, <<>>, <<>>, P)
  <2>1. 1 <= x.c.src
    BY <1>3, <1>4
  <2>2. QED
    BY <1>1, <1>2, <1>4, <2>1, FreshData
<1>7. f \in Frame /\ FrameFits("client", P, f)
  BY <1>1 DEF DataInv, IInv, RestOK, InFlight
<1>8. Wide /\ f.typ \in SegTypes /\ f.seq = x.r.rcvNxt
        => P.last <= x.r.rcvNxt + (Window["server"] - x.r.rcvQueued)
  <2>1. x.r.rcvNxt = 0 /\ x.r.rcvQueued = 0 /\ Window["server"] \in Nat
    BY <1>1, <1>4, WindowAssumption DEF NewRcv
  <2>2. QED
    BY <2>1, NewServerWindow
<1>9. /\ 0 \in Nat /\ <<>> \in Seq(Bytes)
  OBVIOUS
<1> HIDE DEF x, P
<1>10. /\ Section("server", x, HandleFrame("server", x, f, aged), 0, <<>>, <<>>, P)
       /\ Handled(x, f, HandleFrame("server", x, f, aged))
  BY <1>1, <1>2, <1>4, <1>5, <1>6, <1>7, <1>8, <1>9, HandleFrameData
<1>11. HandleFrame("server", x, f, aged) \in XType
  BY <1>1, <1>5, <1>7, HandleFrameOK DEF StreamOK
<1>12. QED
  BY <1>10, <1>11 DEF Created, x, P

\* A client that has heard nothing fits the view of any server.
LEMMA BlankFits ==
  ASSUME DataInv, Blank, NEW W, ViewOK("server", W), W.src <= MaxStreams
  PROVE  DataOK("client", Stream("client"), taken["client"], written["client"],
                batch["client"], W)
<1> DEFINE o == Stream("client")
<1>1. PICK Q : Linked("client", Q)
  BY DEF DataInv, Ends
<1>2. /\ SndOK("client", o, taken["client"]) /\ SndWindow("client", o, taken["client"], Q)
      /\ RcvOK("client", o, written["client"], batch["client"], Q)
      /\ OpenFirst("client", o) /\ ViewOK("server", Q)
  <2>1. Peer("client") = "server"
    BY DEF Peer
  <2>2. QED
    BY <1>1, <2>1, Zenon DEF Linked, DataOK
<1>3. /\ o.r = rcv["client"] /\ o.s = snd["client"] /\ Peer("client") = "server"
  BY DEF Stream, Peer
<1>4. /\ o.r.rcvNxt = 0 /\ o.r.ooo = {} /\ o.s.sndUna = 0
      /\ written["client"] = <<>> /\ batch["client"] = <<>> /\ o.r.rcvQueue = <<>>
      /\ ~o.r.rcvFin
  BY <1>3, NothingYet DEF Blank
<1>5. W.nxt \in Nat /\ W.last \in Nat /\ W.rcv \in Nat
  BY DEF ViewOK, ViewType
<1> HIDE DEF o
<1>6. Passed("server", o.r) = 0
  <2>1. Base("server") = 0
    BY DEF Base
  <2>2. QED
    BY <1>4, <2>1 DEF Passed, Larger
<1>7. RcvData("server", o.r, written["client"], batch["client"], W)
  BY <1>4, <1>5, <1>6 DEF RcvData, Run
<1>8. RcvOK("client", o, written["client"], batch["client"], W)
  BY <1>2, <1>3, <1>4, <1>7 DEF RcvOK, CloseOK
<1>9. SndWindow("client", o, taken["client"], W)
  BY <1>2, <1>4 DEF SndWindow, Right
<1>10. QED
  BY <1>2, <1>4, <1>5, <1>8, <1>9 DEF DataOK, o

\* LoadOrStore stored a new stream: either the client has heard nothing yet, or its
\* OPEN is gone and the new stream is cut off.
LEMMA CreatedInv ==
  ASSUME DataInv, IInv', ctl["server"].life \in {"none", "gone"},
         ctl["server"].src < MaxStreams, NEW f \in pend, NEW y, Created(f, y),
         Flush("server", y), pend' = pend \ {f},
         taken' = [taken EXCEPT !["server"] = 0],
         batch' = [batch EXCEPT !["server"] = <<>>],
         written' = [written EXCEPT !["server"] = <<>>]
  PROVE  DataInv'
<1> DEFINE x == NewServer(ctl["server"].src + 1)
           W == ViewOf("server", y, 0)
           n == ctl["server"].src + 1
<1>1. /\ IInv /\ "server" \in Ends /\ "client" \in Ends
      /\ Peer("server") = "client" /\ Peer("client") = "server" /\ NetOK
  BY DEF DataInv, IInv, Ends, Peer
<1>2. /\ x.c.life = "alive" /\ x.c.opened = FALSE /\ x.c.src = n
      /\ x.c.conn = "none" /\ x.c.wr = "off" /\ x.s.unacked = {}
      /\ n \in Nat /\ n <= MaxStreams
  <2>1. ctl["server"].src \in Nat /\ MaxStreams \in Nat
    BY <1>1, BoundsAssumption DEF IInv, StreamsOK, CtlType
  <2>2. QED
    BY <2>1 DEF NewServer, NewCtl, NewSnd
<1>3. /\ y \in XType /\ Handled(x, f, y)
      /\ Section("server", x, y, 0, <<>>, <<>>, View("client"))
  BY DEF Created
<1>4. /\ DataOK("server", y, 0, <<>>, <<>>, View("client"))
      /\ \A h \in y.out : FrameFits("server", W, h)
  BY <1>3 DEF Section, OutOK
<1>5. /\ y.c.src = n /\ y.c.life \notin {"none", "gone"} /\ Quiet(y)
      /\ y.c.opened => f.typ = "open"
  <2>1. Quiet(x)
    BY <1>2 DEF Quiet
  <2>2. QED
    BY <1>2, <1>3, <2>1 DEF Handled
<1>6. Stores("server", y, 0, <<>>, <<>>) /\ Send("server", y.out)
  BY DEF Stores, Flush
<1>7. /\ Stream("server")'.c = y.c /\ Stream("server")'.s = y.s
      /\ Stream("server")'.r = y.r
      /\ taken'["server"] = 0 /\ written'["server"] = <<>> /\ batch'["server"] = <<>>
      /\ View("server")' = W /\ ctl'["server"] = y.c
      /\ Stream("client")' = Stream("client") /\ View("client")' = View("client")
      /\ ctl'["client"] = ctl["client"] /\ snd'["client"] = snd["client"]
      /\ rcv'["client"] = rcv["client"] /\ taken'["client"] = taken["client"]
      /\ written'["client"] = written["client"] /\ batch'["client"] = batch["client"]
  BY <1>1, <1>6, StoredParts
<1>8. /\ \A h \in net'["server"] : h \in net["server"]
      /\ \A h \in net'["client"] : h \in net["client"] \/ h \in y.out
  BY <1>1, <1>6, FlushSends
<1>9. ViewOK("server", W) /\ W.src = n
  <2>1. SndOK("server", y, 0) /\ RcvOK("server", y, <<>>, <<>>, View("client"))
    BY <1>4, Zenon DEF DataOK
  <2>2. ViewOK("server", W)
    BY <1>1, <1>3, <2>1, ViewTyped
  <2>3. QED
    BY <1>5, <2>2 DEF ViewOf
<1>10. PICK Q : Linked("client", Q)
  BY <1>1 DEF DataInv
<1>11. /\ ViewOK("client", View("client")) /\ ViewOK("server", Q) /\ Q.src <= MaxStreams
       /\ DataOK("client", Stream("client"), taken["client"], written["client"],
                 batch["client"], Q)
  <2>1. ViewOK("client", View("client"))
    BY <1>1, <1>10, LinkedTyped
  <2>2. QED
    BY <1>1, <1>10, <2>1, Zenon DEF Linked
<1> HIDE DEF x, W, n
<1>12. ASSUME NEW e \in Ends PROVE Quiet(Stream(e))'
  <2>1. CASE e = "server"
    <3>1. Quiet(Stream("server")')
      BY <1>5, <1>7, SamePartsOK
    <3>2. QED
      BY <2>1, <3>1 DEF Quiet
  <2>2. CASE e = "client"
    <3>1. Quiet(Stream("client"))
      BY <1>1 DEF DataInv
    <3>2. QED
      BY <1>7, <2>2, <3>1 DEF Quiet
  <2>3. QED
    BY <2>1, <2>2 DEF Ends
<1>13. Linked("server", View("client"))'
  <2>1. DataOK("server", Stream("server")', taken'["server"], written'["server"],
               batch'["server"], View("client"))
    BY <1>4, <1>7, SamePartsOK
  <2>2. QED
    BY <1>1, <1>7, <1>11, <2>1 DEF Linked
<1>14. ASSUME Blank PROVE \E R : Linked("client", R)'
  <2>1. DataOK("client", Stream("client"), taken["client"], written["client"],
               batch["client"], W)
    BY <1>2, <1>9, <1>14, BlankFits
  <2>2. Linked("client", W)'
    BY <1>1, <1>2, <1>7, <1>9, <2>1 DEF Linked
  <2>3. QED
    BY <2>2
<1>15. ASSUME OpenDead, 1 <= ctl["server"].src PROVE \E R : Linked("client", R)'
  <2>1. f.typ # "open" /\ OpenDead'
    BY <1>7, <1>8, <1>15 DEF OpenDead
  <2>2. Cut'
    <3>1. y.c.opened \in BOOLEAN /\ ctl["server"].src \in Nat
      BY <1>1, <1>3 DEF IInv, StreamsOK, XType, CtlType
    <3>2. 2 <= n
      BY <1>15, <3>1 DEF n
    <3>3. QED
      BY <1>5, <1>7, <2>1, <3>1, <3>2 DEF Cut
  <2>3. Linked("client", Q)'
    BY <1>1, <1>7, <1>11, <2>2 DEF Linked
  <2>4. QED
    BY <2>3
<1>16. PICK R : Linked("client", R)'
  BY <1>14, <1>15 DEF DataInv, Gone
<1>17. InFlight'
  <2>1. ASSUME NEW h \in net'["client"] PROVE FrameFits("server", View("server")', h)
    <3>1. CASE h \in y.out
      BY <1>4, <1>7, <3>1
    <3>2. CASE h \in net["client"]
      <4>1. h = RstFrame
        BY <3>2 DEF DataInv, Gone
      <4>2. FrameFits("server", W, RstFrame)
        BY <1>1, <1>9, WindowAssumption
           DEF FrameFits, RstFrame, SegTypes, ViewOK, ViewType
      <4>3. QED
        BY <1>7, <4>1, <4>2
    <3>3. QED
      BY <1>8, <2>1, <3>1, <3>2
  <2>2. ASSUME NEW h \in net'["server"] PROVE FrameFits("client", View("client")', h)
    BY <1>1, <1>7, <1>8, <2>2 DEF DataInv, InFlight
  <2>3. ASSUME NEW h \in pend' PROVE FrameFits("client", View("client")', h)
    BY <1>7, <2>3 DEF DataInv, InFlight
  <2>4. ASSUME NEW e \in Ends, NEW h \in net'[e]
        PROVE  FrameFits(Peer(e), View(Peer(e))', h)
    BY <1>1, <2>1, <2>2, <2>4 DEF Ends
  <2>5. QED
    BY <2>3, <2>4 DEF InFlight
<1>18. Touched' /\ Gone' /\ NoneYet' /\ ctl'["server"].src <= MaxStreams
  <2>1. Touched'
    BY <1>7 DEF DataInv, Touched
  <2>2. Gone'
    BY <1>5, <1>7 DEF Gone
  <2>3. NoneYet'
    BY <1>7 DEF DataInv, NoneYet
  <2>4. ctl'["server"].src <= MaxStreams
    BY <1>2, <1>5, <1>7
  <2>5. QED
    BY <2>1, <2>2, <2>3, <2>4
<1>19. ASSUME NEW e \in Ends PROVE (\E P : Linked(e, P))'
  BY <1>13, <1>16 DEF Ends
<1>20. QED
  BY <1>12, <1>17, <1>18, <1>19 DEF DataInv

\* handlePacket, past LoadOrStore.
LEMMA CreateStreamInv ==
  ASSUME DataInv, IInv', NEW f \in pend, NEW aged \in BOOLEAN, CreateStream(f, aged)
  PROVE  DataInv'
<1>1. pend' = pend \ {f}
  BY DEF CreateStream
<1>2. "server" \in Ends /\ IInv
  BY DEF DataInv, Ends
<1>3. CASE Known("server")
  <2>1. /\ Flush("server", HandleFrame("server", Stream("server"), f, aged))
        /\ UNCHANGED <<taken, batch, written>>
    BY <1>3 DEF CreateStream, conns
  <2>2. \A h \in pend' : h \in pend
    BY <1>1
  <2>3. QED
    BY <1>2, <1>3, <2>1, <2>2, HandledInv
<1>4. CASE ~Known("server")
  <2>1. ctl["server"].life \in {"none", "gone"}
    BY <1>2, <1>4 DEF Known, Lives, IInv, StreamsOK, CtlType
  <2>2. /\ ctl["server"].src < MaxStreams
        /\ Flush("server",
                 HandleFrame("server", NewServer(ctl["server"].src + 1), f, aged))
        /\ taken' = [taken EXCEPT !["server"] = 0]
        /\ batch' = [batch EXCEPT !["server"] = <<>>]
        /\ written' = [written EXCEPT !["server"] = <<>>]
    BY <1>4 DEF CreateStream, NewServer
  <2>3. Created(f, HandleFrame("server", NewServer(ctl["server"].src + 1), f, aged))
    BY <2>1, CreatedData
  <2>4. QED
    BY <1>1, <2>1, <2>2, <2>3, CreatedInv
<1>5. QED
  BY <1>3, <1>4

\* The OPEN, and the client stream that has queued it.
OpenSegment == NewSegment(NewSnd, "open", 1, 0, 1)

OpenStream ==
  [c |-> NewCtl(1, "none"), s |-> QueueSegment(NewSnd, OpenSegment),
   r |-> FillAck("client", NewRcv),
   out |-> {SegFrame("client", NewRcv, OpenSegment)}]

\* Its view.
OpenView ==
  [src |-> 1, nxt |-> 1, last |-> 1, fin |-> FALSE, rcv |-> 0,
   edge |-> Window["client"]]

LEMMA OpenStreamData ==
  /\ OpenStream \in XType /\ OpenSegment \in Segment
  /\ ViewOf("client", OpenStream, 0) = OpenView
  /\ \A P : ViewOK("server", P) => DataOK("client", OpenStream, 0, <<>>, <<>>, P)
  /\ \A f \in OpenStream.out : FrameFits("client", OpenView, f)
<1> DEFINE g == OpenSegment
           x == OpenStream
<1>1. "client" \in Ends /\ "server" \in Ends /\ Peer("client") = "server" /\ 1 \in Nat
  BY DEF Ends, Peer
<1>2. NewCtl(1, "none") \in CtlType /\ NewSnd \in SndType /\ NewRcv \in RcvType
  BY <1>1, NewStreamOK
<1>3. /\ g.typ = "open" /\ g.seq = 0 /\ g.len = 1 /\ g.src = 1 /\ g.lo = 0
      /\ g \in Segment /\ SegEnd(g) = 1
  BY DEF OpenSegment, NewSegment, NewSnd, Segment, SegTypes, SegEnd
<1> HIDE DEF g
<1>4. /\ QueueSegment(NewSnd, g) \in SndType
      /\ QueueSegment(NewSnd, g).sndUna = 0 /\ QueueSegment(NewSnd, g).sndNxt = 1
      /\ QueueSegment(NewSnd, g).sndRight = InitWindow
      /\ QueueSegment(NewSnd, g).unacked = {g}
      /\ QueueSegment(NewSnd, g).finQueued = FALSE
  <2>1. /\ NewSnd.sndUna = 0 /\ NewSnd.sndRight = InitWindow /\ NewSnd.unacked = {}
        /\ NewSnd.finQueued = FALSE /\ NewSnd.timerArmed = FALSE
    BY DEF NewSnd
  <2>2. QueueSegment(NewSnd, g) \in SndType
    BY <1>2, <1>3, <2>1, QueueSegmentKeeps
  <2>3. /\ QueueSegment(NewSnd, g).sndUna = 0 /\ QueueSegment(NewSnd, g).sndNxt = 1
        /\ QueueSegment(NewSnd, g).sndRight = InitWindow
        /\ QueueSegment(NewSnd, g).unacked = {g}
        /\ (QueueSegment(NewSnd, g).finQueued <=> FALSE)
    BY <1>2, <1>3, <2>1, QueueSegmentData
  <2>4. QED
    BY <2>2, <2>3 DEF SndType
<1>5. FillAck("client", NewRcv) \in RcvType /\ SameData(NewRcv, FillAck("client", NewRcv))
  BY <1>1, <1>2, FillAckData
<1>6. SegFrame("client", NewRcv, g) \in Frame
  BY <1>1, <1>2, <1>3, FramesTyped
<1>7. /\ x.c = NewCtl(1, "none") /\ x.s = QueueSegment(NewSnd, g)
      /\ x.r = FillAck("client", NewRcv) /\ x.out = {SegFrame("client", NewRcv, g)}
      /\ x \in XType
  BY <1>2, <1>4, <1>5, <1>6 DEF OpenStream, XType, g
<1>8. /\ x.c.life = "alive" /\ x.c.src = 1 /\ x.c.rd = "off" /\ x.c.wr = "off"
  BY <1>7 DEF NewCtl
<1>9. x.r.rcvNxt = 0 /\ x.r.rcvQueued = 0
  BY <1>5, <1>7 DEF SameData, NewRcv
<1>10. Window["client"] \in Nat /\ Window["server"] \in Nat /\ 2 <= Window["server"]
  BY <1>1, WindowAssumption, MssAssumption
<1> HIDE DEF x
<1>11. ViewOf("client", x, 0) = OpenView
  <2>1. x.r.rcvNxt + (Window["client"] - x.r.rcvQueued) = Window["client"]
    BY <1>9, <1>10
  <2>2. Base("client") + 0 = 1
    BY DEF Base
  <2>3. QED
    BY <1>4, <1>7, <1>8, <1>9, <2>1, <2>2 DEF ViewOf, OpenView
<1>12. ASSUME NEW P, ViewOK("server", P) PROVE DataOK("client", x, 0, <<>>, <<>>, P)
  <2>1. RcvOK("client", x, <<>>, <<>>, P)
    BY <1>1, <1>5, <1>7, <1>8, <1>12, FreshRcv
  <2>2. IsSegOf("client", OpenView, g)
    BY <1>3 DEF IsSegOf, OpenView
  <2>3. SndOK("client", x, 0)
    BY <1>3, <1>4, <1>7, <1>8, <1>11, <2>2 DEF SndOK, Base
  <2>4. SndWindow("client", x, 0, P)
    <3>1. Right("client", x, P) = Window["server"]
      BY <1>1, <1>4, <1>7 DEF Right
    <3>2. Wide => InitWindow <= Window["server"]
      BY <1>1 DEF Wide
    <3>3. QED
      BY <1>4, <1>7, <1>8, <1>10, <3>1, <3>2 DEF SndWindow, Base
  <2>5. OpenFirst("client", x) /\ x.s.sndUna <= P.rcv
    BY <1>4, <1>7, <1>12 DEF OpenFirst, ViewOK, ViewType
  <2>6. QED
    BY <2>1, <2>3, <2>4, <2>5 DEF DataOK
<1>13. FrameFits("client", OpenView, SegFrame("client", NewRcv, g))
  <2>1. IsSegOf("client", OpenView, g)
    BY <1>3 DEF IsSegOf, OpenView
  <2>2. /\ SegOf(SegFrame("client", NewRcv, g)) = g
        /\ SegFrame("client", NewRcv, g).ack = 0
    BY <1>3, SegFrameCarries DEF NewRcv
  <2>3. SegFrame("client", NewRcv, g).wnd = Window["client"]
    BY <1>10 DEF SegFrame, Free, Larger, NewRcv
  <2>4. OpenView.rcv = 0 /\ OpenView.edge = Window["client"]
    BY DEF OpenView
  <2>5. QED
    BY <1>10, <2>1, <2>2, <2>3, <2>4 DEF FrameFits
<1>14. QED
  BY <1>3, <1>7, <1>11, <1>12, <1>13 DEF x, g

\* open: tcp_listen accepted a connection.
LEMMA OpenInv ==
  ASSUME DataInv, IInv', Open
  PROVE  DataInv'
<1> DEFINE x == OpenStream
           y == StartLoops(x)
           V == View("client")
           S == View("server")
<1>1. /\ IInv /\ "server" \in Ends /\ "client" \in Ends
      /\ Peer("server") = "client" /\ Peer("client") = "server" /\ NetOK
  BY DEF DataInv, IInv, Ends, Peer
<1>2. /\ ctl["client"].life = "none" /\ Flush("client", y) /\ pend' = pend
      /\ UNCHANGED <<taken, batch, written>>
  BY DEF Open, OpenStream, OpenSegment
<1>3. /\ snd["client"].sndNxt = 0 /\ ~snd["client"].finQueued
      /\ rcv["client"].rcvNxt = 0 /\ taken["client"] = 0
  BY <1>2 DEF DataInv, NoneYet
<1>4. /\ written["client"] = <<>> /\ batch["client"] = <<>>
      /\ rcv["client"].rcvQueued = 0
  BY <1>3, NothingYet
<1>5. PICK P : Linked("client", P)
  BY <1>1 DEF DataInv
<1>6. /\ P = S /\ ViewOK("server", S) /\ S.src <= MaxStreams
      /\ V \in ViewType /\ ViewOK("client", V)
  <2>1. ~Cut
    BY <1>2 DEF Cut, OpenDead
  <2>2. ViewOK("server", P) /\ (P = S \/ Cut) /\ P.src <= MaxStreams
    BY <1>1, <1>5, Zenon DEF Linked
  <2>3. V \in ViewType /\ ViewOK("client", V)
    BY <1>1, <1>5, LinkedTyped
  <2>4. QED
    BY <2>1, <2>2, <2>3
<1>7. /\ x \in XType /\ ViewOf("client", x, 0) = OpenView
      /\ DataOK("client", x, 0, <<>>, <<>>, S)
      /\ \A f \in x.out : FrameFits("client", OpenView, f)
  BY <1>6, OpenStreamData
<1>8. x.c.life = "alive" /\ x.c.wr = "off" /\ x.c.src = 1
  BY DEF OpenStream, NewCtl
<1> HIDE DEF x
<1>9. /\ DataOK("client", y, 0, <<>>, <<>>, S) /\ SameSnd(x.s, y.s) /\ SameData(x.r, y.r)
      /\ y.out = x.out /\ y.c.life = "alive" /\ y.c.src = x.c.src
      /\ y.c.conn = "up"
  BY <1>1, <1>7, <1>8, StartLoopsData
<1>10. x.r.rcvNxt = 0 /\ x.r.ooo = {} /\ x.s.sndUna = 0
  <2>1. "client" \in Ends /\ NewRcv \in RcvType /\ NewSnd \in SndType /\ 0 \in Nat
    BY <1>1, NewStreamOK
  <2>2. SameData(NewRcv, x.r) /\ OpenSegment \in Segment
    BY <2>1, FillAckData, OpenStreamData DEF OpenStream, x
  <2>3. x.s.sndUna = NewSnd.sndUna
    BY <2>1, <2>2, QueueSegmentData DEF OpenStream, x
  <2>4. QED
    BY <2>2, <2>3 DEF SameData, NewRcv, NewSnd
<1> HIDE DEF y
<1>11. ViewOf("client", y, 0) = OpenView
  BY <1>7, <1>9 DEF ViewOf, SameSnd, SameData
<1>12. Stores("client", y, 0, <<>>, <<>>) /\ Send("client", y.out)
  <2>1. /\ taken \in [Ends -> Nat] /\ written \in [Ends -> Seq(Bytes)]
        /\ batch \in [Ends -> Seq(Bytes)]
    BY <1>1 DEF IInv, RestOK
  <2>2. QED
    BY <1>1, <1>2, <1>3, <1>4, <2>1 DEF Stores, Flush
<1>13. /\ Stream("client")'.c = y.c /\ Stream("client")'.s = y.s
       /\ Stream("client")'.r = y.r
       /\ taken'["client"] = 0 /\ written'["client"] = <<>> /\ batch'["client"] = <<>>
       /\ View("client")' = OpenView
       /\ ctl'["client"] = y.c /\ snd'["client"] = y.s /\ rcv'["client"] = y.r
       /\ Stream("server")' = Stream("server") /\ View("server")' = S
       /\ ctl'["server"] = ctl["server"]
       /\ taken'["server"] = taken["server"]
       /\ written'["server"] = written["server"] /\ batch'["server"] = batch["server"]
  BY <1>1, <1>11, <1>12, StoredParts
<1>14. /\ \A h \in net'["client"] : h \in net["client"]
       /\ \A h \in net'["server"] : h \in net["server"] \/ h \in y.out
  BY <1>1, <1>12, FlushSends
<1>15. Grows(V, OpenView) /\ OpenView \in ViewType /\ ViewOK("client", OpenView)
  <2>1. Window["client"] \in Nat
    BY <1>1, WindowAssumption
  <2>2. /\ V.src = 1 /\ V.nxt = 0 /\ V.last = 1 /\ V.fin = snd["client"].finQueued
        /\ V.rcv = 0 /\ V.edge = Window["client"]
    <3>1. Stream("client").s = snd["client"] /\ Stream("client").r = rcv["client"]
      BY DEF Stream
    <3>2. Base("client") + taken["client"] = 1
      BY <1>3 DEF Base
    <3>3. 0 + (Window["client"] - 0) = Window["client"]
      BY <2>1
    <3>4. QED
      BY <1>3, <1>4, <3>1, <3>2, <3>3 DEF View, ViewOf
  <2>3. /\ OpenView.src = 1 /\ OpenView.nxt = 1 /\ OpenView.last = 1
        /\ OpenView.fin = FALSE /\ OpenView.rcv = 0 /\ OpenView.edge = Window["client"]
    BY DEF OpenView
  <2>4. Grows(V, OpenView)
    BY <1>3, <2>1, <2>2, <2>3 DEF Grows
  <2>5. OpenView \in ViewType
    BY <2>1 DEF OpenView, ViewType
  <2>6. ViewOK("client", OpenView)
    BY <2>1, <2>3, <2>5 DEF ViewOK, Base
  <2>7. QED
    BY <2>4, <2>5, <2>6
<1> HIDE DEF V, S
<1>16. ASSUME NEW e \in Ends PROVE Quiet(Stream(e))'
  <2>1. CASE e = "client"
    <3>1. Quiet(Stream("client")')
      BY <1>9, <1>13 DEF Quiet
    <3>2. QED
      BY <2>1, <3>1 DEF Quiet
  <2>2. CASE e = "server"
    <3>1. Quiet(Stream("server"))
      BY <1>1 DEF DataInv
    <3>2. QED
      BY <1>13, <2>2, <3>1 DEF Quiet
  <2>3. QED
    BY <2>1, <2>2 DEF Ends
<1>17. Linked("client", P)'
  <2>1. DataOK("client", Stream("client")', taken'["client"], written'["client"],
               batch'["client"], P)
    BY <1>6, <1>9, <1>13, SamePartsOK
  <2>2. QED
    BY <1>1, <1>6, <1>13, <2>1 DEF Linked
<1>18. Linked("server", OpenView)'
  <2>1. PICK Q : Linked("server", Q)
    BY <1>1 DEF DataInv
  <2>2. /\ DataOK("server", Stream("server"), taken["server"], written["server"],
                  batch["server"], Q)
        /\ Q = V /\ ViewOK("client", Q)
    BY <1>1, <2>1, Zenon DEF Linked, V
  <2>3. /\ Stream("server").r \in RcvType /\ Stream("server").s \in SndType
        /\ taken["server"] \in Nat
    BY <1>1, StreamParts DEF IInv, RestOK
  <2>4. DataOK("server", Stream("server"), taken["server"], written["server"],
               batch["server"], OpenView)
    BY <1>1, <1>6, <1>15, <2>2, <2>3, DataGrows
  <2>5. QED
    BY <1>1, <1>13, <1>15, <2>4 DEF Linked
<1>19. InFlight'
  <2>1. /\ \A h \in net["server"] : h \in Frame /\ FrameFits("client", V, h)
        /\ \A h \in pend : h \in Frame /\ FrameFits("client", V, h)
        /\ \A h \in net["client"] : FrameFits("server", S, h)
    BY <1>1 DEF DataInv, InFlight, IInv, NetOK, RestOK, V, S
  <2>2. ASSUME NEW h \in net'["server"] PROVE FrameFits("client", OpenView, h)
    <3>1. CASE h \in y.out
      BY <1>7, <1>9, <3>1
    <3>2. CASE h \in net["server"]
      BY <1>1, <1>6, <1>15, <2>1, <3>2, FitsGrows
    <3>3. QED
      BY <1>14, <2>2, <3>1, <3>2
  <2>3. ASSUME NEW h \in pend' PROVE FrameFits("client", View("client")', h)
    <3>1. FrameFits("client", OpenView, h)
      BY <1>1, <1>2, <1>6, <1>15, <2>1, <2>3, FitsGrows
    <3>2. QED
      BY <1>13, <3>1
  <2>4. ASSUME NEW e \in Ends, NEW h \in net'[e]
        PROVE  FrameFits(Peer(e), View(Peer(e))', h)
    BY <1>1, <1>13, <1>14, <2>1, <2>2, <2>4 DEF Ends
  <2>5. QED
    BY <2>3, <2>4 DEF InFlight
<1>20. Touched' /\ Gone' /\ NoneYet' /\ ctl'["server"].src <= MaxStreams
  <2>1. rcv'["client"].rcvNxt = 0 /\ rcv'["client"].ooo = {} /\ snd'["client"].sndUna = 0
    BY <1>9, <1>10, <1>13 DEF SameData, SameSnd
  <2>2. Touched'
    BY <2>1 DEF Touched
  <2>3. Gone'
    BY <1>13, <1>14, <2>1 DEF DataInv, Gone, Blank
  <2>4. NoneYet'
    BY <1>9, <1>13 DEF NoneYet
  <2>5. QED
    BY <1>13, <2>2, <2>3, <2>4 DEF DataInv
<1>21. ASSUME NEW e \in Ends PROVE (\E Q : Linked(e, Q))'
  BY <1>17, <1>18 DEF Ends
<1>22. QED
  BY <1>16, <1>19, <1>20, <1>21 DEF DataInv

-----------------------------------------------------------------------------
(* The theorems.                                                           *)

\* The initial state.
LEMMA InitData == Init => DataInv
<1> SUFFICES ASSUME Init PROVE DataInv
  OBVIOUS
<1>1. IInv
  BY InitOK
<1>2. \A e \in Ends :
        /\ ctl[e] = [NewCtl(0, "none") EXCEPT !.life = "none"]
        /\ snd[e] = NewSnd /\ rcv[e] = NewRcv /\ net[e] = {}
        /\ taken[e] = 0 /\ batch[e] = <<>> /\ written[e] = <<>>
  BY DEF Init
<1>3. \A e \in Ends :
        /\ ctl[e].life = "none" /\ ctl[e].opened = FALSE /\ ctl[e].conn = "none"
        /\ ctl[e].src = 0 /\ ctl[e].rd = "off" /\ ctl[e].wr = "off"
  BY <1>2 DEF NewCtl
<1>4. \A e \in Ends :
        /\ snd[e].sndUna = 0 /\ snd[e].sndNxt = 0 /\ snd[e].finQueued = FALSE
        /\ snd[e].running = FALSE
        /\ rcv[e].rcvNxt = 0 /\ rcv[e].ooo = {} /\ rcv[e].rcvQueue = <<>>
        /\ rcv[e].rcvQueued = 0 /\ rcv[e].ackTimerSet = FALSE
  BY <1>2 DEF NewSnd, NewRcv
<1>5. \A e \in Ends :
        Stream(e).c = ctl[e] /\ Stream(e).s = snd[e] /\ Stream(e).r = rcv[e]
  BY DEF Stream
<1>6. ASSUME NEW e \in Ends PROVE Quiet(Stream(e))
  BY <1>3, <1>4, <1>5 DEF Quiet
<1>7. ASSUME NEW e \in Ends
      PROVE  ViewOK(e, View(e)) /\ (e = "server" => View(e).src <= MaxStreams)
  <2>1. Window[e] \in Nat /\ Base(e) \in Nat /\ Base(e) + 0 = Base(e)
        /\ 0 + (Window[e] - 0) = Window[e] /\ MaxStreams \in Nat
    BY WindowAssumption, BoundsAssumption DEF Base
  <2>2. /\ View(e).nxt = 0 /\ View(e).last = Base(e) /\ View(e).fin = FALSE
        /\ View(e).rcv = 0 /\ View(e).edge = Window[e]
        /\ View(e).src = IF e = "client" THEN 1 ELSE 0
    BY <1>2, <1>3, <1>4, <1>5, <2>1 DEF View, ViewOf
  <2>3. View(e) \in ViewType
    <3>1. \E k \in Nat :
            View(e) = [src |-> k, nxt |-> 0, last |-> Base(e), fin |-> FALSE, rcv |-> 0,
                       edge |-> Window[e]]
      <4>1. View(e) = [src |-> View(e).src, nxt |-> View(e).nxt, last |-> View(e).last,
                       fin |-> View(e).fin, rcv |-> View(e).rcv, edge |-> View(e).edge]
        BY DEF View, ViewOf
      <4>2. View(e).src \in Nat
        BY <2>2
      <4>3. QED
        BY <2>2, <4>1, <4>2
    <3>2. QED
      BY <2>1, <3>1 DEF ViewType
  <2>4. QED
    BY <2>1, <2>2, <2>3 DEF ViewOK
<1>8. ASSUME NEW e \in Ends PROVE \E P : Linked(e, P)
  <2>1. Peer(e) \in Ends /\ (e = "client" => Peer(e) = "server")
    BY DEF Ends, Peer
  <2>2. ViewOK(Peer(e), View(Peer(e)))
        /\ (e = "client" => View(Peer(e)).src <= MaxStreams)
    BY <1>7, <2>1
  <2>3. DataOK(e, Stream(e), 0, <<>>, <<>>, View(Peer(e)))
    <3>1. /\ Stream(e).s = NewSnd /\ Stream(e).r = NewRcv /\ Stream(e).c.wr = "off"
          /\ Stream(e).c.rd = "off" /\ Stream(e).c.opened = FALSE
          /\ Stream(e).c.life = "none"
      BY <1>2, <1>3, <1>5
    <3>2. QED
      BY <2>2, <3>1, FreshData
  <2>4. Linked(e, View(Peer(e)))
    BY <1>2, <2>2, <2>3 DEF Linked
  <2>5. QED
    BY <2>4
<1>9. pend = {} /\ "client" \in Ends /\ "server" \in Ends
  BY DEF Init, Ends
<1>10. InFlight
  BY <1>2, <1>9 DEF InFlight
<1>11. Touched /\ Gone /\ NoneYet
  BY <1>2, <1>4, <1>9 DEF Touched, Gone, Blank, NoneYet
<1>12. ctl["server"].src <= MaxStreams
  BY <1>3, <1>9, BoundsAssumption
<1>13. QED
  BY <1>1, <1>6, <1>8, <1>10, <1>11, <1>12 DEF DataInv

\* Nothing happens.
LEMMA StutterInv ==
  ASSUME DataInv, UNCHANGED vars
  PROVE  DataInv'
<1>1. /\ ctl' = ctl /\ snd' = snd /\ rcv' = rcv /\ net' = net /\ pend' = pend
      /\ stopped' = stopped
      /\ taken' = taken /\ batch' = batch /\ written' = written
  BY DEF vars
<1>2. IInv'
  <2>1. UNCHANGED vars
    OBVIOUS
  <2>2. IInv
    BY DEF DataInv
  <2>3. QED
    BY <2>1, <2>2, NextOK
<1>3. /\ \A e \in Ends : \A f \in net'[e] : f \in net[e] \/ f = RstFrame
      /\ \A f \in pend' : f \in pend \/ f \in net["server"]
  BY <1>1
<1>4. QED
  BY <1>1, <1>2, <1>3, NetInv

\* DataInv is inductive.
LEMMA NextData == DataInv /\ [Next]_vars => DataInv'
<1> SUFFICES ASSUME DataInv, [Next]_vars PROVE DataInv'
  OBVIOUS
<1>1. IInv'
  BY NextOK DEF DataInv
<1>2. CASE Open
  BY <1>1, <1>2, OpenInv
<1>3. CASE DialFail
  BY <1>1, <1>3, DialFailInv
<1>4. CASE DialDone
  BY <1>1, <1>4, DialDoneInv
<1>5. CASE CheckOpened
  BY <1>1, <1>5, CheckOpenedInv
<1>6. CASE Network
  BY <1>1, <1>6, DeliverKnownInv, DeliverUnknownInv, Zenon DEF Network, Deliver
<1>7. CASE \E f \in pend, aged \in BOOLEAN : CreateStream(f, aged)
  BY <1>1, <1>7, CreateStreamInv, Zenon
<1>8. ASSUME NEW e \in Ends, Loops(e) PROVE DataInv'
  BY <1>1, <1>8, ReadWakeInv, ReadEOFInv, ReadDataInv, WriteWakeInv, WriteDoneInv,
     CloseWriteDoneInv, ConnErrorInv, Zenon DEF Loops
<1>9. ASSUME NEW e \in Ends, Timers(e) PROVE DataInv'
  BY <1>1, <1>9, ExpireInv, OnTimerInv, OnAckTimerInv, TimePassesInv, LingerExpireInv,
     Zenon DEF Timers
<1>10. ASSUME NEW e \in Ends, Stop(e) PROVE DataInv'
  BY <1>1, <1>10, StopInv
<1>11. CASE UNCHANGED vars
  BY <1>11, StutterInv
<1>12. QED
  BY <1>2, <1>3, <1>4, <1>5, <1>6, <1>7, <1>8, <1>9, <1>10, <1>11, Zenon DEF Next

\* What the peer's view is, and what it and the stream say of each other.
LEMMA LinkedFacts ==
  ASSUME DataInv, NEW e \in Ends, NEW P, Linked(e, P)
  PROVE  /\ SndOK(e, Stream(e), taken[e]) /\ SndWindow(e, Stream(e), taken[e], P)
         /\ RcvData(Peer(e), rcv[e], written[e], batch[e], P)
         /\ CloseOK(Peer(e), ctl[e], rcv[e], written[e], batch[e], P)
         /\ RcvCount(e, rcv[e], batch[e])
         /\ OpenFirst(e, Stream(e)) /\ snd[e].sndUna <= P.rcv /\ ViewOK(Peer(e), P)
         /\ Stream(e).c = ctl[e] /\ Stream(e).s = snd[e] /\ Stream(e).r = rcv[e]
         /\ Peer(e) \in Ends /\ snd[e] \in SndType /\ rcv[e] \in RcvType
         /\ taken[e] \in Nat /\ written[e] \in Seq(Bytes) /\ batch[e] \in Seq(Bytes)
         /\ Paired => P = View(Peer(e))
<1>1. /\ Stream(e).c = ctl[e] /\ Stream(e).s = snd[e] /\ Stream(e).r = rcv[e]
  BY DEF Stream
<1>2. /\ DataOK(e, Stream(e), taken[e], written[e], batch[e], P) /\ ViewOK(Peer(e), P)
      /\ P = View(Peer(e)) \/ (e = "client" /\ Cut)
  BY Zenon DEF Linked
<1>3. /\ Peer(e) \in Ends /\ snd[e] \in SndType /\ rcv[e] \in RcvType
      /\ taken[e] \in Nat /\ written[e] \in Seq(Bytes) /\ batch[e] \in Seq(Bytes)
  BY PeerIsEnd DEF DataInv, IInv, StreamsOK, RestOK
<1>4. Paired => ~Cut
  <2>1. ctl["server"].src \in Nat
    BY DEF DataInv, IInv, StreamsOK, CtlType, Ends
  <2>2. QED
    BY <2>1 DEF Paired, Cut
<1>5. QED
  BY <1>1, <1>2, <1>3, <1>4, Zenon DEF DataOK, RcvOK

\* What was taken from end "client" without its OPEN: nothing.
LEMMA ServerFirst ==
  ASSUME DataInv, ctl["server"].src = 0
  PROVE  Received("server") = <<>>
<1>1. PICK P : Linked("server", P)
  BY DEF DataInv, Ends
<1>2. /\ RcvData("client", rcv["server"], written["server"], batch["server"], P)
      /\ OpenFirst("server", Stream("server")) /\ Stream("server").c = ctl["server"]
      /\ Stream("server").r = rcv["server"] /\ rcv["server"] \in RcvType
      /\ written["server"] \in Seq(Bytes) /\ batch["server"] \in Seq(Bytes)
  <2>1. "server" \in Ends /\ Peer("server") = "client"
    BY DEF Ends, Peer
  <2>2. QED
    BY <1>1, <2>1, LinkedFacts
<1>3. rcv["server"].rcvNxt = 0 /\ rcv["server"].rcvQueue \in Seq(Bytes)
  BY <1>2 DEF OpenFirst, RcvType
<1>4. Passed("client", rcv["server"]) = 0
  <2>1. Base("client") = 1
    BY DEF Base
  <2>2. QED
    BY <1>3, <2>1 DEF Passed, Larger
<1> DEFINE l == Len(written["server"])
           m == Len(batch["server"])
           n == Len(rcv["server"].rcvQueue)
<1>5. l \in Nat /\ m \in Nat /\ n \in Nat /\ l + m + n <= 0
  <2>1. l \in Nat /\ m \in Nat /\ n \in Nat
    BY <1>2, <1>3
  <2>2. l + m + n <= 0
    BY <1>2, <1>4 DEF RcvData
  <2>3. QED
    BY <2>1, <2>2
<1> HIDE DEF l, m, n
<1>6. l = 0 /\ m = 0 /\ n = 0
  BY <1>5
<1>7. written["server"] = <<>> /\ batch["server"] = <<>> /\ rcv["server"].rcvQueue = <<>>
  BY <1>2, <1>3, <1>6 DEF l, m, n
<1>8. QED
  BY <1>7 DEF Received

\* All that end e took is one run of the bytes of one connection.
LEMMA ReceivedRuns ==
  ASSUME DataInv, NEW e \in Ends
  PROVE  \E k \in 0 .. MaxStreams :
           \A i \in 1 .. Len(Received(e)) : Received(e)[i] = <<k, i>>
<1>1. PICK P : Linked(e, P)
  BY DEF DataInv
<1> DEFINE w == written[e]
           b == batch[e]
           q == rcv[e].rcvQueue
<1>2. /\ w \in Seq(Bytes) /\ b \in Seq(Bytes) /\ q \in Seq(Bytes)
      /\ Run(w, P.src, 0) /\ Run(b, P.src, Len(w)) /\ Run(q, P.src, Len(w) + Len(b))
      /\ ViewOK(Peer(e), P)
  BY <1>1, LinkedFacts DEF RcvData, RcvType
<1> HIDE DEF w, b, q
<1>3. /\ w \o b \in Seq(Bytes) /\ Len(w \o b) = Len(w) + Len(b)
      /\ Run(w \o b, P.src, 0)
  <2>1. 0 + Len(w) = Len(w)
    BY <1>2
  <2>2. QED
    BY <1>2, <2>1, RunAppend
<1>4. Run((w \o b) \o q, P.src, 0) /\ (w \o b) \o q \in Seq(Bytes)
  <2>1. 0 + Len(w \o b) = Len(w) + Len(b)
    BY <1>2, <1>3
  <2>2. QED
    BY <1>2, <1>3, <2>1, RunAppend
<1>5. Received(e) = (w \o b) \o q
  BY DEF Received, w, b, q
<1>6. ASSUME NEW i \in 1 .. Len(Received(e)) PROVE Received(e)[i] = <<P.src, i>>
  <2>1. Received(e)[i] = <<P.src, 0 + i>>
    BY <1>4, <1>5 DEF Run
  <2>2. 0 + i = i
    OBVIOUS
  <2>3. QED
    BY <2>1, <2>2
<1>7. CASE P.src \in 0 .. MaxStreams
  BY <1>6, <1>7
<1>8. CASE P.src \notin 0 .. MaxStreams
  <2>1. P.src \in Nat /\ MaxStreams \in Nat
    BY <1>2, BoundsAssumption DEF ViewOK, ViewType
  <2>2. e = "server" /\ P.src = 1
    <3>1. /\ e = "client" => P.src <= MaxStreams
          /\ e = "server" => P = View("client")
      BY <1>1, Zenon DEF Linked, Peer
    <3>2. View("client").src = 1
      BY DEF View, ViewOf
    <3>3. QED
      BY <1>8, <2>1, <3>1, <3>2 DEF Ends
  <2>3. ctl["server"].src = 0
    <3>1. ctl["server"].src \in Nat /\ ctl["server"].src <= MaxStreams
      BY <2>2 DEF DataInv, IInv, StreamsOK, CtlType
    <3>2. QED
      BY <1>8, <2>1, <2>2, <3>1
  <2>4. Received(e) = <<>>
    BY <2>2, <2>3, ServerFirst
  <2>5. 0 \in 0 .. MaxStreams
    BY <2>1
  <2>6. \A i \in 1 .. Len(Received(e)) : Received(e)[i] = <<0, i>>
    BY <2>4
  <2>7. QED
    BY <2>5, <2>6
<1>9. QED
  BY <1>7, <1>8

\* DataInv says what was received, acknowledged, closed and finished.
LEMMA DataImplies ==
  DataInv => InOrderExactlyOnce /\ AckedIsReceived /\ EOFIsComplete /\ FinishedIsDelivered
<1> SUFFICES ASSUME DataInv
             PROVE  /\ InOrderExactlyOnce /\ AckedIsReceived
                    /\ EOFIsComplete /\ FinishedIsDelivered
  OBVIOUS
<1>1. InOrderExactlyOnce
  BY ReceivedRuns, Zenon DEF InOrderExactlyOnce
<1>2. ASSUME NEW e \in Ends, Paired
      PROVE  /\ snd[e].sndUna <= rcv[Peer(e)].rcvNxt
             /\ rcv[Peer(e)].rcvNxt <= snd[e].sndNxt
             /\ ctl[e].life = "finished" => snd[e].sndUna = snd[e].sndNxt
             /\ ctl[e].wr = "close" \/ rcv[e].finWritten =>
                  snd[Peer(e)].finQueued /\ Len(written[e]) = taken[Peer(e)]
  <2>1. PICK P : Linked(e, P)
    BY DEF DataInv
  <2>2. Peer(e) \in Ends /\ Peer(Peer(e)) = e
    BY PeerIsEnd
  <2>3. PICK Q : Linked(Peer(e), Q)
    BY <2>2 DEF DataInv
  <2>4. P = View(Peer(e)) /\ Q = View(e)
    BY <1>2, <2>1, <2>2, <2>3, LinkedFacts
  <2>5. /\ P.rcv = rcv[Peer(e)].rcvNxt /\ Q.nxt = snd[e].sndNxt
        /\ P.fin = snd[Peer(e)].finQueued /\ P.last = Base(Peer(e)) + taken[Peer(e)]
    BY <2>4 DEF View, ViewOf, Stream
  <2>6. /\ snd[e].sndUna <= P.rcv /\ SndOK(e, Stream(e), taken[e])
        /\ Stream(e).c = ctl[e] /\ Stream(e).s = snd[e]
        /\ RcvData(Peer(e), rcv[e], written[e], batch[e], P)
        /\ CloseOK(Peer(e), ctl[e], rcv[e], written[e], batch[e], P)
    BY <2>1, LinkedFacts
  <2>7. rcv[Peer(e)].rcvNxt <= Q.nxt
    BY <2>2, <2>3, LinkedFacts DEF RcvData
  <2>8. ctl[e].life = "finished" => snd[e].sndUna = snd[e].sndNxt
    BY <2>6 DEF SndOK
  <2>9. ASSUME ctl[e].wr = "close" \/ rcv[e].finWritten
        PROVE  snd[Peer(e)].finQueued /\ Len(written[e]) = taken[Peer(e)]
    <3>1. rcv[e].rcvFin /\ Len(written[e]) = P.last - Base(Peer(e))
      BY <2>6, <2>9 DEF CloseOK
    <3>2. taken[Peer(e)] \in Nat /\ Base(Peer(e)) \in Nat
      BY <2>2, <2>3, LinkedFacts DEF Base
    <3>3. P.fin
      BY <2>6, <3>1 DEF RcvData
    <3>4. QED
      BY <2>5, <3>1, <3>2, <3>3
  <2>10. QED
    BY <2>5, <2>6, <2>7, <2>8, <2>9
<1>3. AckedIsReceived
  BY <1>2 DEF AckedIsReceived
<1>4. EOFIsComplete
  BY <1>2, Zenon DEF EOFIsComplete
<1>5. FinishedIsDelivered
  <2>1. ASSUME NEW e \in Ends, Paired, ctl[e].life = "finished"
        PROVE  rcv[Peer(e)].rcvNxt = snd[e].sndNxt
    <3>1. rcv[Peer(e)].rcvNxt \in Nat /\ snd[e].sndNxt \in Nat
      BY PeerIsEnd DEF DataInv, IInv, StreamsOK, SndType, RcvType
    <3>2. /\ snd[e].sndUna <= rcv[Peer(e)].rcvNxt
          /\ rcv[Peer(e)].rcvNxt <= snd[e].sndNxt /\ snd[e].sndUna = snd[e].sndNxt
      BY <1>2, <2>1
    <3>3. QED
      BY <3>1, <3>2
  <2>2. QED
    BY <2>1, Zenon DEF FinishedIsDelivered
<1>6. QED
  BY <1>1, <1>3, <1>4, <1>5

\* The payload positions that end e holds out of order.
Ahead(e) ==
  {q \in 0 .. snd[Peer(e)].sndNxt :
     \E g \in rcv[e].ooo : g.typ = "data" /\ g.seq <= q /\ q < SegEnd(g)}

\* They lie between what it took in order and its window's right edge.
LEMMA AheadInWindow ==
  ASSUME DataInv, Wide, NEW e \in Ends, NEW q \in Ahead(e)
  PROVE  /\ rcv[e].rcvNxt < q
         /\ q < rcv[e].rcvNxt + (Window[e] - rcv[e].rcvQueued)
<1> DEFINE d == Peer(e)
           edge == rcv[e].rcvNxt + (Window[e] - rcv[e].rcvQueued)
<1>1. d \in Ends /\ Peer(d) = e /\ IInv
  BY PeerIsEnd DEF DataInv
<1>2. PICK P : Linked(e, P)
  BY DEF DataInv
<1>3. PICK Q : Linked(d, Q)
  BY <1>1 DEF DataInv
<1>4. PICK g \in rcv[e].ooo : g.typ = "data" /\ g.seq <= q /\ q < SegEnd(g)
  BY DEF Ahead
<1>5. /\ q \in 0 .. snd[d].sndNxt /\ snd[d].sndNxt \in Nat
      /\ g.seq \in Nat /\ SegEnd(g) \in Nat
      /\ rcv[e].rcvNxt \in Nat /\ rcv[e].rcvQueued \in Int /\ Window[e] \in Nat
      /\ rcv[e].rcvNxt < g.seq /\ SegEnd(g) <= rcv[e].rcvNxt + Window[e]
  <2>1. rcv[e] \in RcvType /\ snd[d] \in SndType /\ InWindow(e, rcv[e])
    BY <1>1, StreamParts DEF IInv
  <2>2. g \in Segment
    BY <1>4, <2>1 DEF RcvType
  <2>3. g.seq \in Nat /\ SegEnd(g) \in Nat
    BY <2>2 DEF Segment, SegEnd
  <2>4. rcv[e].rcvNxt < g.seq /\ SegEnd(g) <= rcv[e].rcvNxt + Window[e]
    BY <1>4, <2>1 DEF InWindow
  <2>5. snd[d].sndNxt \in Nat /\ rcv[e].rcvNxt \in Nat /\ rcv[e].rcvQueued \in Int
    BY <2>1 DEF SndType, RcvType
  <2>6. q \in 0 .. snd[d].sndNxt
    BY DEF Ahead
  <2>7. QED
    BY <2>3, <2>4, <2>5, <2>6, WindowAssumption
<1>6. /\ RcvData(d, rcv[e], written[e], batch[e], P) /\ ViewOK(d, P)
      /\ RcvCount(e, rcv[e], batch[e]) /\ OpenFirst(e, Stream(e))
      /\ Stream(e).c = ctl[e] /\ Stream(e).r = rcv[e] /\ batch[e] \in Seq(Bytes)
      /\ rcv[e].rcvQueue \in Seq(Bytes)
  BY <1>2, LinkedFacts DEF RcvType
<1>7. /\ SndWindow(d, Stream(d), taken[d], Q) /\ OpenFirst(d, Stream(d))
      /\ Stream(d).c = ctl[d] /\ Stream(d).s = snd[d]
  BY <1>1, <1>3, LinkedFacts
<1>8. /\ P = View(d) \/ (e = "client" /\ Cut)
      /\ Q = View(e) \/ (d = "client" /\ Cut)
      /\ P.last \in Nat
  BY <1>1, <1>2, <1>3, <1>6, Zenon DEF Linked, ViewOK, ViewType
<1>9. SegEnd(g) <= P.last
  BY <1>4, <1>6 DEF RcvData, IsSegOf
<1>10. rcv[e].rcvNxt < q
  BY <1>4, <1>5
<1>11. CASE e = "client" /\ Cut
  <2>1. snd[d].sndNxt = 0
    BY <1>7, <1>11 DEF Cut, OpenFirst, Peer
  <2>2. QED
    BY <1>5, <1>10, <2>1
<1>12. CASE d = "client" /\ Cut
  <2>1. rcv[e].rcvNxt = 0
    BY <1>1, <1>6, <1>12 DEF Cut, OpenFirst, Peer
  <2>2. rcv[e].rcvQueued = 0
    <3> DEFINE l == Len(batch[e])
               m == Len(rcv[e].rcvQueue)
    <3>1. l \in Nat /\ m \in Nat
      BY <1>6
    <3>2. l + m <= rcv[e].rcvQueued /\ rcv[e].rcvQueued <= 0
      BY <1>6, <2>1 DEF RcvCount
    <3> HIDE DEF l, m
    <3>3. QED
      BY <1>5, <3>1, <3>2
  <2>3. QED
    BY <1>4, <1>5, <1>10, <2>1, <2>2
<1>13. CASE P = View(d) /\ Q = View(e)
  <2>1. ViewOK(e, View(e)) /\ View(e).edge = edge /\ P.last = Base(d) + taken[d]
    BY <1>1, <1>2, <1>13, LinkedTyped DEF View, ViewOf, Stream
  <2>2. Window[e] <= edge /\ edge \in Int
    BY <2>1 DEF ViewOK, ViewType
  <2>3. P.last <= Right(d, Stream(d), Q)
    BY <1>7, <2>1 DEF SndWindow
  <2>4. Right(d, Stream(d), Q) = Window[e] \/ Right(d, Stream(d), Q) = edge
    BY <1>1, <1>13, <2>1 DEF Right
  <2>5. QED
    BY <1>4, <1>5, <1>8, <1>9, <1>10, <2>2, <2>3, <2>4
<1>14. QED
  BY <1>8, <1>11, <1>12, <1>13

\* No end holds more bytes than its window.
LEMMA BufferedFits == ASSUME DataInv, Wide PROVE BufferedWithinWindow
<1> SUFFICES ASSUME NEW e \in Ends PROVE Buffered(e) <= Window[e]
  BY DEF BufferedWithinWindow
<1> DEFINE n == rcv[e].rcvNxt
           c == rcv[e].rcvQueued
           S == Ahead(e)
           I == n + 1 .. n + (Window[e] - c) - 1
<1>1. PICK P : Linked(e, P)
  BY DEF DataInv
<1>2. /\ n \in Nat /\ c \in Int /\ Window[e] \in Nat /\ c <= Window[e]
  <2>1. rcv[e] \in RcvType /\ RcvCount(e, rcv[e], batch[e])
    BY <1>1, LinkedFacts
  <2>2. QED
    BY <2>1, WindowAssumption DEF RcvType, RcvCount
<1>3. \A q \in S : q \in Int /\ n < q /\ q < n + (Window[e] - c)
  BY AheadInWindow DEF Ahead
<1>4. Buffered(e) = c + Cardinality(S)
  BY DEF Buffered, Ahead
<1> HIDE DEF n, c, S
<1>5. S \in SUBSET I
  BY <1>2, <1>3
<1>6. /\ IsFiniteSet(I)
      /\ Cardinality(I) = IF n + 1 > n + (Window[e] - c) - 1 THEN 0
                          ELSE (n + (Window[e] - c) - 1) - (n + 1) + 1
  <2>1. n + 1 \in Int /\ n + (Window[e] - c) - 1 \in Int
    BY <1>2
  <2>2. QED
    BY <2>1, FS_Interval
<1>7. Cardinality(S) <= Cardinality(I) /\ IsFiniteSet(S)
  BY <1>5, <1>6, FS_Subset
<1>8. Cardinality(S) \in Nat
  BY <1>7, FS_CardinalityType
<1> DEFINE k == Cardinality(S)
           j == Cardinality(I)
<1>9. /\ k \in Nat /\ k <= j
      /\ j = IF n + 1 > n + (Window[e] - c) - 1 THEN 0
             ELSE (n + (Window[e] - c) - 1) - (n + 1) + 1
  BY <1>6, <1>7, <1>8
<1> HIDE DEF k, j, I
<1>10. c + k <= Window[e]
  BY <1>2, <1>9
<1>11. QED
  BY <1>4, <1>10 DEF k

\* What readLoop and writeLoop promise the applications: what was written, is being
\* written and waits to be written to a connection is the peer connection's bytes
\* 1, 2, 3... in order, once and of one connection, whatever the lines lose, repeat
\* or reorder and however often the server stream is created again.
THEOREM InOrder == Spec => []InOrderExactlyOnce
<1>1. Init => DataInv
  BY InitData
<1>2. DataInv /\ [Next]_vars => DataInv'
  BY NextData
<1>3. DataInv => InOrderExactlyOnce
  BY DataImplies
<1>4. QED
  BY <1>1, <1>2, <1>3, PTL DEF Spec

\* processAckLocked forgets a segment only when the peer holds it, and the peer
\* acknowledges no more than was sent.
THEOREM Acknowledged == Spec => []AckedIsReceived
<1>1. Init => DataInv
  BY InitData
<1>2. DataInv /\ [Next]_vars => DataInv'
  BY NextData
<1>3. DataInv => AckedIsReceived
  BY DataImplies
<1>4. QED
  BY <1>1, <1>2, <1>3, PTL DEF Spec

\* writeLoop closes the write side of a connection only when the peer's connection
\* has ended and all its bytes were written: a reset never looks like an EOF.
THEOREM CompleteEOF == Spec => []EOFIsComplete
<1>1. Init => DataInv
  BY InitData
<1>2. DataInv /\ [Next]_vars => DataInv'
  BY NextData
<1>3. DataInv => EOFIsComplete
  BY DataImplies
<1>4. QED
  BY <1>1, <1>2, <1>3, PTL DEF Spec

\* maybeFinishLocked ends a stream only when the peer holds all of it, FIN included.
THEOREM FinishedDelivered == Spec => []FinishedIsDelivered
<1>1. Init => DataInv
  BY InitData
<1>2. DataInv /\ [Next]_vars => DataInv'
  BY NextData
<1>3. DataInv => FinishedIsDelivered
  BY DataImplies
<1>4. QED
  BY <1>1, <1>2, <1>3, PTL DEF Spec

\* A receiver never buffers more than its window, retransmissions and segments ahead
\* of gaps included, when no window is smaller than the one assumed for it
\* (tcpStreamInitWindow).
THEOREM BoundedBuffers == ASSUME Wide PROVE Spec => []BufferedWithinWindow
<1>1. Init => DataInv
  BY InitData
<1>2. DataInv /\ [Next]_vars => DataInv'
  BY NextData
<1>3. DataInv => BufferedWithinWindow
  BY BufferedFits
<1>4. QED
  BY <1>1, <1>2, <1>3, PTL DEF Spec
=============================================================================
