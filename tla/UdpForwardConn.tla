---------------------------- MODULE UdpForwardConn ----------------------------
(***************************************************************************)
(* One ForwardConn of the UDP forward component (src/forward.go) and the   *)
(* goroutines that share it: producers that enqueue packets, the send loop *)
(* (plain, or shaped: then packets wait in a pathShaper), whoever finds    *)
(* the socket broken, tryReconnect and Stop.  tryReconnect replaces the    *)
(* socket and the close channel while an old send loop may still be busy,  *)
(* or about to close whatever socket there is by then.                     *)
(*                                                                         *)
(* Sockets, channels and loops are used again once nothing refers to them; *)
(* which one is new makes no difference, so it is not left open.           *)
(***************************************************************************)
EXTENDS Integers, Sequences, FiniteSets, SequencesExt

CONSTANTS
  Control,    \* heartbeats and other packets of high priority
  Data,       \* other packets
  PrioSize,   \* capacity of sendQueuePrio
  QueueSize,  \* capacity of sendQueue
  Batch,      \* packets written at once
  Socks, Chans, Loops,
  None

VARIABLES
  shaped,    \* whether a shaper is configured
  sock,      \* conn.conn
  up,        \* isConnected
  open,      \* open sockets
  closeCh,   \* the current close channel
  closedChs, \* closed channels
  closed,    \* the flag that guards signalClose
  prio, queue,  \* the two channels of packets
  pushing,   \* packet whose producer passed the checks and is about to push
  refs,      \* [Packets -> references that the connection owns]
  pc,        \* [Loops -> where the send loop is]
  watch,     \* [Loops -> channel its select waits for]
  held,      \* [Loops -> packets in its shaper]
  out,       \* [Loops -> packets it is about to write]
  using,     \* [Loops -> socket it is about to write to]
  leaving,   \* a reader or a heartbeat found the connection down and is about to close it
  due,       \* connectionChecker has started tryReconnect
  rc,        \* where tryReconnect is; "off": reconnecting = 0
  stopping,  \* where Stop is; "no": not called
  crashed    \* a channel was closed twice: the process is gone

socket == <<sock, up, open>>
closing == <<closeCh, closedChs, closed, crashed>>
packets == <<prio, queue, refs>>
loops == <<pc, watch, held, out, using>>
checks == <<leaving, due>>
vars == <<shaped, socket, closing, packets, pushing, loops, checks, rc, stopping>>

Packets == Control \cup Data

\* A batch has room for a packet (MaxBatch), and there are goroutines for send loops.
ForwardAssumption ==
  /\ None \notin Packets \cup Socks \cup Chans
  /\ Batch \in Nat \ {0} /\ Loops # {}

Stopped == stopping # "no"
IsConnected == up /\ sock # None

\* x is the next of those not in use.
IsNew(x, S) == x \in S /\ x = CHOOSE y \in S : TRUE

\* setupForwarder: a socket, its queues and a send loop.
Init ==
  /\ shaped \in BOOLEAN
  /\ sock \in Socks /\ IsNew(sock, Socks) /\ open = {sock} /\ up = TRUE
  /\ closeCh \in Chans /\ IsNew(closeCh, Chans) /\ closedChs = {}
  /\ closed = FALSE /\ crashed = FALSE
  /\ prio = <<>> /\ queue = <<>> /\ pushing = None
  /\ refs = [p \in Packets |-> 0]
  /\ pc = [l \in Loops |-> IF IsNew(l, Loops) THEN "wait" ELSE "off"]
  /\ watch = [l \in Loops |-> IF pc[l] = "wait" THEN closeCh ELSE None]
  /\ held = [l \in Loops |-> {}] /\ out = [l \in Loops |-> {}]
  /\ using = [l \in Loops |-> None]
  /\ leaving = FALSE /\ due = FALSE /\ rc = "off" /\ stopping = "no"

\* Packets of S lose one reference.
Released(S) == [p \in Packets |-> IF p \in S THEN refs[p] - 1 ELSE refs[p]]

-----------------------------------------------------------------------------
(* enqueuePacketWithPriority.                                              *)

\* The packet gets a reference; a closed connection or a stopped component
\* refuses it.
Enqueue(p) ==
  /\ pushing = None /\ refs[p] = 0 /\ ~closed /\ ~Stopped
  /\ pushing' = p
  /\ refs' = [refs EXCEPT ![p] = @ + 1]
  /\ UNCHANGED <<shaped, socket, closing, prio, queue, loops, checks, rc, stopping>>

\* Mutant: a packet that found no room keeps its place in the queue.
PushReleased(p) ==
  /\ p = pushing /\ pushing' = None
  /\ queue' = Append(queue, p) /\ UNCHANGED prio
  /\ refs' = IF Len(queue) < QueueSize THEN refs ELSE Released({p})
  /\ UNCHANGED <<shaped, socket, closing, loops, checks, rc, stopping>>

\* The priority queue falls back to the other; a full queue drops the packet.
Push(p) ==
  /\ p = pushing /\ pushing' = None
  /\ LET high == p \in Control /\ Len(prio) < PrioSize
         room == Len(queue) < QueueSize
     IN /\ prio' = IF high THEN Append(prio, p) ELSE prio
        /\ queue' = IF ~high /\ room THEN Append(queue, p) ELSE queue
        /\ refs' = IF high \/ room THEN refs ELSE Released({p})
  /\ UNCHANGED <<shaped, socket, closing, loops, checks, rc, stopping>>

-----------------------------------------------------------------------------
(* forwardConnSendLoop and forwardConnShapedLoop.                          *)

\* The loop goes round: its next select waits for the current channel.
Wait(l) ==
  /\ pc' = [pc EXCEPT ![l] = "wait"]
  /\ watch' = [watch EXCEPT ![l] = closeCh]
  /\ out' = [out EXCEPT ![l] = {}] /\ using' = [using EXCEPT ![l] = None]

\* The loop returns; a shaper releases what it holds.
End(l) ==
  /\ pc' = [pc EXCEPT ![l] = "off"] /\ watch' = [watch EXCEPT ![l] = None]
  /\ held' = [held EXCEPT ![l] = {}] /\ out' = [out EXCEPT ![l] = {}]
  /\ using' = [using EXCEPT ![l] = None]

\* flush loads the socket before it writes.
ToFlush(l, batch) ==
  /\ pc' = [pc EXCEPT ![l] = "flush"]
  /\ out' = [out EXCEPT ![l] = batch] /\ watch' = [watch EXCEPT ![l] = None]
  /\ using' = [using EXCEPT ![l] = IF IsConnected THEN sock ELSE None]

\* Priority packets first, as many as a batch takes.
Collect(l) ==
  /\ ~shaped /\ pc[l] = "wait" /\ prio \o queue # <<>>
  /\ LET all == prio \o queue
         n == IF Len(all) < Batch THEN Len(all) ELSE Batch
         high == IF n < Len(prio) THEN n ELSE Len(prio)
     IN /\ ToFlush(l, ToSet(SubSeq(all, 1, n)))
        /\ prio' = SubSeq(prio, high + 1, Len(prio))
        /\ queue' = SubSeq(queue, n - high + 1, Len(queue))
  /\ UNCHANGED <<shaped, socket, closing, refs, pushing, held, checks, rc, stopping>>

\* Everything queued moves into the shaper, which keeps some packets, drops
\* some (its limit, CoDel) and hands the rest out when their time has come.
\* The probes that the loop makes itself go through the shaper only and are
\* left out here (SendProbe of UdpListenSend has them).
Shape(l) ==
  /\ shaped /\ pc[l] = "wait" /\ (prio \o queue # <<>> \/ held[l] # {})
  /\ LET all == held[l] \cup ToSet(prio \o queue)
     IN \E keep \in SUBSET all : \E drop \in SUBSET (all \ keep) :
          /\ held' = [held EXCEPT ![l] = keep]
          /\ refs' = Released(drop)
          /\ IF all = keep \cup drop THEN Wait(l)
             ELSE ToFlush(l, all \ (keep \cup drop))
  /\ prio' = <<>> /\ queue' = <<>>
  /\ UNCHANGED <<shaped, socket, closing, pushing, checks, rc, stopping>>

\* The batch is written, or dropped because the connection is down.
Written(l) ==
  /\ pc[l] = "flush" /\ using[l] \in open \cup {None}
  /\ refs' = Released(out[l])
  /\ Wait(l)
  /\ UNCHANGED <<shaped, socket, closing, prio, queue, pushing, held, checks, rc, stopping>>

\* A write to a broken or closed socket fails.
WriteFails(l) ==
  /\ pc[l] = "flush" /\ using[l] # None
  /\ pc' = [pc EXCEPT ![l] = "failed"]
  /\ using' = [using EXCEPT ![l] = None]
  /\ UNCHANGED <<shaped, socket, closing, packets, pushing, watch, held, out, checks, rc, stopping>>

\* SetDisconnected marks the connection, and then closes whatever socket it has.
MarkDown == up' = FALSE /\ UNCHANGED <<sock, open>>
CloseCurrent == open' = open \ {sock} /\ UNCHANGED <<sock, up>>

\* Mutant: the loop ends and leaves the connection as it is.
GiveUpQuietly(l) ==
  /\ pc[l] = "failed"
  /\ pc' = [pc EXCEPT ![l] = "leaving"]
  /\ UNCHANGED <<shaped, socket, closing, packets, pushing, watch, held, out, using, checks, rc, stopping>>

\* The loop marks the connection,
GiveUp(l) ==
  /\ pc[l] = "failed" /\ MarkDown
  /\ pc' = [pc EXCEPT ![l] = "leaving"]
  /\ UNCHANGED <<shaped, closing, packets, pushing, watch, held, out, using, checks, rc, stopping>>

\* closes its socket and ends, without draining the queues.
Leave(l) ==
  /\ pc[l] = "leaving" /\ CloseCurrent
  /\ refs' = Released(out[l] \cup held[l])
  /\ End(l)
  /\ UNCHANGED <<shaped, closing, prio, queue, pushing, checks, rc, stopping>>

\* The stop channel or the channel it waits for is closed: the loop drains
\* the queues and ends.
Quit(l) ==
  /\ pc[l] = "wait" /\ (Stopped \/ watch[l] \in closedChs)
  /\ prio' = <<>> /\ queue' = <<>>
  /\ refs' = Released(ToSet(prio \o queue) \cup held[l])
  /\ End(l)
  /\ UNCHANGED <<shaped, socket, closing, pushing, checks, rc, stopping>>

-----------------------------------------------------------------------------
(* The socket.                                                             *)

\* readFromForwarder fails, or heartbeats or challenges go unanswered.
Disconnect ==
  /\ IsConnected /\ ~leaving /\ leaving' = TRUE
  /\ MarkDown
  /\ UNCHANGED <<shaped, closing, packets, pushing, loops, due, rc, stopping>>

DisconnectCloses ==
  /\ leaving /\ leaving' = FALSE
  /\ CloseCurrent
  /\ UNCHANGED <<shaped, closing, packets, pushing, loops, due, rc, stopping>>

\* ForwardConn.Close.
CloseSocket == sock' = None /\ open' = open \ {sock} /\ UNCHANGED up

\* A second close of a channel panics.
SignalClose ==
  IF closed THEN UNCHANGED closing
  ELSE /\ closed' = TRUE
       /\ closedChs' = closedChs \cup {closeCh}
       /\ crashed' = (closeCh \in closedChs)
       /\ UNCHANGED closeCh

\* connectionChecker finds the connection down and starts tryReconnect, which does
\* not look again.
CheckFindsDown ==
  /\ ~due /\ ~Stopped /\ ~IsConnected /\ due' = TRUE
  /\ UNCHANGED <<shaped, socket, closing, packets, pushing, loops, leaving, rc, stopping>>

\* Another one is at it, or the last attempt was within reconnectInterval.
ReconnectReturns ==
  /\ due /\ due' = FALSE
  /\ UNCHANGED <<shaped, socket, closing, packets, pushing, loops, leaving, rc, stopping>>

ReconnectCloses ==
  /\ due /\ rc = "off" /\ due' = FALSE
  /\ CloseSocket /\ rc' = "dial"
  /\ UNCHANGED <<shaped, closing, packets, pushing, loops, leaving, stopping>>

DialFails ==
  /\ rc = "dial" /\ rc' = "off"
  /\ UNCHANGED <<shaped, socket, closing, packets, pushing, loops, checks, stopping>>

DialSucceeds(s) ==
  /\ rc = "dial" /\ IsNew(s, {k \in Socks \ open : \A l \in Loops : using[l] # k})
  /\ sock' = s /\ up' = TRUE /\ open' = open \cup {s}
  /\ rc' = "signal"
  /\ UNCHANGED <<shaped, closing, packets, pushing, loops, checks, stopping>>

ReconnectSignals ==
  /\ rc = "signal" /\ SignalClose /\ rc' = "clear"
  /\ UNCHANGED <<shaped, socket, packets, pushing, loops, checks, stopping>>

ReconnectClears ==
  /\ rc = "clear" /\ closed' = FALSE /\ rc' = "make"
  /\ UNCHANGED <<shaped, socket, closeCh, closedChs, crashed, packets, pushing, loops, checks, stopping>>

ReconnectMakes(ch) ==
  /\ rc = "make" /\ IsNew(ch, {k \in Chans \ {closeCh} : \A l \in Loops : watch[l] # k})
  /\ closeCh' = ch /\ closedChs' = closedChs \ {ch} /\ rc' = "start"
  /\ UNCHANGED <<shaped, socket, closed, crashed, packets, pushing, loops, checks, stopping>>

\* The queues are drained and a new send loop starts.
ReconnectStarts(l) ==
  /\ rc = "start" /\ IsNew(l, {k \in Loops : pc[k] = "off"}) /\ rc' = "off"
  /\ prio' = <<>> /\ queue' = <<>>
  /\ refs' = Released(ToSet(prio \o queue))
  /\ pc' = [pc EXCEPT ![l] = "wait"] /\ watch' = [watch EXCEPT ![l] = closeCh]
  /\ UNCHANGED <<shaped, socket, closing, pushing, held, out, using, checks, stopping>>

Stop ==
  /\ ~Stopped /\ stopping' = "close"
  /\ UNCHANGED <<shaped, socket, closing, packets, pushing, loops, checks, rc>>

StopCloses ==
  /\ stopping = "close" /\ stopping' = "signal"
  /\ IF sock # None THEN CloseSocket ELSE UNCHANGED socket
  /\ UNCHANGED <<shaped, closing, packets, pushing, loops, checks, rc>>

StopSignals ==
  /\ stopping = "signal" /\ SignalClose /\ stopping' = "done"
  /\ UNCHANGED <<shaped, socket, packets, pushing, loops, checks, rc>>

LoopNext(l) ==
  \/ Collect(l) \/ Shape(l) \/ Written(l) \/ WriteFails(l) \/ GiveUp(l) \/ Leave(l)
  \/ Quit(l)

ReconnectNext ==
  \/ CheckFindsDown \/ ReconnectReturns \/ ReconnectCloses \/ DialFails
  \/ \E s \in Socks : DialSucceeds(s)
  \/ ReconnectSignals \/ ReconnectClears
  \/ \E ch \in Chans : ReconnectMakes(ch)
  \/ \E l \in Loops : ReconnectStarts(l)

Next ==
  /\ ~crashed
  /\ \/ \E p \in Packets : Enqueue(p) \/ Push(p)
     \/ \E l \in Loops : LoopNext(l)
     \/ Disconnect \/ DisconnectCloses \/ ReconnectNext
     \/ Stop \/ StopCloses \/ StopSignals

Spec == Init /\ [][Next]_vars

-----------------------------------------------------------------------------

\* Places that hold the packet.
Places(p) ==
  (IF p = pushing THEN 1 ELSE 0)
  + Cardinality({i \in DOMAIN prio : prio[i] = p})
  + Cardinality({i \in DOMAIN queue : queue[i] = p})
  + Cardinality({l \in Loops : p \in held[l]}) + Cardinality({l \in Loops : p \in out[l]})

\* Every reference to a packet is in exactly one place and released exactly
\* once, whichever of two send loops, a drain or a failed write had it
\* (drainForwardQueue, flush, reset): its buffer is never used twice.
RefsHeldOnce == \A p \in Packets : refs[p] = Places(p) /\ refs[p] <= 1

\* A connection that takes packets has a send loop that will look at its
\* queues: an old loop that ends never leaves a new connection without one
\* (tryReconnect, forwardConnSendLoop).
SendLoopAlive ==
  IsConnected /\ rc = "off" /\ ~Stopped /\ ~crashed =>
    \E l \in Loops : pc[l] \notin {"off", "leaving"} /\ ~(pc[l] = "wait" /\ watch[l] \in closedChs)
=============================================================================
