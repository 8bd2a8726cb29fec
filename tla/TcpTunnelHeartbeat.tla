-------------------------- MODULE TcpTunnelHeartbeat --------------------------
(***************************************************************************)
(* Heartbeats of one authenticated TCP tunnel connection: sendHeartbeat of *)
(* the forward side (src/tcp_tunnel_forward.go), the echo and its ack in   *)
(* readLoop (src/tcp_tunnel.go) and the counters of both ends              *)
(* (src/heartbeat_tracker.go).  TCP neither loses nor reorders; a peer may *)
(* be slow or hang.  A heartbeat is noted as sent after it is queued, so   *)
(* its echo may be handled before; and the ticker's goroutine and readLoop *)
(* change the two counters one at a time, in steps of their own.           *)
(***************************************************************************)
EXTENDS Integers, Sequences

CONSTANTS
  MaxLoss,     \* losses in a row that end the connection (5 in the code)
  MaxInFlight  \* bound on the messages on the way in one direction

VARIABLES
  hb,      \* [Ends -> [awaiting, loss]]: the heartbeatTracker of each end
  tick,    \* where sendHeartbeat is (the ticks are seconds apart: one at a time)
  echo,    \* where the forward side's readLoop is with an echo
  toPeer,  \* messages on their way to the listen side
  toUs,    \* and to the forward side
  closed,  \* the forward side disconnected
  silent   \* ticks since an echo was handled: a history variable

vars == <<hb, tick, echo, toPeer, toUs, closed, silent>>

\* The code allows 5 losses.
HeartbeatAssumption == MaxLoss \in Nat

Ends == {"forward", "listen"}

Init ==
  /\ hb = [e \in Ends |-> [awaiting |-> FALSE, loss |-> 0]]
  /\ tick = "off" /\ echo = "off" /\ toPeer = <<>> /\ toUs = <<>>
  /\ closed = FALSE /\ silent = 0

NoteHeartbeatSent(h) == [h EXCEPT !.awaiting = TRUE]

-----------------------------------------------------------------------------
(* sendHeartbeat, in a goroutine of the ticker.                            *)

\* MarkPendingHeartbeatLost: the CompareAndSwap of awaitingAck ...
SendHeartbeat ==
  /\ ~closed /\ tick = "off"
  /\ tick' = IF hb["forward"].awaiting THEN "add" ELSE "load"
  /\ hb' = [hb EXCEPT !["forward"].awaiting = FALSE]
  /\ silent' = silent + 1
  /\ UNCHANGED <<echo, toPeer, toUs, closed>>

\* ... and the new or the old value of consecutiveLoss.
CountLoss ==
  /\ tick \in {"add", "load"}
  /\ LET loss == hb["forward"].loss + (IF tick = "add" THEN 1 ELSE 0)
     IN /\ hb' = [hb EXCEPT !["forward"].loss = loss]
        /\ tick' = IF loss >= MaxLoss THEN "disconnect" ELSE "send"
  /\ UNCHANGED <<echo, toPeer, toUs, closed, silent>>

Disconnect ==
  /\ tick = "disconnect" /\ tick' = "off"
  /\ closed' = TRUE
  /\ UNCHANGED <<hb, echo, toPeer, toUs, silent>>

QueueHeartbeat ==
  /\ tick = "send" /\ Len(toPeer) < MaxInFlight
  /\ tick' = "note" /\ toPeer' = Append(toPeer, "heartbeat")
  /\ UNCHANGED <<hb, echo, toUs, closed, silent>>

NoteSent ==
  /\ tick = "note" /\ tick' = "off"
  /\ hb' = [hb EXCEPT !["forward"] = NoteHeartbeatSent(@)]
  /\ UNCHANGED <<echo, toPeer, toUs, closed, silent>>

-----------------------------------------------------------------------------
(* The read loops.                                                         *)

\* The tracker of the listen side is its readLoop's alone: an unacknowledged
\* echo is lost and a new one is sent; an ack settles it.
ListenReads ==
  /\ ~closed /\ toPeer # <<>> /\ Len(toUs) < MaxInFlight
  /\ toPeer' = Tail(toPeer)
  /\ LET h == hb["listen"]
         lost == [awaiting |-> FALSE, loss |-> h.loss + (IF h.awaiting THEN 1 ELSE 0)]
     IN IF Head(toPeer) = "heartbeat"
        THEN /\ hb' = [hb EXCEPT !["listen"] = NoteHeartbeatSent(lost)]
             /\ toUs' = Append(toUs, "heartbeat")
        ELSE /\ hb' = [hb EXCEPT !["listen"] = [awaiting |-> FALSE, loss |-> 0]]
             /\ UNCHANGED toUs
  /\ UNCHANGED <<tick, echo, closed, silent>>

\* An echo reaches the forward side.  MarkHeartbeatResponse: no heartbeat is
\* awaited, ...
ForwardReads ==
  /\ ~closed /\ toUs # <<>> /\ echo = "off"
  /\ toUs' = Tail(toUs) /\ echo' = "reset"
  /\ hb' = [hb EXCEPT !["forward"].awaiting = FALSE]
  /\ UNCHANGED <<tick, toPeer, closed, silent>>

\* Mutant: a response does not reset the losses.
MarkResponseOnly ==
  /\ echo = "reset" /\ echo' = "ack"
  /\ silent' = 0
  /\ UNCHANGED <<hb, tick, toPeer, toUs, closed>>

\* ... and none is lost any more ...
MarkHeartbeatResponse ==
  /\ echo = "reset" /\ echo' = "ack"
  /\ hb' = [hb EXCEPT !["forward"].loss = 0]
  /\ silent' = 0
  /\ UNCHANGED <<tick, toPeer, toUs, closed>>

\* ... and the echo is acknowledged.
SendAck ==
  /\ echo = "ack" /\ Len(toPeer) < MaxInFlight
  /\ echo' = "off" /\ toPeer' = Append(toPeer, "ack")
  /\ UNCHANGED <<hb, tick, toUs, closed, silent>>

Next ==
  \/ SendHeartbeat \/ CountLoss \/ Disconnect \/ QueueHeartbeat \/ NoteSent
  \/ ListenReads \/ ForwardReads \/ MarkHeartbeatResponse \/ SendAck

Spec == Init /\ [][Next]_vars

-----------------------------------------------------------------------------

\* A connection is given up only if the last MaxLoss - 1 ticks saw no echo:
\* an echo that readLoop handles between the two steps of
\* MarkPendingHeartbeatLost leaves one loss behind that it should have reset,
\* but never more, and an echo handled before its heartbeat is noted, which
\* counts as lost one tick later, adds nothing (sendHeartbeat,
\* MarkPendingHeartbeatLost, MarkHeartbeatResponse).
GivenUpAfterSilence ==
  [][tick # "disconnect" /\ tick' = "disconnect" => silent >= MaxLoss - 1]_vars
=============================================================================
