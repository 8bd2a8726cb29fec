------------------------------ MODULE UdpParts ------------------------------
(***************************************************************************)
(* A UDP line, the send side of a forward connection, and that of a        *)
(* listener, with every size left open.  They do not interact here: a      *)
(* behaviour is one of the part that part names.                           *)
(***************************************************************************)
EXTENDS UdpLine

CONSTANTS
  Control, Data, Conns, Chans, Loops, \* of UdpForwardConn
  Replies, Probe, Clients,            \* of UdpListenSend
  PrioSize, QueueSize, Batch, None    \* of both

VARIABLES
  part, f_shaped, f_sock, f_up, f_open, f_closeCh, f_closedChs, f_closed,
  f_prio, f_queue, f_pushing, f_refs, f_pc, f_watch, f_held, f_out, f_using,
  f_leaving, f_due, f_rc, f_stopping, f_crashed, q_mode, q_stopped, q_prio, q_queue, q_pushing,
  q_high, q_refs, q_probes, q_pc, q_paths, q_held, q_quiet, q_out

Forward == INSTANCE UdpForwardConn WITH
  Socks <- Conns, shaped <- f_shaped, sock <- f_sock, up <- f_up, open <- f_open,
  closeCh <- f_closeCh, closedChs <- f_closedChs, closed <- f_closed,
  prio <- f_prio, queue <- f_queue, pushing <- f_pushing, refs <- f_refs,
  pc <- f_pc, watch <- f_watch, held <- f_held, out <- f_out, using <- f_using,
  leaving <- f_leaving, due <- f_due, rc <- f_rc, stopping <- f_stopping, crashed <- f_crashed

Send == INSTANCE UdpListenSend WITH
  Packets <- Replies, mode <- q_mode, stopped <- q_stopped, prio <- q_prio, queue <- q_queue, pushing <- q_pushing,
  high <- q_high, refs <- q_refs, probes <- q_probes, pc <- q_pc,
  paths <- q_paths, held <- q_held, quiet <- q_quiet, out <- q_out

\* What the two assume of their constants.
ASSUME PartsAssumption == Forward!ForwardAssumption /\ Send!SendAssumption

forwardVars ==
  <<f_shaped, f_sock, f_up, f_open, f_closeCh, f_closedChs, f_closed, f_prio,
    f_queue, f_pushing, f_refs, f_pc, f_watch, f_held, f_out, f_using,
    f_leaving, f_due, f_rc, f_stopping, f_crashed>>

sendVars ==
  <<q_mode, q_stopped, q_prio, q_queue, q_pushing, q_high, q_refs, q_probes,
    q_pc, q_paths, q_held, q_quiet, q_out>>

partVars ==
  <<part, vars, forwardVars, sendVars>>

\* Each part rests in one of its initial states unless it is the one that runs.
PartInit ==
  /\ part \in {"udp line", "udp forward", "listen send"}
  /\ Init /\ (part # "udp line" => config = [auth |-> TRUE, replace |-> FALSE])
  /\ Forward!Init /\ (part # "udp forward" => ~f_shaped)
  /\ Send!Init /\ (part # "listen send" => q_mode = "plain")

PartNext ==
  \/ part = "udp line" /\ Next
     /\ UNCHANGED <<part, forwardVars, sendVars>>
  \/ part = "udp forward" /\ Forward!Next
     /\ UNCHANGED <<part, vars, sendVars>>
  \/ part = "listen send" /\ Send!Next
     /\ UNCHANGED <<part, vars, forwardVars>>

\* The fairness of UdpLine while it runs.
PartFairness ==
  /\ WF_vars(part = "udp line" /\ Tick)
  /\ WF_vars(part = "udp line" /\ TryReconnect)
  /\ WF_vars(part = "udp line" /\ SetAuthenticated)
  /\ SF_vars(part = "udp line" /\ \E m \in net : Heard(m))
  /\ SF_vars(part = "udp line" /\ \E m \in net : m.fresh /\ OnAuthResponse(m))

PartSpec == PartInit /\ [][PartNext]_partVars /\ PartFairness

-----------------------------------------------------------------------------

\* UdpLine's Recovers, for the behaviours that are its own.
LineRecovers == []<>(part = "udp line" => Up \/ Deaf)

\* Each reference of a UDP forwarder's packets is in one place and released once,
\* also with two send loops on one queue (drainForwardQueue, flush, tryReconnect).
RefsHeldOnce == Forward!RefsHeldOnce

\* A connected UDP forwarder has a send loop that will look at its queue
\* (tryReconnect, forwardConnSendLoop).
SendLoopAlive == Forward!SendLoopAlive

\* Every job of a UDP listener's packets owns one reference until it is written,
\* dropped or drained (queueSendWithPriority, runShapedSendLoop).
JobsOwnReferences == Send!JobsOwnReferences
=============================================================================
